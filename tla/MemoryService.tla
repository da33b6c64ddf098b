--------------------------- MODULE MemoryService ---------------------------
(***************************************************************************)
(* The HTTP requests that read and delete memories, beside the workers     *)
(* that write them: POST /get_memory, GET /get_all/{id}, GET /get_core/{id} *)
(* and POST /delete_memory. A read takes the two tiers in two calls, one   *)
(* after the other, while runs move texts between the tiers and requests   *)
(* delete them; most of its failures are swallowed.                        *)
(*                                                                         *)
(* Each action is one call of a handler with the code up to the next one.  *)
(***************************************************************************)
EXTENDS MemoryAgent

CONSTANTS
  Requests,
  Kind,      \* Kind[r]: "search", "all", "core" or "delete"
  Client,    \* Client[r]: the user whose memories r is about
  Matches,   \* Matches[r]: the texts that reach the score threshold of a search
  PageSize   \* the number of points Qdrant returns when no limit is given

Kinds == {"search", "all", "core", "delete"}

ASSUME ServiceAssumption ==
  /\ Kind \in [Requests -> Kinds]
  /\ Client \in [Requests -> Users]
  /\ Matches \in [Requests -> SUBSET Texts]
  /\ PageSize \in Nat

VARIABLES
  req,    \* req[r]: the handler of request r
  kept    \* history: the texts Client[r] has had all the time since r arrived,
          \* in one tier or the other, and that no write has dropped from core

serviceVars == <<vars, req, kept>>

\* Sensitivity variant: GetAllUserMemories and GetMemories read Redis first.
CallsCoreFirst ==
  [search |-> <<"embed", "core", "general">>, all    |-> <<"core", "general">>,
   core   |-> <<"core">>,                     delete |-> <<"lookup", "delete">>]

\* The calls the handler of a request makes, in order.
Calls ==
  [search |-> <<"embed", "general", "core">>, all    |-> <<"general", "core">>,
   core   |-> <<"core">>,                     delete |-> <<"lookup", "delete">>]

CallNames == {"embed", "general", "core", "lookup", "delete"}

Handler == [status : {"unsent", "open", "ok", "error", "cut"},
            todo : Seq(CallNames),       \* the calls still to be made
            general : SUBSET Point,      \* Generalmem
            core : SUBSET CoreMem,       \* CoreMem
            ids : SUBSET (Point \union CoreMem),   \* MemoryIds to delete
            partial : BOOLEAN]           \* history: a read failed or was cut short

Unsent == [status |-> "unsent", todo |-> <<>>, general |-> {}, core |-> {},
           ids |-> {}, partial |-> FALSE]

TextsOf(memories) == {m.text : m \in memories}
Held(u) == TextsOf(core[u]) \union TextsOf({p \in points : p.user = u})
Answered(r) == TextsOf(req[r].general \union req[r].core)

HandlersOK == req \in [Requests -> Handler]
ServiceTypeOK == TypeOK /\ HandlersOK /\ kept \in [Requests -> SUBSET Texts]

ServiceInit ==
  /\ Init
  /\ req = [r \in Requests |-> Unsent]
  /\ kept = [r \in Requests |-> {}]
-----------------------------------------------------------------------------
Calling(r, call) == up /\ req[r].status = "open" /\ Head(req[r].todo) = call

\* The call is done: the handler goes on to the next one, or answers 200.
Continue(r, q) ==
  req' = [req EXCEPT ![r] =
            [q EXCEPT !.todo = Tail(@),
                      !.status = IF Tail(q.todo) = <<>> THEN "ok" ELSE "open"]]

\* The handler answers 500.
Refuse(r) == req' = [req EXCEPT ![r].status = "error"]

\* What every step of a handler leaves alone.
HandlerStep == UNCHANGED <<queueVars, crashes, expiries, wk, runs, core, finished>>

\* A request that decodes. A deletion names memories the client was shown.
Arrive(r) ==
  /\ up /\ req[r].status = "unsent"
  /\ \E ids \in IF Kind[r] = "delete"
                THEN SUBSET (core[Client[r]] \union {p \in points : p.user = Client[r]})
                ELSE {{}} :
       req' = [req EXCEPT ![r] = [Unsent EXCEPT !.status = "open", !.ids = ids,
                                                !.todo = Calls[Kind[r]]]]
  /\ HandlerStep /\ UNCHANGED <<faults, qdrant>>

\* GetMemories embeds the query; without an embedding it gives up.
EmbedQuery(r) ==
  /\ Calling(r, "embed")
  /\ \/ Continue(r, req[r]) /\ UNCHANGED faults
     \/ Fault /\ Refuse(r)
  /\ HandlerStep /\ UNCHANGED qdrant

Selected(r) == {p \in points : /\ p.user = Client[r]
                               /\ Kind[r] = "search" => p.text \in Matches[r]}

\* Query and Scroll are called without a limit.
Pages(P) == IF Cardinality(P) <= PageSize THEN {P}
            ELSE {S \in SUBSET P : Cardinality(S) = PageSize}

\* GetSimilarMemories or GetAllUserMemories of the vector database; an error is
\* logged and the handler goes on.
ReadGeneral(r) ==
  /\ Calling(r, "general")
  /\ \/ /\ \E S \in Pages(Selected(r)) :
             Continue(r, [req[r] EXCEPT !.general = S, !.partial = @ \/ S # Selected(r)])
        /\ UNCHANGED faults
     \/ Fault /\ Continue(r, [req[r] EXCEPT !.partial = TRUE])
  /\ HandlerStep /\ UNCHANGED qdrant

\* GetCoreMemory; only GetCoreMemories reports its error.
ReadCoreTier(r) ==
  /\ Calling(r, "core")
  /\ \/ /\ Continue(r, [req[r] EXCEPT !.core = RedisValue(Client[r])])
        /\ UNCHANGED faults
     \/ Fault /\ Kind[r] = "core" /\ Refuse(r)
     \/ Fault /\ Kind[r] # "core" /\ Continue(r, [req[r] EXCEPT !.partial = TRUE])
  /\ HandlerStep /\ UNCHANGED qdrant

\* DeleteMemories: the lookup finds nothing, or fails, which is the same to it.
LookUp(r) ==
  /\ Calling(r, "lookup")
  /\ \/ Found(req[r].ids) /\ Continue(r, req[r]) /\ UNCHANGED faults
     \/ ~Found(req[r].ids) /\ Refuse(r) /\ UNCHANGED faults
     \/ Fault /\ Refuse(r)
  /\ HandlerStep /\ UNCHANGED qdrant

\* Sensitivity variant: the error of the delete is logged, as InsertMemory does.
DeletePointsSwallowing(r) ==
  LET o == [op |-> "delete", points |-> req[r].ids \intersect Point] IN
  /\ Calling(r, "delete")
  /\ \/ Accept(o) /\ Continue(r, req[r]) /\ UNCHANGED faults
     \/ Fault /\ Continue(r, req[r]) /\ (Accept(o) \/ UNCHANGED qdrant)
  /\ HandlerStep

\* The delete is sent for all the ids. A deletion whose answer is lost is
\* reported as failed.
DeletePoints(r) ==
  LET o == [op |-> "delete", points |-> req[r].ids \intersect Point] IN
  /\ Calling(r, "delete")
  /\ \/ Accept(o) /\ Continue(r, req[r]) /\ UNCHANGED faults
     \/ Fault /\ Refuse(r) /\ (Accept(o) \/ UNCHANGED qdrant)
  /\ HandlerStep

ServiceStep(r) ==
  \/ Arrive(r) \/ EmbedQuery(r) \/ ReadGeneral(r) \/ ReadCoreTier(r)
  \/ LookUp(r) \/ DeletePoints(r)

\* The process dies: open requests get no answer.
ServiceCrash ==
  /\ Crash
  /\ req' = [r \in Requests |-> IF req[r].status = "open"
                                THEN [req[r] EXCEPT !.status = "cut"] ELSE req[r]]

\* The texts that user u had before the step, has after it, and had not to look
\* for in the other tier because of a write of the core list.
Stayed(u) == Held(u)' \ (TextsOf(core[u]) \ TextsOf(core'[u]))

\* Kept only for the requests that read general memories.
Watch ==
  kept' = [r \in Requests |->
             IF Kind[r] \in {"core", "delete"} THEN {} ELSE
             CASE req[r].status = "unsent" -> Held(Client[r])'
               [] req[r].status = "open"   -> kept[r] \intersect Stayed(Client[r])
               [] OTHER                    -> kept[r]]

ServiceNext ==
  /\ \/ QueueStep /\ UNCHANGED req
     \/ ApplyWrite /\ UNCHANGED req
     \/ \E w \in Workers : (WorkerStep(w) \/ DeadlineExpires(w)) /\ UNCHANGED req
     \/ ServiceCrash
     \/ \E r \in Requests : ServiceStep(r)
  /\ Watch

ServiceSpec == ServiceInit /\ [][ServiceNext]_serviceVars
-----------------------------------------------------------------------------
(* Properties that hold.                                                   *)

\* A text the user has had during the whole of a read is in the answer, however
\* runs and deletions move it about while the handler goes from one tier to the
\* other, unless a call of the read failed or was cut short. It rests on an
\* order the code never mentions: a run writes the core list before it deletes
\* and inserts general memories, and a read takes the general memories first.
SteadyTextAnswered ==
  \A r \in Requests :
    req[r].status = "ok" /\ Kind[r] \in {"all", "search"} /\ ~req[r].partial
      => \A t \in kept[r] : t \in Answered(r) \/ (Kind[r] = "search" /\ t \notin Matches[r])

\* Qdrant will show p once it has applied everything it has accepted so far.
WillShow(p) ==
  LET DeletedAfter(i) == \E k \in (i + 1)..Len(backlog) :
                           backlog[k].op = "delete" /\ p \in backlog[k].points
  IN  \/ p \in points /\ ~DeletedAfter(0)
      \/ \E i \in 1..Len(backlog) :
           backlog[i].op = "upsert" /\ p \in backlog[i].points /\ ~DeletedAfter(i)

\* A deletion of general memories that is answered 200 is final, even when
\* Qdrant still has to apply it and the upsert of the same point by a run that
\* is on its way before it: no memory comes back when Qdrant catches up.
DeletionSticks ==
  [][\A r \in Requests :
       Kind[r] = "delete" /\ req[r].status = "open" /\ req'[r].status = "ok"
         => \A p \in req[r].ids \intersect Point : ~WillShow(p)']_serviceVars

\* An answer holds memories of the client's user only, whatever the other
\* users' runs do meanwhile.
AnswersOwn ==
  \A r \in Requests : /\ \A p \in req[r].general : p.user = Client[r]
                      /\ \A m \in req[r].core : UserOf[m.job] = Client[r]
-----------------------------------------------------------------------------
(* Properties a message of the program states and the code breaks.         *)

\* vectordb.go:194: "All the user Memories are being returned from qdrant!" An
\* answer of GET /get_all holds what the user has had during the whole request.
AllMemoriesListed ==
  \A r \in Requests : req[r].status = "ok" /\ Kind[r] = "all" => kept[r] \subseteq Answered(r)
=============================================================================
