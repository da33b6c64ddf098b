---------------------------- MODULE ServiceProofs ----------------------------
(***************************************************************************)
(* Theorems about MemoryService, for any number of requests beside any     *)
(* number of jobs, workers and users.                                      *)
(***************************************************************************)
EXTENDS MemoryService, StoreProofs

-----------------------------------------------------------------------------
(* Type correctness.                                                       *)

\* A handler that makes a call keeps its type.
LEMMA ContinueType ==
  ASSUME HandlersOK, NEW r \in Requests, NEW q \in Handler, q.todo # <<>>, Continue(r, q)
  PROVE  HandlersOK'
<1> DEFINE s == [q EXCEPT !.todo = Tail(@),
                          !.status = IF Tail(q.todo) = <<>> THEN "ok" ELSE "open"]
<1>1. Tail(q.todo) \in Seq(CallNames)
  BY DEF Handler
<1>2. s \in Handler
  BY <1>1 DEF Handler
<1>3. req' = [req EXCEPT ![r] = s]
  BY DEF Continue
<1> HIDE DEF s
<1> QED
  BY <1>2, <1>3 DEF HandlersOK

LEMMA RefuseType ==
  ASSUME HandlersOK, NEW r \in Requests, Refuse(r)
  PROVE  HandlersOK'
BY ZenonT(30) DEF HandlersOK, Refuse, Handler

\* The calls an open request still has to make are the last ones of its kind.
Ends == [search |-> {<<"embed", "general", "core">>, <<"general", "core">>, <<"core">>},
         all    |-> {<<"general", "core">>, <<"core">>},
         core   |-> {<<"core">>},
         delete |-> {<<"lookup", "delete">>, <<"delete">>}]

InOrder == \A r \in Requests : req[r].status = "open" => req[r].todo \in Ends[Kind[r]]

\* The effect of the two ways to end a call on the handlers.
LEMMA ContinueEffect ==
  ASSUME HandlersOK, NEW r \in Requests, NEW q \in Handler, Continue(r, q)
  PROVE  /\ \A x \in Requests \ {r} : req'[x] = req[x]
         /\ req'[r].todo = Tail(q.todo)
         /\ req'[r].status = (IF Tail(q.todo) = <<>> THEN "ok" ELSE "open")
         /\ req'[r].general = q.general /\ req'[r].core = q.core
         /\ req'[r].ids = q.ids /\ req'[r].partial = q.partial
BY DEF HandlersOK, Continue, Handler

LEMMA RefuseEffect ==
  ASSUME HandlersOK, NEW r \in Requests, Refuse(r)
  PROVE  /\ \A x \in Requests \ {r} : req'[x] = req[x]
         /\ req'[r].status = "error"
         /\ req'[r].general = req[r].general /\ req'[r].core = req[r].core
BY DEF HandlersOK, Refuse, Handler

\* The local variables of a handler keep their types.
LEMMA HandlerUpdates ==
  ASSUME NEW q \in Handler
  PROVE  /\ \A S \in SUBSET Point, b \in BOOLEAN :
              [q EXCEPT !.general = S, !.partial = b] \in Handler
         /\ \A S \in SUBSET CoreMem : [q EXCEPT !.core = S] \in Handler
         /\ [q EXCEPT !.partial = TRUE] \in Handler
BY DEF Handler

LEMMA PagesInside ==
  ASSUME NEW P, NEW S \in Pages(P)
  PROVE  S \subseteq P
BY DEF Pages

\* What a call does to its handler.
LEMMA CallEffects ==
  ASSUME TypeOK, HandlersOK, NEW r \in Requests
  PROVE  /\ EmbedQuery(r) \/ LookUp(r) \/ DeletePoints(r) =>
              Continue(r, req[r]) \/ Refuse(r)
         /\ ReadGeneral(r) =>
              \E S \in SUBSET Selected(r), b \in BOOLEAN :
                /\ S = Selected(r) \/ b
                /\ req[r].partial => b
                /\ \/ Continue(r, [req[r] EXCEPT !.general = S, !.partial = b])
                   \/ b /\ Continue(r, [req[r] EXCEPT !.partial = TRUE])
         /\ ReadCoreTier(r) =>
              \/ Continue(r, [req[r] EXCEPT !.core = core[Client[r]]])
              \/ Continue(r, [req[r] EXCEPT !.partial = TRUE])
              \/ Refuse(r)
<1>1. ASSUME ReadGeneral(r)
      PROVE  \E S \in SUBSET Selected(r), b \in BOOLEAN :
                /\ S = Selected(r) \/ b
                /\ req[r].partial => b
                /\ \/ Continue(r, [req[r] EXCEPT !.general = S, !.partial = b])
                   \/ b /\ Continue(r, [req[r] EXCEPT !.partial = TRUE])
  <2>1. CASE Continue(r, [req[r] EXCEPT !.partial = TRUE])
    BY <2>1
  <2>2. ASSUME NEW S \in Pages(Selected(r)),
               Continue(r, [req[r] EXCEPT !.general = S, !.partial = @ \/ S # Selected(r)])
        PROVE  \E b \in BOOLEAN :
                 /\ S = Selected(r) \/ b
                 /\ req[r].partial => b
                 /\ Continue(r, [req[r] EXCEPT !.general = S, !.partial = b])
    <3> DEFINE b == req[r].partial \/ S # Selected(r)
    <3>1. b \in BOOLEAN /\ (S = Selected(r) \/ b) /\ (req[r].partial => b)
      OBVIOUS
    <3> QED
      BY <2>2, <3>1
  <2> QED
    BY <1>1, <2>1, <2>2, PagesInside DEF ReadGeneral
<1> QED
  BY <1>1 DEF EmbedQuery, LookUp, DeletePoints, ReadCoreTier, RedisValue

\* What one call leaves of the calls to make.
LEMMA NextCall ==
  ASSUME InOrder, NEW r \in Requests, req[r].status = "open"
  PROVE  LET q == req[r].todo IN
         /\ q # <<>> /\ Tail(q) \in Seq(CallNames)
         /\ Tail(q) # <<>> => Tail(q) \in Ends[Kind[r]]
         /\ Tail(q) = <<>> /\ Kind[r] \in {"all", "search"} => q = <<"core">>
         /\ Tail(q) = <<"core">> => Head(q) = "general"
<1> DEFINE q == req[r].todo
<1>1. q \in Ends[Kind[r]] /\ Kind[r] \in Kinds
  BY ServiceAssumption DEF InOrder
<1>2. CASE q = <<"embed", "general", "core">>
  <2>1. Tail(q) = <<"general", "core">> /\ Kind[r] = "search"
    BY <1>1, <1>2 DEF Ends, Kinds
  <2> QED
    BY <1>2, <2>1 DEF Ends, CallNames
<1>3. CASE q = <<"general", "core">>
  <2>1. Tail(q) = <<"core">> /\ Kind[r] \in {"all", "search"}
    BY <1>1, <1>3 DEF Ends, Kinds
  <2> QED
    BY <1>3, <2>1 DEF Ends, CallNames
<1>4. CASE q = <<"core">>
  <2>1. Tail(q) = <<>>
    BY <1>4
  <2> QED
    BY <1>4, <2>1 DEF CallNames
<1>5. CASE q = <<"lookup", "delete">>
  <2>1. Tail(q) = <<"delete">> /\ Kind[r] = "delete"
    BY <1>1, <1>5 DEF Ends, Kinds
  <2> QED
    BY <1>5, <2>1 DEF Ends, CallNames
<1>6. CASE q = <<"delete">>
  <2>1. Tail(q) = <<>> /\ Kind[r] = "delete"
    BY <1>1, <1>6 DEF Ends, Kinds
  <2> QED
    BY <1>6, <2>1 DEF CallNames
<1> QED
  BY <1>1, <1>2, <1>3, <1>4, <1>5, <1>6, SMTT(30) DEF Ends, Kinds

LEMMA ArriveEffect ==
  ASSUME HandlersOK, TypeOK, NEW r \in Requests, Arrive(r)
  PROVE  /\ HandlersOK' /\ UNCHANGED <<points, core>>
         /\ \A x \in Requests \ {r} : req'[x] = req[x]
         /\ req[r].status = "unsent" /\ req'[r].status = "open"
         /\ req'[r].todo = Calls[Kind[r]]
         /\ req'[r].general = {} /\ req'[r].core = {}
<1>1. PICK ids \in SUBSET (Point \union CoreMem) :
        req' = [req EXCEPT ![r] = [Unsent EXCEPT !.status = "open", !.ids = ids,
                                                 !.todo = Calls[Kind[r]]]]
  <2>1. Client[r] \in Users
    BY ServiceAssumption
  <2>2. core[Client[r]] \subseteq CoreMem /\ points \subseteq Point
    BY <2>1 DEF TypeOK, QdrantTypeOK
  <2> QED
    BY <2>2 DEF Arrive
<1>2. Calls[Kind[r]] \in Seq(CallNames)
  <2>1. Kind[r] \in Kinds
    BY ServiceAssumption
  <2>2. /\ <<"embed", "general", "core">> \in Seq(CallNames)
        /\ <<"general", "core">> \in Seq(CallNames)
        /\ <<"core">> \in Seq(CallNames)
        /\ <<"lookup", "delete">> \in Seq(CallNames)
    BY DEF CallNames
  <2>3. /\ Calls["search"] \in Seq(CallNames) /\ Calls["all"] \in Seq(CallNames)
        /\ Calls["core"] \in Seq(CallNames) /\ Calls["delete"] \in Seq(CallNames)
    BY <2>2 DEF Calls
  <2> QED
    BY <2>1, <2>3 DEF Kinds
<1> DEFINE s == [Unsent EXCEPT !.status = "open", !.ids = ids, !.todo = Calls[Kind[r]]]
<1>3. /\ s \in Handler /\ s.status = "open" /\ s.todo = Calls[Kind[r]]
      /\ s.general = {} /\ s.core = {}
  BY <1>2 DEF Unsent, Handler
<1>4. req' = [req EXCEPT ![r] = s]
  BY <1>1
<1> HIDE DEF s
<1> QED
  BY <1>3, <1>4 DEF HandlersOK, Arrive, HandlerStep, qdrant

\* Every step of a handler ends one call, or brings a request in.
LEMMA HandlersNext ==
  ASSUME TypeOK, HandlersOK, InOrder, ServiceNext
  PROVE  HandlersOK' /\ InOrder'
<1>1. CASE UNCHANGED req
  BY <1>1 DEF HandlersOK, InOrder
<1>2. CASE ServiceCrash
  <2>1. ASSUME NEW r \in Requests
        PROVE  /\ [req[r] EXCEPT !.status = "cut"] \in Handler
               /\ [req[r] EXCEPT !.status = "cut"].status = "cut"
    BY DEF HandlersOK, Handler
  <2> QED
    BY <1>2, <2>1 DEF ServiceCrash, HandlersOK, InOrder
<1>3. ASSUME NEW r \in Requests, ServiceStep(r)
      PROVE  HandlersOK' /\ InOrder'
  <2>1. CASE Arrive(r)
    <3>1. Calls[Kind[r]] \in Ends[Kind[r]]
      BY ServiceAssumption DEF Calls, Ends, Kinds
    <3> QED
      BY <2>1, <3>1, ArriveEffect DEF InOrder
  <2>2. CASE ~Arrive(r)
    <3>1. req[r].status = "open" /\ req[r] \in Handler
      BY <1>3, <2>2 DEF ServiceStep, EmbedQuery, ReadGeneral, ReadCoreTier, LookUp,
                        DeletePoints, Calling, HandlersOK
    <3>2. \/ Refuse(r)
          \/ \E q \in Handler : q.todo = req[r].todo /\ Continue(r, q)
      <4>1. CASE EmbedQuery(r) \/ LookUp(r) \/ DeletePoints(r)
        BY <3>1, <4>1, CallEffects
      <4>2. CASE ReadGeneral(r)
        <5>1. Selected(r) \subseteq Point
          BY DEF Selected, TypeOK, QdrantTypeOK
        <5>2. PICK S \in SUBSET Selected(r), b \in BOOLEAN :
                \/ Continue(r, [req[r] EXCEPT !.general = S, !.partial = b])
                \/ Continue(r, [req[r] EXCEPT !.partial = TRUE])
          BY <4>2, CallEffects
        <5>3. /\ [req[r] EXCEPT !.general = S, !.partial = b] \in Handler
              /\ [req[r] EXCEPT !.partial = TRUE] \in Handler
          BY <3>1, <5>1, HandlerUpdates
        <5>4. /\ [req[r] EXCEPT !.general = S, !.partial = b].todo = req[r].todo
              /\ [req[r] EXCEPT !.partial = TRUE].todo = req[r].todo
          BY <3>1 DEF Handler
        <5> QED
          BY <5>2, <5>3, <5>4
      <4>3. CASE ReadCoreTier(r)
        <5>1. core[Client[r]] \subseteq CoreMem
          BY ServiceAssumption DEF TypeOK
        <5>2. /\ [req[r] EXCEPT !.core = core[Client[r]]] \in Handler
              /\ [req[r] EXCEPT !.partial = TRUE] \in Handler
          BY <3>1, <5>1, HandlerUpdates
        <5>3. /\ [req[r] EXCEPT !.core = core[Client[r]]].todo = req[r].todo
              /\ [req[r] EXCEPT !.partial = TRUE].todo = req[r].todo
          BY <3>1 DEF Handler
        <5> QED
          BY <4>3, <5>2, <5>3, CallEffects
      <4> QED
        BY <1>3, <2>2, <4>1, <4>2, <4>3 DEF ServiceStep
    <3>3. CASE Refuse(r)
      BY <3>3, RefuseType, RefuseEffect DEF InOrder
    <3>4. ASSUME NEW q \in Handler, q.todo = req[r].todo, Continue(r, q)
          PROVE  HandlersOK' /\ InOrder'
      <4>1. q.todo # <<>> /\ (Tail(q.todo) # <<>> => Tail(q.todo) \in Ends[Kind[r]])
        BY <3>1, <3>4, NextCall
      <4> QED
        BY <3>4, <4>1, ContinueType, ContinueEffect DEF InOrder
    <3> QED
      BY <3>2, <3>3, <3>4
  <2> QED
    BY <2>1, <2>2
<1> QED
  BY <1>1, <1>2, <1>3 DEF ServiceNext

\* A step of the service is a step of the workers' world or of a handler.
LEMMA ServiceCases ==
  ASSUME ServiceNext
  PROVE  \/ Next /\ UNCHANGED req
         \/ Next /\ ServiceCrash
         \/ HandlerStep /\ \E r \in Requests : ServiceStep(r)
BY DEF ServiceNext, Next, ServiceCrash, ServiceStep, Arrive, EmbedQuery, ReadGeneral,
       ReadCoreTier, LookUp, DeletePoints

LEMMA AgentTypeNext ==
  ASSUME TypeOK, HandlersOK, ServiceNext
  PROVE  TypeOK'
<1>1. CASE Next
  BY <1>1, NextType
<1>2. ASSUME HandlerStep, NEW r \in Requests, ServiceStep(r)
      PROVE  TypeOK'
  <2>1. faults \in 0..MaxFaults /\ QdrantTypeOK
    BY DEF TypeOK, QueueTypeOK
  <2>2. faults' \in 0..MaxFaults
    <3>1. UNCHANGED faults \/ Fault
      BY <1>2 DEF ServiceStep, Arrive, EmbedQuery, ReadGeneral, ReadCoreTier, LookUp, DeletePoints
    <3> QED
      BY <2>1, <3>1, BoundsAssumption DEF Fault
  <2>3. QdrantTypeOK'
    <3>1. CASE UNCHANGED qdrant
      BY <2>1, <3>1, QdrantStays
    <3>2. CASE Accept([op |-> "delete", points |-> req[r].ids \intersect Point])
      BY <2>1, <3>2, AcceptType DEF Write
    <3> QED
      BY <1>2, <3>1, <3>2
         DEF ServiceStep, Arrive, EmbedQuery, ReadGeneral, ReadCoreTier, LookUp, DeletePoints
  <2> QED
    BY <1>2, <2>2, <2>3 DEF HandlerStep, TypeOK, QueueTypeOK, queueVars
<1> QED
  BY <1>1, <1>2, ServiceCases

\* The history of texts is a set of texts.
LEMMA KeptNext ==
  ASSUME TypeOK', kept \in [Requests -> SUBSET Texts], Watch
  PROVE  kept' \in [Requests -> SUBSET Texts]
<1>1. ASSUME NEW r \in Requests
      PROVE  kept'[r] \in SUBSET Texts
  <2>1. Held(Client[r])' \subseteq Texts
    <3>1. core'[Client[r]] \subseteq CoreMem /\ points' \subseteq Point
      BY ServiceAssumption DEF TypeOK, QdrantTypeOK
    <3>2. /\ \A m \in core'[Client[r]] : m.text \in Texts
          /\ \A p \in points' : p.text \in Texts
      BY <3>1 DEF CoreMem, Point
    <3> QED
      BY <3>2 DEF Held, TextsOf
  <2>2. kept'[r] \in {{}, Held(Client[r])', kept[r] \intersect Stayed(Client[r]), kept[r]}
    BY DEF Watch
  <2> QED
    BY <2>1, <2>2
<1> QED
  BY <1>1 DEF Watch

LEMMA ServiceTypeNext ==
  ServiceTypeOK /\ InOrder /\ [ServiceNext]_serviceVars => ServiceTypeOK' /\ InOrder'
<1> SUFFICES ASSUME ServiceTypeOK, InOrder, [ServiceNext]_serviceVars
             PROVE  ServiceTypeOK' /\ InOrder'
  OBVIOUS
<1>1. CASE ServiceNext
  BY <1>1, AgentTypeNext, HandlersNext, KeptNext DEF ServiceTypeOK, ServiceNext
<1>2. CASE UNCHANGED serviceVars
  BY <1>2, NextType DEF serviceVars, ServiceTypeOK, HandlersOK, InOrder
<1> QED
  BY <1>1, <1>2

LEMMA ServiceInitType == ServiceInit => ServiceTypeOK /\ InOrder
<1> SUFFICES ASSUME ServiceInit PROVE ServiceTypeOK /\ InOrder
  OBVIOUS
<1>1. TypeOK
  BY InitType DEF ServiceInit
<1>2. Unsent \in Handler
  BY DEF Unsent, Handler
<1> QED
  BY <1>1, <1>2 DEF ServiceInit, ServiceTypeOK, HandlersOK, InOrder, Unsent

\* Handlers and workers keep their types, and handlers make their calls in order.
THEOREM ServiceTypeCorrect == ServiceSpec => [](ServiceTypeOK /\ InOrder)
BY ServiceInitType, ServiceTypeNext, PTL DEF ServiceSpec
-----------------------------------------------------------------------------
(* A steady text is in the answer.                                         *)

\* The history says what it means: the user has the texts it lists.
KeptIsHeld ==
  \A r \in Requests : req[r].status \in {"unsent", "open"} => kept[r] \subseteq Held(Client[r])

\* The request asks for the text t.
Asks(r, t) == Kind[r] = "all" \/ (Kind[r] = "search" /\ t \in Matches[r])

\* When only the core tier is left to read, a steady text that was not among the
\* general memories is in the core list and stays there; then it is answered.
SteadySoFar ==
  \A r \in Requests : \A t \in kept[r] :
    Asks(r, t) /\ ~req[r].partial =>
      /\ req[r].status = "open" /\ req[r].todo = <<"core">>
           => t \in TextsOf(req[r].general) \union TextsOf(core[Client[r]])
      /\ req[r].status = "ok" => t \in Answered(r)

LEMMA KeptIsHeldNext ==
  ASSUME ServiceTypeOK, KeptIsHeld, ServiceNext
  PROVE  KeptIsHeld'
<1> SUFFICES ASSUME NEW r \in Requests, req'[r].status \in {"unsent", "open"}
             PROVE  kept'[r] \subseteq Held(Client[r])'
  BY DEF KeptIsHeld
<1>1. kept'[r] = IF Kind[r] \in {"core", "delete"} THEN {} ELSE
                 CASE req[r].status = "unsent" -> Held(Client[r])'
                   [] req[r].status = "open"   -> kept[r] \intersect Stayed(Client[r])
                   [] OTHER                    -> kept[r]
  BY DEF ServiceNext, Watch
<1>2. req[r].status \in {"unsent", "open"}
  <2>1. ASSUME NEW x \in Requests, ServiceStep(x), x # r
        PROVE  req'[r] = req[r]
    BY <2>1 DEF ServiceStep, Arrive, EmbedQuery, ReadGeneral, ReadCoreTier, LookUp,
                DeletePoints, Continue, Refuse, ServiceTypeOK, HandlersOK
  <2>2. ASSUME ServiceStep(r)
        PROVE  req[r].status \in {"unsent", "open"}
    BY <2>2 DEF ServiceStep, Arrive, EmbedQuery, ReadGeneral, ReadCoreTier, LookUp,
                DeletePoints, Calling
  <2>3. ASSUME ServiceCrash
        PROVE  req[r].status \in {"unsent", "open"}
    BY <2>3 DEF ServiceCrash
  <2> QED
    BY <2>1, <2>2, <2>3 DEF ServiceNext
<1>0. CASE Kind[r] \in {"core", "delete"}
  BY <1>0, <1>1
<1>3. CASE Kind[r] \notin {"core", "delete"} /\ req[r].status = "unsent"
  BY <1>1, <1>3
<1>4. CASE Kind[r] \notin {"core", "delete"} /\ req[r].status = "open"
  <2>1. kept'[r] = kept[r] \intersect Stayed(Client[r])
    BY <1>1, <1>4
  <2> QED
    BY <2>1 DEF Stayed
<1> QED
  BY <1>0, <1>2, <1>3, <1>4

\* A handler's step leaves the core lists alone, and a reading one both stores.
LEMMA HandlerStores ==
  ASSUME NEW r \in Requests, ServiceStep(r)
  PROVE  /\ UNCHANGED core
         /\ ~DeletePoints(r) => UNCHANGED points
BY DEF ServiceStep, Arrive, EmbedQuery, ReadGeneral, ReadCoreTier, LookUp, DeletePoints,
       HandlerStep, qdrant

\* What is still true of a request whose handler does nothing in this step.
LEMMA SteadyElsewhere ==
  ASSUME SteadySoFar, Watch, NEW r \in Requests, NEW t \in kept'[r],
         req'[r] = req[r], Asks(r, t), ~req[r].partial
  PROVE  /\ req'[r].status = "open" /\ req'[r].todo = <<"core">>
              => t \in TextsOf(req'[r].general) \union TextsOf(core'[Client[r]])
         /\ req'[r].status = "ok" => t \in Answered(r)'
<1>0. Kind[r] \notin {"core", "delete"}
  BY DEF Asks
<1>1. CASE req[r].status = "open"
  <2>1. t \in kept[r] /\ t \notin TextsOf(core[Client[r]]) \ TextsOf(core'[Client[r]])
    BY <1>0, <1>1 DEF Watch, Stayed
  <2> QED
    BY <1>1, <2>1 DEF SteadySoFar
<1>2. CASE req[r].status = "ok"
  <2>1. t \in kept[r]
    BY <1>0, <1>2 DEF Watch
  <2> QED
    BY <1>2, <2>1 DEF SteadySoFar, Answered
<1> QED
  BY <1>1, <1>2

\* The steps of the handler itself.
LEMMA SteadyHere ==
  ASSUME ServiceTypeOK, InOrder, KeptIsHeld, SteadySoFar, Watch,
         NEW r \in Requests, ServiceStep(r),
         NEW t \in kept'[r], Asks(r, t), ~req'[r].partial
  PROVE  /\ req'[r].status = "open" /\ req'[r].todo = <<"core">>
              => t \in TextsOf(req'[r].general) \union TextsOf(core'[Client[r]])
         /\ req'[r].status = "ok" => t \in Answered(r)'
<1>0. TypeOK /\ HandlersOK /\ UNCHANGED core /\ Kind[r] \in {"all", "search"}
  BY HandlerStores DEF ServiceTypeOK, Asks
<1>1. CASE Arrive(r)
  <2>1. req'[r].status = "open" /\ req'[r].todo = Calls[Kind[r]]
    BY <1>0, <1>1, ArriveEffect
  <2>2. Calls["all"] # <<"core">> /\ Calls["search"] # <<"core">>
    BY DEF Calls
  <2> QED
    BY <1>0, <2>1, <2>2
<1>2. CASE ~Arrive(r)
  <2>1. req[r].status = "open" /\ req[r] \in Handler
    BY <1>0, <1>2 DEF ServiceStep, EmbedQuery, ReadGeneral, ReadCoreTier, LookUp,
                      DeletePoints, Calling, HandlersOK
  <2>2. t \in kept[r] /\ t \in Held(Client[r])'
    BY <1>0, <2>1 DEF Watch, Stayed
  <2>3. /\ Tail(req[r].todo) = <<>> => req[r].todo = <<"core">>
        /\ Tail(req[r].todo) = <<"core">> => Head(req[r].todo) = "general"
        /\ Head(req[r].todo) = "general" => Tail(req[r].todo) = <<"core">>
    <3>1. req[r].todo \in {<<"embed", "general", "core">>, <<"general", "core">>, <<"core">>}
      BY <1>0, <2>1 DEF InOrder, Ends
    <3>2. CASE req[r].todo = <<"embed", "general", "core">>
      <4>1. Head(req[r].todo) = "embed" /\ Tail(req[r].todo) = <<"general", "core">>
        BY <3>2
      <4>2. <<"general", "core">> # <<>> /\ <<"general", "core">> # <<"core">>
        OBVIOUS
      <4> QED
        BY <4>1, <4>2
    <3>3. CASE req[r].todo = <<"general", "core">>
      <4>1. Head(req[r].todo) = "general" /\ Tail(req[r].todo) = <<"core">>
        BY <3>3
      <4>2. <<"core">> # <<>>
        OBVIOUS
      <4> QED
        BY <4>1, <4>2
    <3>4. CASE req[r].todo = <<"core">>
      <4>1. Head(req[r].todo) = "core" /\ Tail(req[r].todo) = <<>>
        BY <3>4
      <4>2. <<"core">> # <<>>
        OBVIOUS
      <4> QED
        BY <3>4, <4>1, <4>2
    <3> QED
      BY <3>1, <3>2, <3>3, <3>4
  <2>4. CASE Refuse(r)
    BY <1>0, <2>4, RefuseEffect
  <2>5. CASE (EmbedQuery(r) \/ LookUp(r) \/ DeletePoints(r)) /\ Continue(r, req[r])
    <3>1. Head(req[r].todo) \in {"embed", "lookup", "delete"}
      BY <2>5 DEF EmbedQuery, LookUp, DeletePoints, Calling
    <3>2. Tail(req[r].todo) # <<>> /\ Tail(req[r].todo) # <<"core">>
      BY <2>3, <3>1
    <3> QED
      BY <1>0, <2>1, <2>5, <3>2, ContinueEffect
  <2>6. CASE ReadGeneral(r)
    <3>1. PICK S \in SUBSET Selected(r), b \in BOOLEAN :
            /\ S = Selected(r) \/ b
            /\ \/ Continue(r, [req[r] EXCEPT !.general = S, !.partial = b])
               \/ b /\ Continue(r, [req[r] EXCEPT !.partial = TRUE])
      BY <1>0, <2>6, CallEffects
    <3> DEFINE q == [req[r] EXCEPT !.general = S, !.partial = b]
               p == [req[r] EXCEPT !.partial = TRUE]
    <3>2. Selected(r) \subseteq Point
      BY <1>0 DEF Selected, TypeOK, QdrantTypeOK
    <3>3. /\ q \in Handler /\ q.general = S /\ q.partial = b /\ q.todo = req[r].todo
          /\ p \in Handler /\ p.partial = TRUE
      BY <2>1, <3>2 DEF Handler
    <3>4. Continue(r, q) \/ Continue(r, p)
      BY <3>1
    <3> HIDE DEF q, p
    <3>5. Continue(r, q) /\ ~b
      BY <1>0, <3>3, <3>4, ContinueEffect
    <3>6. req'[r].general = Selected(r) /\ req'[r].status = "open"
      <4>1. Tail(req[r].todo) = <<"core">> /\ <<"core">> # <<>>
        BY <2>3, <2>6 DEF ReadGeneral, Calling
      <4>2. S = Selected(r)
        BY <3>1, <3>5
      <4>3. req'[r].general = q.general
        BY <1>0, <3>3, <3>5, ContinueEffect
      <4>4. req'[r].status = IF Tail(q.todo) = <<>> THEN "ok" ELSE "open"
        BY <1>0, <3>3, <3>5, ContinueEffect
      <4> QED
        BY <3>3, <4>1, <4>2, <4>3, <4>4
    <3>7. UNCHANGED points
      BY <2>6 DEF ReadGeneral, qdrant
    <3>8. t \in TextsOf(Selected(r)) \union TextsOf(core[Client[r]])
      BY <1>0, <2>2, <3>7 DEF Held, TextsOf, Selected, Asks
    <3> QED
      BY <1>0, <3>6, <3>8
  <2>7. CASE ReadCoreTier(r) /\ ~Refuse(r)
    <3> DEFINE q == [req[r] EXCEPT !.core = core[Client[r]]]
               p == [req[r] EXCEPT !.partial = TRUE]
    <3>1. core[Client[r]] \subseteq CoreMem
      BY <1>0, ServiceAssumption DEF TypeOK
    <3>2. /\ q \in Handler /\ q.core = core[Client[r]] /\ q.general = req[r].general
          /\ q.partial = req[r].partial /\ q.todo = req[r].todo
          /\ p \in Handler /\ p.partial = TRUE
      BY <2>1, <3>1 DEF Handler
    <3>3. Continue(r, q) \/ Continue(r, p)
      BY <1>0, <2>7, CallEffects
    <3> HIDE DEF q, p
    <3>4. Continue(r, q) /\ ~req[r].partial
      BY <1>0, <3>2, <3>3, ContinueEffect
    <3>5. Head(req[r].todo) = "core"
      BY <2>7 DEF ReadCoreTier, Calling
    <3>6. req[r].todo = <<"core">>
      <4>1. req[r].todo \in {<<"embed", "general", "core">>, <<"general", "core">>, <<"core">>}
        BY <1>0, <2>1 DEF InOrder, Ends
      <4> QED
        BY <3>5, <4>1
    <3>7. t \in TextsOf(req[r].general) \union TextsOf(core[Client[r]])
      BY <2>1, <2>2, <3>4, <3>6 DEF SteadySoFar
    <3>8. /\ req'[r].status = "ok" /\ req'[r].general = req[r].general
          /\ req'[r].core = core[Client[r]]
      <4>1. Tail(req[r].todo) = <<>>
        BY <3>6
      <4> QED
        BY <1>0, <3>2, <3>4, <4>1, ContinueEffect
    <3> QED
      BY <3>7, <3>8 DEF Answered, TextsOf
  <2> QED
    BY <1>0, <1>2, <2>4, <2>5, <2>6, <2>7, CallEffects DEF ServiceStep
<1> QED
  BY <1>1, <1>2

LEMMA SteadyNext ==
  ASSUME ServiceTypeOK, InOrder, KeptIsHeld, SteadySoFar, ServiceNext
  PROVE  SteadySoFar'
<1> SUFFICES ASSUME NEW r \in Requests, NEW t \in kept'[r], Asks(r, t), ~req'[r].partial
             PROVE  /\ req'[r].status = "open" /\ req'[r].todo = <<"core">>
                         => t \in TextsOf(req'[r].general) \union TextsOf(core'[Client[r]])
                    /\ req'[r].status = "ok" => t \in Answered(r)'
  BY DEF SteadySoFar, Asks
<1>0. Watch /\ HandlersOK
  BY DEF ServiceNext, ServiceTypeOK
<1>1. CASE req'[r] = req[r]
  BY <1>0, <1>1, SteadyElsewhere
<1>2. CASE ServiceStep(r)
  BY <1>0, <1>2, SteadyHere
<1>3. CASE ServiceCrash /\ req'[r] # req[r]
  <2>1. req'[r].status = "cut"
    BY <1>0, <1>3 DEF ServiceCrash, HandlersOK, Handler
  <2> QED
    BY <2>1
<1>4. ASSUME NEW x \in Requests, ServiceStep(x), x # r
      PROVE  req'[r] = req[r]
  BY <1>0, <1>4 DEF ServiceStep, Arrive, EmbedQuery, ReadGeneral, ReadCoreTier, LookUp,
              DeletePoints, Continue, Refuse, HandlersOK
<1> QED
  BY <1>1, <1>2, <1>3, <1>4 DEF ServiceNext

\* A text the user keeps during the whole of a read is answered, whatever runs
\* and deletions do between its two calls.
THEOREM SteadyTextsAnswered == ServiceSpec => []SteadyTextAnswered
<1> DEFINE SInv == ServiceTypeOK /\ InOrder /\ KeptIsHeld /\ SteadySoFar
<1>1. ServiceInit => KeptIsHeld /\ SteadySoFar
  BY DEF ServiceInit, KeptIsHeld, SteadySoFar
<1>2. ServiceInit => ServiceTypeOK /\ InOrder
  BY ServiceInitType
<1>3. SInv /\ [ServiceNext]_serviceVars => SInv'
  <2>1. ASSUME SInv, UNCHANGED serviceVars
        PROVE  KeptIsHeld' /\ SteadySoFar'
    BY <2>1 DEF serviceVars, vars, agentVars, KeptIsHeld, SteadySoFar, Held, Answered
  <2> QED
    BY <2>1, ServiceTypeNext, KeptIsHeldNext, SteadyNext
<1>4. SInv => SteadyTextAnswered
  BY DEF SteadySoFar, SteadyTextAnswered, Asks
<1> QED
  BY <1>1, <1>2, <1>3, <1>4, PTL DEF ServiceSpec
-----------------------------------------------------------------------------
(* Answers hold the client's memories only.                                *)

LEMMA IsolationService ==
  ASSUME ServiceTypeOK, UserIsolation, ServiceNext
  PROVE  UserIsolation'
<1>1. CASE Next
  BY <1>1, IsolationNext DEF ServiceTypeOK
<1>2. CASE HandlerStep
  BY <1>2 DEF HandlerStep, UserIsolation, User
<1> QED
  BY <1>1, <1>2, ServiceCases

LEMMA OwnNext ==
  ASSUME ServiceTypeOK, UserIsolation, AnswersOwn, ServiceNext
  PROVE  AnswersOwn'
<1>0. TypeOK /\ HandlersOK
  BY DEF ServiceTypeOK
<1>1. CASE UNCHANGED req
  BY <1>1 DEF AnswersOwn
<1>2. CASE ServiceCrash
  <2>1. ASSUME NEW r \in Requests
        PROVE  req'[r].general = req[r].general /\ req'[r].core = req[r].core
    BY <1>0, <1>2 DEF ServiceCrash, HandlersOK, Handler
  <2> QED
    BY <2>1 DEF AnswersOwn
<1>3. ASSUME NEW r \in Requests, ServiceStep(r)
      PROVE  AnswersOwn'
  <2>1. \A x \in Requests \ {r} : req'[x] = req[x]
    BY <1>0, <1>3 DEF ServiceStep, Arrive, EmbedQuery, ReadGeneral, ReadCoreTier, LookUp,
                DeletePoints, Continue, Refuse, HandlersOK
  <2>2. /\ \A p \in req'[r].general : p.user = Client[r]
        /\ \A m \in req'[r].core : UserOf[m.job] = Client[r]
    <3>1. CASE Arrive(r)
      BY <1>0, <3>1, ArriveEffect
    <3>2. CASE Refuse(r)
      BY <1>0, <3>2, RefuseEffect DEF AnswersOwn
    <3>3. ASSUME NEW q \in Handler, Continue(r, q),
                 \A p \in q.general : p.user = Client[r],
                 \A m \in q.core : UserOf[m.job] = Client[r]
          PROVE  <2>2!:
      BY <1>0, <3>3, ContinueEffect
    <3>4. ~Arrive(r) => req[r] \in Handler
      BY <1>0 DEF HandlersOK
    <3>5. CASE (EmbedQuery(r) \/ LookUp(r) \/ DeletePoints(r)) /\ ~Refuse(r)
      BY <1>0, <3>3, <3>5, CallEffects DEF AnswersOwn, HandlersOK
    <3>6. CASE ReadGeneral(r)
      <4>1. PICK S \in SUBSET Selected(r), b \in BOOLEAN :
              \/ Continue(r, [req[r] EXCEPT !.general = S, !.partial = b])
              \/ Continue(r, [req[r] EXCEPT !.partial = TRUE])
        BY <1>0, <3>6, CallEffects
      <4>2. S \subseteq Point /\ \A p \in S : p.user = Client[r]
        BY <1>0 DEF Selected, TypeOK, QdrantTypeOK
      <4> DEFINE q == [req[r] EXCEPT !.general = S, !.partial = b]
                 p == [req[r] EXCEPT !.partial = TRUE]
      <4>3. /\ q \in Handler /\ q.general = S /\ q.core = req[r].core
            /\ p \in Handler /\ p.general = req[r].general /\ p.core = req[r].core
        BY <1>0, <4>2 DEF HandlersOK, Handler
      <4>4. Continue(r, q) \/ Continue(r, p)
        BY <4>1
      <4> HIDE DEF q, p
      <4> QED
        BY <3>3, <4>2, <4>3, <4>4 DEF AnswersOwn
    <3>7. CASE ReadCoreTier(r) /\ ~Refuse(r)
      <4> DEFINE q == [req[r] EXCEPT !.core = core[Client[r]]]
                 p == [req[r] EXCEPT !.partial = TRUE]
      <4>1. core[Client[r]] \subseteq CoreMem /\ Client[r] \in Users
        BY <1>0, ServiceAssumption DEF TypeOK
      <4>2. /\ q \in Handler /\ q.general = req[r].general /\ q.core = core[Client[r]]
            /\ p \in Handler /\ p.general = req[r].general /\ p.core = req[r].core
        BY <1>0, <4>1 DEF HandlersOK, Handler
      <4>3. Continue(r, q) \/ Continue(r, p)
        BY <1>0, <3>7, CallEffects
      <4> HIDE DEF q, p
      <4> QED
        BY <3>3, <4>1, <4>2, <4>3 DEF AnswersOwn, UserIsolation
    <3> QED
      BY <1>3, <3>1, <3>2, <3>5, <3>6, <3>7 DEF ServiceStep
  <2> QED
    BY <2>1, <2>2 DEF AnswersOwn
<1> QED
  BY <1>1, <1>2, <1>3 DEF ServiceNext

\* A read answers with memories of its client's user only.
THEOREM AnswersAreOwn == ServiceSpec => []AnswersOwn
<1>1. ServiceInit => UserIsolation /\ AnswersOwn
  BY DEF ServiceInit, Init, UserIsolation, AnswersOwn, Unsent, IdleRun, FreshRun
<1>2. /\ ServiceTypeOK /\ UserIsolation /\ AnswersOwn /\ [ServiceNext]_serviceVars
      => UserIsolation' /\ AnswersOwn'
  <2>1. ASSUME UserIsolation, AnswersOwn, UNCHANGED serviceVars
        PROVE  UserIsolation' /\ AnswersOwn'
    BY <2>1 DEF serviceVars, vars, agentVars, UserIsolation, AnswersOwn, User
  <2> QED
    BY <2>1, IsolationService, OwnNext
<1> QED
  BY <1>1, <1>2, ServiceTypeCorrect, PTL DEF ServiceSpec
-----------------------------------------------------------------------------
(* A deletion that is answered 200 is final.                               *)

\* A delete that Qdrant accepts comes after everything it has accepted before.
LEMMA AcceptedDelete ==
  ASSUME QdrantTypeOK, NEW P \in SUBSET Point, Accept([op |-> "delete", points |-> P]),
         NEW p \in P
  PROVE  ~WillShow(p)'
<1> DEFINE o == [op |-> "delete", points |-> P]
<1>1. o.op = "delete" /\ o.points = P /\ o \in Write /\ backlog \in Seq(Write)
  BY DEF Write, QdrantTypeOK
<1> HIDE DEF o
<1>2. CASE backlog = <<>> /\ points' = Applied(points, o) /\ UNCHANGED backlog
  <2>1. p \notin points' /\ Len(backlog') = 0
    BY <1>1, <1>2 DEF Applied
  <2> QED
    BY <2>1 DEF WillShow
<1>3. CASE backlog' = Append(backlog, o) /\ UNCHANGED points
  <2> DEFINE n == Len(backlog)
  <2>1. n \in Nat /\ Len(backlog') = n + 1 /\ backlog'[n + 1] = o
    BY <1>1, <1>3
  <2> HIDE DEF n
  <2>2. \A i \in 0..n : \E k \in (i + 1)..Len(backlog') :
          backlog'[k].op = "delete" /\ p \in backlog'[k].points
    <3> SUFFICES ASSUME NEW i \in 0..n
                 PROVE  n + 1 \in (i + 1)..Len(backlog')
      BY <1>1, <2>1
    <3> QED
      BY <2>1
  <2>3. \A i \in 1..Len(backlog') : i \in 0..n \/ i = n + 1
    BY <2>1
  <2>4. 0 \in 0..n
    BY <2>1
  <2>5. backlog'[n + 1].op # "upsert"
    BY <1>1, <2>1
  <2> QED
    BY <2>2, <2>3, <2>4, <2>5 DEF WillShow
<1> QED
  BY <1>2, <1>3 DEF Accept, o

LEMMA DeletionStep ==
  ASSUME ServiceTypeOK, InOrder, ServiceNext, NEW r \in Requests, Kind[r] = "delete",
         req[r].status = "open", req'[r].status = "ok"
  PROVE  Accept([op |-> "delete", points |-> req[r].ids \intersect Point])
<1>0. HandlersOK /\ TypeOK /\ req[r] \in Handler
  BY DEF ServiceTypeOK, HandlersOK
<1>1. req[r].todo \in {<<"lookup", "delete">>, <<"delete">>}
  BY DEF InOrder, Ends
<1>2. Head(req[r].todo) \in {"lookup", "delete"}
  <2>1. CASE req[r].todo = <<"lookup", "delete">>
    BY <2>1
  <2>2. CASE req[r].todo = <<"delete">>
    BY <2>2
  <2> QED
    BY <1>1, <2>1, <2>2
<1>3. ServiceStep(r)
  <2>1. ASSUME NEW x \in Requests, ServiceStep(x), x # r
        PROVE  req'[r] = req[r]
    BY <1>0, <2>1 DEF ServiceStep, Arrive, EmbedQuery, ReadGeneral, ReadCoreTier, LookUp,
                DeletePoints, Continue, Refuse, HandlersOK
  <2>2. ~ServiceCrash
    BY <1>0 DEF ServiceCrash, Handler
  <2> QED
    BY <2>1, <2>2 DEF ServiceNext
<1>4. LookUp(r) \/ DeletePoints(r)
  BY <1>0, <1>2, <1>3 DEF ServiceStep, Arrive, EmbedQuery, ReadGeneral, ReadCoreTier, Calling
<1>5. ~Refuse(r)
  BY <1>0, RefuseEffect
<1>6. Continue(r, req[r])
  BY <1>0, <1>4, <1>5, CallEffects
<1>7. CASE LookUp(r)
  <2>1. Tail(req[r].todo) = <<"delete">>
    <3>1. CASE req[r].todo = <<"lookup", "delete">>
      BY <3>1
    <3>2. CASE req[r].todo = <<"delete">>
      BY <1>7, <3>2 DEF LookUp, Calling
    <3> QED
      BY <1>1, <3>1, <3>2
  <2>2. <<"delete">> # <<>>
    OBVIOUS
  <2> QED
    BY <1>0, <1>6, <2>1, <2>2, ContinueEffect
<1>8. CASE DeletePoints(r)
  BY <1>5, <1>8 DEF DeletePoints
<1> QED
  BY <1>4, <1>7, <1>8

\* When a deletion is answered 200, no general memory it names comes back.
THEOREM DeletionsStick == ServiceSpec => DeletionSticks
<1> DEFINE Sticks == \A r \in Requests :
             Kind[r] = "delete" /\ req[r].status = "open" /\ req'[r].status = "ok"
               => \A p \in req[r].ids \intersect Point : ~WillShow(p)'
<1>1. ServiceTypeOK /\ InOrder /\ [ServiceNext]_serviceVars => [Sticks]_serviceVars
  <2>1. ASSUME ServiceTypeOK, InOrder, ServiceNext
        PROVE  Sticks
    <3>1. QdrantTypeOK
      BY <2>1 DEF ServiceTypeOK, TypeOK
    <3> QED
      BY <2>1, <3>1, DeletionStep, AcceptedDelete
  <2> QED
    BY <2>1
<1> QED
  BY <1>1, ServiceTypeCorrect, PTL DEF ServiceSpec, DeletionSticks
=============================================================================
