---------------------------- MODULE TimingProofs ----------------------------
(***************************************************************************)
(* Theorems about RunTiming, for any deadline, limit of an embedding and   *)
(* durations of the calls.                                                 *)
(***************************************************************************)
EXTENDS RunTiming, TLAPS

\* Before the first embedding, and from a plan to the second, the context lives.
Punctual ==
  phase \in {"expand", "expandPause", "embedQuery", "generatePause", "writeCore", "embedNew"}
    => clock <= Deadline

\* Nothing is written before there is a query.
NothingYet == phase \in {"expand", "expandPause"} => query = "none" /\ ~wrote

\* An empty query is the sign of a context that has ended: no plan follows it.
NoPlanWithout ==
  query = "empty" =>
    /\ ~wrote /\ Deadline <= clock
    /\ phase \in {"embedQuery", "search", "readCore", "generate", "term"}

TimingInv == TimingTypeOK /\ RunIsBounded /\ Punctual /\ NothingYet /\ NoPlanWithout

-----------------------------------------------------------------------------
LEMMA PhaseNames ==
  /\ Swallowing = {"search", "readCore", "writeCore", "lookup", "delete", "insert"}
  /\ Phases = {"search", "readCore", "writeCore", "lookup", "delete", "insert", "expand",
               "expandPause", "embedQuery", "generate", "generatePause", "embedNew", "ack",
               "term"}
BY DEF Swallowing, Phases, AfterCall

LEMMA PauseIsNat ==
  ASSUME NEW i \in 1..Tries, NEW p \in Pauses(i)
  PROVE  p \in Nat
<1>1. Tries = 5
  BY DEF Tries, Backoff
<1>2. Backoff[i] \in Nat
  BY <1>1 DEF Backoff
<1> QED
  BY <1>2 DEF Pauses

\* A call with the run's context never passes the deadline.
LEMMA CallClock ==
  ASSUME clock \in Nat, NEW d \in Durations, CallTakes(d)
  PROVE  /\ clock' \in Nat /\ clock <= clock'
         /\ clock <= Deadline => clock' <= Deadline
         /\ clock <= Deadline + EmbedLimit => clock' <= Deadline + EmbedLimit
         /\ InTime(d) => clock' < Deadline
BY TimingAssumption DEF CallTakes, InTime

\* Nor does a pause.
LEMMA PauseClock ==
  ASSUME clock \in Nat, clock <= Deadline, NEW p \in Nat, TimerFires(p) \/ ContextEnds(p)
  PROVE  /\ clock' \in Nat /\ clock' <= Deadline
         /\ ContextEnds(p) => Deadline <= clock'
BY TimingAssumption DEF TimerFires, ContextEnds

\* An embedding passes it by its own limit at most.
LEMMA EmbeddingClock ==
  ASSUME clock \in Nat, NEW d \in Durations,
         clock' = clock + IF d < EmbedLimit THEN d ELSE EmbedLimit
  PROVE  /\ clock' \in Nat /\ clock <= clock'
         /\ clock <= Deadline => clock' <= Deadline + EmbedLimit
BY TimingAssumption

-----------------------------------------------------------------------------
LEMMA TimingInvInit == TimingInit => TimingInv
<1>1. Tries = 5
  BY DEF Tries, Backoff
<1>2. 0 <= Deadline /\ 0 <= Deadline + EmbedLimit
  BY TimingAssumption
<1> SUFFICES ASSUME TimingInit PROVE TimingInv
  OBVIOUS
<1>3. phase \in Phases
  BY PhaseNames DEF TimingInit
<1>4. TimingTypeOK
  <2>1. clock \in Nat /\ attempt \in 1..Tries
    BY <1>1 DEF TimingInit
  <2>2. query \in {"none", "llm", "messages", "empty"} /\ wrote \in BOOLEAN
    BY DEF TimingInit
  <2> QED
    BY <1>3, <2>1, <2>2 DEF TimingTypeOK
<1>5. RunIsBounded /\ Punctual
  BY <1>2 DEF TimingInit, RunIsBounded, Punctual
<1>6. NothingYet /\ NoPlanWithout
  BY DEF TimingInit, NothingYet, NoPlanWithout
<1> QED
  BY <1>4, <1>5, <1>6 DEF TimingInv

LEMMA ExpandCallInv == ASSUME TimingInv, ExpandCall PROVE TimingInv'
<1>1. PICK d \in Durations :
        /\ CallTakes(d)
        /\ \/ InTime(d) /\ query' = "llm" /\ phase' \in {"embedQuery", "ack"}
           \/ query' = query /\ phase' = "expandPause"
  BY DEF ExpandCall
<1>2. clock' \in Nat /\ clock' <= Deadline
  BY <1>1, CallClock DEF TimingInv, TimingTypeOK, Punctual, ExpandCall
<1>3. clock' <= Deadline + EmbedLimit
  BY <1>2, TimingAssumption
<1> QED
  BY <1>1, <1>2, <1>3, PhaseNames
     DEF ExpandCall, TimingInv, TimingTypeOK, RunIsBounded, Punctual, NothingYet, NoPlanWithout

LEMMA ExpandPauseInv == ASSUME TimingInv, ExpandPause PROVE TimingInv'
<1>1. PICK p \in Pauses(attempt) :
        \/ /\ TimerFires(p) /\ attempt < Tries
           /\ phase' = "expand" /\ attempt' = attempt + 1 /\ UNCHANGED query
        \/ /\ TimerFires(p) /\ attempt = Tries
           /\ phase' = "embedQuery" /\ query' = "messages" /\ UNCHANGED attempt
        \/ /\ ContextEnds(p)
           /\ phase' = "embedQuery" /\ query' = "empty" /\ UNCHANGED attempt
  BY DEF ExpandPause
<1>2. p \in Nat /\ clock \in Nat /\ clock <= Deadline
  BY PauseIsNat DEF ExpandPause, TimingInv, TimingTypeOK, Punctual
<1>3. clock' \in Nat /\ clock' <= Deadline /\ (ContextEnds(p) => Deadline <= clock')
  BY <1>1, <1>2, PauseClock
<1>4. clock' <= Deadline + EmbedLimit
  BY <1>3, TimingAssumption
<1>5. attempt' \in 1..Tries
  BY <1>1 DEF TimingInv, TimingTypeOK, Tries, Backoff
<1> QED
  BY <1>1, <1>3, <1>4, <1>5, PhaseNames
     DEF ExpandPause, TimingInv, TimingTypeOK, RunIsBounded, Punctual, NothingYet, NoPlanWithout

LEMMA EmbedQueryInv == ASSUME TimingInv, EmbedQuery PROVE TimingInv'
<1>1. PICK d \in Durations : clock' = clock + IF d < EmbedLimit THEN d ELSE EmbedLimit
  BY DEF EmbedQuery, Embedding
<1>2. /\ clock' \in Nat /\ clock <= clock'
      /\ clock' <= Deadline + EmbedLimit
  BY <1>1, EmbeddingClock DEF EmbedQuery, Embedding, TimingInv, TimingTypeOK, Punctual
<1>3. phase = "embedQuery" /\ phase' \in {"search", "term"}
  BY DEF EmbedQuery, Embedding
<1>4. Deadline <= clock => Deadline <= clock'
  BY <1>2, TimingAssumption DEF TimingInv, TimingTypeOK
<1> QED
  BY <1>2, <1>3, <1>4, PhaseNames
     DEF EmbedQuery, Embedding, TimingInv, TimingTypeOK, RunIsBounded, Punctual, NothingYet,
         NoPlanWithout

LEMMA EmbedNewInv == ASSUME TimingInv, EmbedNew PROVE TimingInv'
<1>1. PICK d \in Durations : clock' = clock + IF d < EmbedLimit THEN d ELSE EmbedLimit
  BY DEF EmbedNew, Embedding
<1>2. clock' \in Nat /\ clock' <= Deadline + EmbedLimit
  BY <1>1, EmbeddingClock DEF EmbedNew, Embedding, TimingInv, TimingTypeOK, Punctual
<1>3. phase = "embedNew" /\ phase' \in {"lookup", "insert", "ack"}
  BY DEF EmbedNew, Embedding
<1> QED
  BY <1>2, <1>3, PhaseNames
     DEF EmbedNew, Embedding, TimingInv, TimingTypeOK, RunIsBounded, Punctual, NothingYet,
         NoPlanWithout

LEMMA StoreCallInv == ASSUME TimingInv, StoreCall PROVE TimingInv'
<1>1. PICK d \in Durations :
        /\ CallTakes(d)
        /\ wrote' \in {wrote} \union
             (IF InTime(d) /\ phase \in {"writeCore", "delete", "insert"} THEN {TRUE} ELSE {})
  BY DEF StoreCall
<1>2. /\ clock' \in Nat /\ clock <= clock' /\ clock' <= Deadline + EmbedLimit
      /\ clock <= Deadline => clock' <= Deadline
  BY <1>1, CallClock DEF TimingInv, TimingTypeOK, RunIsBounded
<1>3. Deadline <= clock => Deadline <= clock'
  BY <1>2, TimingAssumption DEF TimingInv, TimingTypeOK
<1>4. /\ attempt' = 1 /\ query' = query
      /\ wrote' \in BOOLEAN
      /\ phase \in {"search", "readCore"} => wrote' = wrote
  BY <1>1 DEF StoreCall, TimingInv, TimingTypeOK
<1>5. \/ phase = "search" /\ phase' = "readCore"
      \/ phase = "readCore" /\ phase' = "generate"
      \/ phase = "writeCore" /\ phase' = "embedNew"
      \/ phase \in {"lookup", "delete", "insert"} /\ phase' \in {"delete", "insert", "ack"}
  <2>1. phase' \in AfterCall[phase]
        /\ phase \in {"search", "readCore", "writeCore", "lookup", "delete", "insert"}
    BY PhaseNames DEF StoreCall
  <2> QED
    BY <2>1 DEF AfterCall
<1>6. 1 \in 1..Tries
  BY DEF Tries, Backoff
<1> QED
  BY <1>2, <1>3, <1>4, <1>5, <1>6, PhaseNames
     DEF TimingInv, TimingTypeOK, RunIsBounded, Punctual, NothingYet, NoPlanWithout

LEMMA GenerateCallInv == ASSUME TimingInv, GenerateCall PROVE TimingInv'
<1>1. PICK d \in Durations :
        /\ CallTakes(d)
        /\ phase' \in IF InTime(d) THEN {"writeCore", "embedNew", "generatePause", "term"}
                                   ELSE {"term"}
  BY DEF GenerateCall
<1>2. /\ clock' \in Nat /\ clock <= clock' /\ clock' <= Deadline + EmbedLimit
      /\ InTime(d) => clock' < Deadline
  BY <1>1, CallClock DEF TimingInv, TimingTypeOK, RunIsBounded
<1>3. /\ Deadline <= clock => Deadline <= clock' /\ ~InTime(d)
      /\ InTime(d) => clock' <= Deadline
  <2>1. d \in Nat /\ clock \in Nat /\ Deadline \in Nat
    BY TimingAssumption DEF TimingInv, TimingTypeOK
  <2> QED
    BY <1>2, <2>1 DEF InTime
<1>4. phase = "generate" /\ UNCHANGED <<attempt, query, wrote>>
  BY DEF GenerateCall
<1>5. phase' = "term" \/ (InTime(d) /\ phase' \in {"writeCore", "embedNew", "generatePause"})
  BY <1>1
<1> QED
  BY <1>2, <1>3, <1>4, <1>5, PhaseNames
     DEF TimingInv, TimingTypeOK, RunIsBounded, Punctual, NothingYet, NoPlanWithout

LEMMA GeneratePauseInv == ASSUME TimingInv, GeneratePause PROVE TimingInv'
<1>1. PICK p \in Pauses(attempt) :
        \/ /\ TimerFires(p) /\ attempt < Tries
           /\ phase' = "generate" /\ attempt' = attempt + 1
        \/ /\ TimerFires(p) /\ attempt = Tries
           /\ phase' = "term" /\ UNCHANGED attempt
        \/ /\ ContextEnds(p)
           /\ phase' = "term" /\ UNCHANGED attempt
  BY DEF GeneratePause
<1>2. p \in Nat /\ clock \in Nat /\ clock <= Deadline
  BY PauseIsNat DEF GeneratePause, TimingInv, TimingTypeOK, Punctual
<1>3. clock' \in Nat /\ clock' <= Deadline
  BY <1>1, <1>2, PauseClock
<1>4. clock' <= Deadline + EmbedLimit
  BY <1>3, TimingAssumption
<1>5. attempt' \in 1..Tries
  BY <1>1 DEF TimingInv, TimingTypeOK, Tries, Backoff
<1>6. phase = "generatePause" /\ phase' \in {"generate", "term"} /\ UNCHANGED <<query, wrote>>
  BY <1>1 DEF GeneratePause
<1> QED
  BY <1>3, <1>4, <1>5, <1>6, PhaseNames
     DEF TimingInv, TimingTypeOK, RunIsBounded, Punctual, NothingYet, NoPlanWithout

LEMMA TimingInvNext == TimingInv /\ [TimingNext]_timingVars => TimingInv'
<1> SUFFICES ASSUME TimingInv, [TimingNext]_timingVars PROVE TimingInv'
  OBVIOUS
<1>1. CASE UNCHANGED timingVars
  BY <1>1 DEF timingVars, TimingInv, TimingTypeOK, RunIsBounded, Punctual, NothingYet,
              NoPlanWithout
<1>2. CASE TimingNext
  BY <1>2, ExpandCallInv, ExpandPauseInv, EmbedQueryInv, StoreCallInv, GenerateCallInv,
     GeneratePauseInv, EmbedNewInv DEF TimingNext
<1> QED
  BY <1>1, <1>2

LEMMA TimingInvariant == TimingSpec => []TimingInv
<1> QED
  BY TimingInvInit, TimingInvNext, PTL DEF TimingSpec

-----------------------------------------------------------------------------
\* Every variable keeps its type, and no loop counts past its last attempt.
THEOREM TimingTypeCorrect == TimingSpec => []TimingTypeOK
<1>1. TimingInv => TimingTypeOK
  BY DEF TimingInv
<1> QED
  BY <1>1, TimingInvariant, PTL

\* However long the calls take, InsertMemory is back before one deadline and one
\* embedding have passed, although it makes two embedding calls (memory.go:125).
THEOREM RunsAreBounded == TimingSpec => []RunIsBounded
<1>1. TimingInv => RunIsBounded
  BY DEF TimingInv
<1> QED
  BY <1>1, TimingInvariant, PTL

\* Whatever the deadline is, a run whose query it cut short (llm.go:387) writes
\* nothing and is not acknowledged.
THEOREM CutShortIsHarmless == TimingSpec => []CutShortWritesNothing
<1>1. TimingInv => CutShortWritesNothing
  BY DEF TimingInv, NoPlanWithout, CutShortWritesNothing
<1> QED
  BY <1>1, TimingInvariant, PTL

-----------------------------------------------------------------------------
(* The loops end.                                                          *)

\* How many calls and pauses may follow, the current one included: those of the
\* later phases, each once, and in a retry loop a call and a pause for each
\* attempt that is left.
PhasesLeft ==
  [ack |-> 0, term |-> 0, insert |-> 1, delete |-> 2, lookup |-> 3, embedNew |-> 4,
   writeCore |-> 5, generatePause |-> 6, generate |-> 7, readCore |-> 16, search |-> 17,
   embedQuery |-> 18, expandPause |-> 19, expand |-> 20]
Retrying == phase \in {"expand", "expandPause", "generate", "generatePause"}
StepsLeft == PhasesLeft[phase] + IF Retrying THEN 2 * (Tries - attempt) ELSE 0

LEMMA StepsLeftTyped == TimingTypeOK => StepsLeft \in 0..28
<1>1. Tries = 5
  BY DEF Tries, Backoff
<1>2. TimingTypeOK => PhasesLeft[phase] \in 0..20
  BY PhaseNames DEF TimingTypeOK, PhasesLeft
<1> SUFFICES ASSUME TimingTypeOK PROVE StepsLeft \in 0..28
  OBVIOUS
<1>3. attempt \in 1..5
  BY <1>1 DEF TimingTypeOK
<1>4. CASE Retrying
  BY <1>1, <1>2, <1>3, <1>4 DEF StepsLeft
<1>5. CASE ~Retrying
  BY <1>2, <1>5 DEF StepsLeft
<1> QED
  BY <1>4, <1>5

LEMMA StepCounts ==
  ASSUME TimingInv, TimingNext PROVE StepsLeft' < StepsLeft
<1>1. Tries = 5
  BY DEF Tries, Backoff
<1>2. attempt \in 1..5 /\ attempt' \in 1..5
  BY <1>1, TimingInvNext DEF TimingInv, TimingTypeOK
<1> USE DEF StepsLeft, Retrying, PhasesLeft
<1>3. CASE ExpandCall
  <2>1. phase = "expand" /\ attempt' = attempt /\ phase' \in {"embedQuery", "ack", "expandPause"}
    BY <1>3 DEF ExpandCall
  <2> QED
    BY <1>1, <1>2, <2>1
<1>4. CASE ExpandPause
  <2>1. /\ phase = "expandPause"
        /\ phase' = "embedQuery" \/ (phase' = "expand" /\ attempt' = attempt + 1)
    BY <1>4 DEF ExpandPause
  <2> QED
    BY <1>1, <1>2, <2>1
<1>5. CASE EmbedQuery
  <2>1. phase = "embedQuery" /\ phase' \in {"search", "term"}
    BY <1>5 DEF EmbedQuery, Embedding
  <2> QED
    BY <2>1
<1>6. CASE StoreCall
  <2>1. /\ phase \in {"search", "readCore", "writeCore", "lookup", "delete", "insert"}
        /\ attempt' = 1
        /\ phase = "search" => phase' = "readCore"
        /\ phase = "readCore" => phase' = "generate"
        /\ phase = "writeCore" => phase' = "embedNew"
        /\ phase = "lookup" => phase' \in {"delete", "insert", "ack"}
        /\ phase = "delete" => phase' \in {"insert", "ack"}
        /\ phase = "insert" => phase' = "ack"
    BY <1>6, PhaseNames DEF StoreCall, AfterCall
  <2> QED
    BY <1>1, <2>1
<1>7. CASE GenerateCall
  <2>1. /\ phase = "generate" /\ attempt' = attempt
        /\ phase' \in {"writeCore", "embedNew", "generatePause", "term"}
    BY <1>7 DEF GenerateCall
  <2> QED
    BY <1>1, <1>2, <2>1
<1>8. CASE GeneratePause
  <2>1. /\ phase = "generatePause"
        /\ phase' = "term" \/ (phase' = "generate" /\ attempt' = attempt + 1)
    BY <1>8 DEF GeneratePause
  <2> QED
    BY <1>1, <1>2, <2>1
<1>9. CASE EmbedNew
  <2>1. phase = "embedNew" /\ phase' \in {"lookup", "insert", "ack"}
    BY <1>9 DEF EmbedNew, Embedding
  <2> QED
    BY <2>1
<1> QED
  BY <1>3, <1>4, <1>5, <1>6, <1>7, <1>8, <1>9 DEF TimingNext

\* A run ends after 28 calls and pauses at most (llm.go:271, 369), whether they
\* end in time or are cut short: each leaves fewer of them. It is why RunReturns
\* holds: a run that goes on has to end.
EveryStepCounts == StepsLeft \in 0..28 /\ StepsLeft' < StepsLeft

THEOREM RunsEnd == TimingSpec => [][EveryStepCounts]_timingVars
<1>1. TimingInv /\ TimingNext => EveryStepCounts
  BY StepsLeftTyped, StepCounts DEF EveryStepCounts, TimingInv
<1> QED
  BY <1>1, TimingInvariant, PTL DEF TimingSpec
=============================================================================
