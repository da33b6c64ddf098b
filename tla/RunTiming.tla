----------------------------- MODULE RunTiming -----------------------------
(***************************************************************************)
(* The clock of one run of InsertMemory. ExpandQuery and                   *)
(* GenerateMemoryText try their LLM call up to five times, with a growing  *)
(* pause after each failure, inside one context of 60 s that the calls to  *)
(* the stores share; the two embedding calls have 30 s of their own each   *)
(* and do not know of that context. MemoryAgent takes each of the loops    *)
(* for one call that returns, and lets the context expire at any time;     *)
(* here is why it may.                                                     *)
(*                                                                         *)
(* Time is counted in fifths of a second, the grain of the jitter, and goes *)
(* from the end of one call or pause to the end of the next.                *)
(***************************************************************************)
EXTENDS Naturals, Sequences

CONSTANTS
  Deadline,    \* the life of the context of a run
  EmbedLimit,  \* the life of the context of one embedding call
  Durations    \* how long a call may take

ASSUME TimingAssumption ==
  Deadline \in Nat /\ EmbedLimit \in Nat /\ Durations \subseteq Nat

VARIABLES
  phase,    \* the call or pause the run is in, and in the end its verdict
  clock,    \* the time since the context was made
  attempt,  \* the attempt of an LLM call, from 1
  query,    \* where the search query comes from
  wrote     \* history: a write of the run took effect

timingVars == <<phase, clock, attempt, query, wrote>>

\* 1 << i seconds, and one fifth of it up or down.
Backoff == <<1, 2, 4, 8, 16>>
Tries == Len(Backoff)
Pauses(i) == (4 * Backoff[i])..(6 * Backoff[i] - 1)

\* The calls whose errors are logged and ignored, and what may come after each.
AfterCall ==
  [search |-> {"readCore"}, readCore |-> {"generate"}, writeCore |-> {"embedNew"},
   lookup |-> {"delete", "insert", "ack"}, delete |-> {"insert", "ack"}, insert |-> {"ack"}]

Swallowing == DOMAIN AfterCall
Phases == Swallowing \union
  {"expand", "expandPause", "embedQuery", "generate", "generatePause", "embedNew", "ack", "term"}

TimingTypeOK ==
  /\ phase \in Phases
  /\ clock \in Nat
  /\ attempt \in 1..Tries
  /\ query \in {"none", "llm", "messages", "empty"}
  /\ wrote \in BOOLEAN

TimingInit ==
  phase = "expand" /\ clock = 0 /\ attempt = 1 /\ query = "none" /\ wrote = FALSE
-----------------------------------------------------------------------------
\* A call with the context of the run: it ends at the latest when that expires,
\* and can only succeed if it ends before.
InTime(d) == clock + d < Deadline
CallTakes(d) ==
  clock' = IF InTime(d) THEN clock + d ELSE IF clock < Deadline THEN Deadline ELSE clock

\* select of a timer and the context's end.
TimerFires(p) == clock + p <= Deadline /\ clock' = clock + p
ContextEnds(p) == clock + p >= Deadline /\ clock' = IF clock < Deadline THEN Deadline ELSE clock

\* SendMessage succeeds, with a query or with "SKIP", or fails in any way.
ExpandCall ==
  /\ phase = "expand"
  /\ \E d \in Durations :
       /\ CallTakes(d)
       /\ \/ InTime(d) /\ query' = "llm" /\ phase' \in {"embedQuery", "ack"}
          \/ query' = query /\ phase' = "expandPause"
  /\ UNCHANGED <<attempt, wrote>>

\* It pauses after the last failure too, before it falls back on the messages.
\* A context that ends in the pause leaves the query empty.
ExpandPause ==
  /\ phase = "expandPause"
  /\ \E p \in Pauses(attempt) :
       \/ /\ TimerFires(p) /\ attempt < Tries
          /\ phase' = "expand" /\ attempt' = attempt + 1 /\ UNCHANGED query
       \/ /\ TimerFires(p) /\ attempt = Tries
          /\ phase' = "embedQuery" /\ query' = "messages" /\ UNCHANGED attempt
       \/ /\ ContextEnds(p)
          /\ phase' = "embedQuery" /\ query' = "empty" /\ UNCHANGED attempt
  /\ UNCHANGED wrote

\* GenerateEmbeddings replaces the context it is given by one of its own.
Embedding(from, succeeds, fails) ==
  /\ phase = from
  /\ \E d \in Durations :
       /\ clock' = clock + IF d < EmbedLimit THEN d ELSE EmbedLimit
       /\ phase' \in (IF d < EmbedLimit THEN succeeds ELSE {}) \union fails
  /\ UNCHANGED <<attempt, query, wrote>>

\* Sensitivity variant: GenerateEmbeddings of the new memories is retried once.
EmbedNewTwice ==
  LET rest == {"lookup", "insert", "ack"} IN Embedding("embedNew", rest, rest \union {"embedNew"})

EmbedQuery == Embedding("embedQuery", {"search"}, {"term"})
EmbedNew == LET rest == {"lookup", "insert", "ack"} IN Embedding("embedNew", rest, rest)

\* A call to Redis or Qdrant. GenerateMemoryText, which may follow it, counts its
\* attempts from 1 again.
StoreCall ==
  /\ phase \in Swallowing
  /\ \E d \in Durations :
       /\ CallTakes(d)
       /\ wrote' \in {wrote} \union
            (IF InTime(d) /\ phase \in {"writeCore", "delete", "insert"} THEN {TRUE} ELSE {})
  /\ phase' \in AfterCall[phase]
  /\ attempt' = 1 /\ UNCHANGED query

\* Sensitivity variants: the plan is asked for with a fresh context, as the
\* embeddings are; an error is retried at once, the end of the context too.
GenerateCallUnbounded ==
  /\ phase = "generate"
  /\ \E d \in Durations : clock' = clock + d
  /\ phase' \in {"writeCore", "embedNew", "term"}
  /\ UNCHANGED <<attempt, query, wrote>>
GenerateCallAtOnce ==
  /\ phase = "generate"
  /\ \E d \in Durations :
       /\ CallTakes(d)
       /\ phase' \in IF InTime(d) THEN {"writeCore", "embedNew", "term"} ELSE {"generate"}
  /\ UNCHANGED <<attempt, query, wrote>>

\* GenerateContent gives a plan, or text that does not decode, or an error that
\* RetryAbleError tells apart: 429 and 5xx of the service are retried, the end
\* of the context and anything else is not.
GenerateCall ==
  /\ phase = "generate"
  /\ \E d \in Durations :
       /\ CallTakes(d)
       /\ phase' \in IF InTime(d) THEN {"writeCore", "embedNew", "generatePause", "term"}
                                  ELSE {"term"}
  /\ UNCHANGED <<attempt, query, wrote>>

\* Sensitivity variant: the loop counts one attempt too many.
GeneratePauseOnceMore ==
  /\ phase = "generatePause"
  /\ \E p \in Pauses(attempt) :
       \/ TimerFires(p) /\ phase' = "generate" /\ attempt' = attempt + 1
       \/ ContextEnds(p) /\ phase' = "term" /\ UNCHANGED attempt
  /\ UNCHANGED <<query, wrote>>

GeneratePause ==
  /\ phase = "generatePause"
  /\ \E p \in Pauses(attempt) :
       \/ /\ TimerFires(p) /\ attempt < Tries
          /\ phase' = "generate" /\ attempt' = attempt + 1
       \/ /\ TimerFires(p) /\ attempt = Tries
          /\ phase' = "term" /\ UNCHANGED attempt
       \/ /\ ContextEnds(p)
          /\ phase' = "term" /\ UNCHANGED attempt
  /\ UNCHANGED <<query, wrote>>

TimingNext ==
  \/ ExpandCall \/ ExpandPause \/ EmbedQuery \/ StoreCall
  \/ GenerateCall \/ GeneratePause \/ EmbedNew

TimingSpec == TimingInit /\ [][TimingNext]_timingVars

\* Every call returns and every timer fires.
FairTimingSpec == TimingSpec /\ WF_timingVars(TimingNext)
-----------------------------------------------------------------------------
(* Properties.                                                             *)

\* A run lasts as long as its context and one embedding call, although it makes
\* two of them: when the first ends after the deadline there is no plan and no
\* second. This is how long a message can be in work: 90 s, three AckWaits.
RunIsBounded == clock <= Deadline + EmbedLimit

\* A run whose query was cut short by the deadline goes on with an empty query,
\* embeds it and asks the stores; it must not get as far as a write, and its
\* job must not be acknowledged.
CutShortWritesNothing == query = "empty" => ~wrote /\ phase # "ack"

\* Both retry loops end: a run returns, whatever its calls do.
RunReturns == <>(phase \in {"ack", "term"})
=============================================================================
