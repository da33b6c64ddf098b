--------------------------- MODULE DeliveryProofs ---------------------------
(***************************************************************************)
(* How often a job is run, for any number of jobs and workers (finite or   *)
(* not) and any number of failures, crashes and expiries.                  *)
(***************************************************************************)
EXTENDS LifecycleProofs, Functions, FiniteSetTheorems

-----------------------------------------------------------------------------
(* Copies of a message.                                                    *)

\* The places of the workers' buffers that hold the message of job j.
Copies(j) == {c \in Workers \X Nat : c[2] \in DOMAIN inbox[c[1]] /\ inbox[c[1]][c[2]] = j}

\* The delivery of j that is still to come: its first, or one that is due.
ToCome(j) == IF stream[j] = "absent" \/ due[j] THEN 1 ELSE 0

Causes == 1 + faults + crashes + expiries

\* The inductive strengthening of RunsHaveCauses: what may still become a run
\* of j needs a cause just as a run does.
CopiesHaveCauses ==
  \A j \in Jobs : /\ IsFiniteSet(Copies(j))
                  /\ runs[j] + ToCome(j) + Cardinality(Copies(j)) <= Causes

LEMMA CopiesStay == ASSUME UNCHANGED inbox, NEW j PROVE Copies(j)' = Copies(j)
BY DEF Copies

\* A delivery adds one copy of the message delivered.
LEMMA DeliverCopies ==
  ASSUME TypeOK, NEW j \in Jobs, NEW w \in Workers, Deliver(j, w), NEW k \in Jobs
  PROVE  \E c : Copies(k)' = IF k = j THEN Copies(k) \union {c} ELSE Copies(k)
<1> DEFINE c == <<w, Len(inbox[w]) + 1>>
<1>1. inbox \in [Workers -> Seq(Jobs)] /\ inbox' = [inbox EXCEPT ![w] = Append(@, j)]
  BY DEF TypeOK, QueueTypeOK, Deliver
<1>2. ASSUME NEW x \in Workers, x # w, NEW i \in Nat
      PROVE  <<x, i>> \in Copies(k)' <=> <<x, i>> \in Copies(k)
  BY <1>1, <1>2 DEF Copies
<1>3. ASSUME NEW i \in Nat
      PROVE  <<w, i>> \in Copies(k)' <=>
               <<w, i>> \in Copies(k) \/ (k = j /\ i = Len(inbox[w]) + 1)
  <2>1. inbox[w] \in Seq(Jobs) /\ inbox'[w] = Append(inbox[w], j)
    BY <1>1
  <2>2. /\ DOMAIN inbox'[w] = 1..(Len(inbox[w]) + 1) /\ DOMAIN inbox[w] = 1..Len(inbox[w])
        /\ \A n \in 1..Len(inbox[w]) : inbox'[w][n] = inbox[w][n]
        /\ inbox'[w][Len(inbox[w]) + 1] = j
        /\ Len(inbox[w]) \in Nat
    BY <2>1
  <2> QED
    BY <2>2, SMTT(30) DEF Copies
<1>4. Copies(k) \subseteq Workers \X Nat /\ Copies(k)' \subseteq Workers \X Nat
  BY DEF Copies
<1>5. Len(inbox[w]) + 1 \in Nat
  BY <1>1
<1>6. Copies(k)' = IF k = j THEN Copies(k) \union {c} ELSE Copies(k)
  BY <1>2, <1>3, <1>4, <1>5
<1> QED
  BY <1>6

\* A run that begins takes one copy of its message; those behind it move up.
LEMMA BeginCopies ==
  ASSUME TypeOK, NEW w \in Workers, Begin(w), NEW k \in Jobs, IsFiniteSet(Copies(k))
  PROVE  /\ IsFiniteSet(Copies(k)')
         /\ Cardinality(Copies(k)') \in Nat
         /\ Cardinality(Copies(k)') <=
              IF k = Head(inbox[w]) THEN Cardinality(Copies(k)) - 1 ELSE Cardinality(Copies(k))
<1> DEFINE old == IF k = Head(inbox[w]) THEN Copies(k) \ {<<w, 1>>} ELSE Copies(k)
           moved == [c \in Copies(k)' |-> <<c[1], IF c[1] = w THEN c[2] + 1 ELSE c[2]>>]
<1>1. /\ inbox \in [Workers -> Seq(Jobs)] /\ inbox[w] \in Seq(Jobs) /\ inbox[w] # <<>>
      /\ inbox' = [inbox EXCEPT ![w] = Tail(@)]
  BY DEF TypeOK, QueueTypeOK, Begin
<1>2. /\ DOMAIN inbox[w] = 1..Len(inbox[w]) /\ Len(inbox[w]) \in Nat \ {0}
      /\ DOMAIN inbox'[w] = 1..(Len(inbox[w]) - 1)
      /\ \A i \in 1..(Len(inbox[w]) - 1) : inbox'[w][i] = inbox[w][i + 1]
      /\ inbox[w][1] = Head(inbox[w])
  BY <1>1
<1>3. moved \in Injection(Copies(k)', old)
  <2>1. ASSUME NEW c \in Copies(k)' PROVE moved[c] \in old
    <3>1. /\ c = <<c[1], c[2]>> /\ c[1] \in Workers /\ c[2] \in Nat
          /\ c[2] \in DOMAIN inbox'[c[1]] /\ inbox'[c[1]][c[2]] = k
      BY <2>1 DEF Copies
    <3>2. CASE c[1] = w
      <4>1. c[2] + 1 \in DOMAIN inbox[w] /\ inbox[w][c[2] + 1] = k /\ c[2] + 1 # 1
        BY <1>2, <3>1, <3>2
      <4>2. moved[c] = <<w, c[2] + 1>>
        BY <2>1, <3>2
      <4> QED
        BY <3>1, <4>1, <4>2 DEF Copies
    <3>3. CASE c[1] # w
      <4>1. inbox'[c[1]] = inbox[c[1]]
        BY <1>1, <3>1, <3>3
      <4>2. moved[c] = <<c[1], c[2]>>
        BY <2>1, <3>3
      <4> QED
        BY <3>1, <3>3, <4>1, <4>2 DEF Copies
    <3> QED
      BY <3>2, <3>3
  <2>2. ASSUME NEW c \in Copies(k)', NEW d \in Copies(k)', moved[c] = moved[d]
        PROVE  c = d
    <3>1. c = <<c[1], c[2]>> /\ d = <<d[1], d[2]>> /\ c[2] \in Nat /\ d[2] \in Nat
      BY <2>2 DEF Copies
    <3> QED
      BY <2>2, <3>1
  <2> HIDE DEF moved, old
  <2>3. moved \in [Copies(k)' -> old]
    BY <2>1 DEF moved
  <2> QED
    BY <2>2, <2>3 DEF Injection, IsInjective
<1>4. IsFiniteSet(old) /\ Cardinality(old) \in Nat /\ Cardinality(Copies(k)) \in Nat
  BY FS_RemoveElement, FS_CardinalityType
<1>5. k = Head(inbox[w]) => <<w, 1>> \in Copies(k)
  BY <1>1, <1>2 DEF Copies
<1>6. Cardinality(old) = IF k = Head(inbox[w]) THEN Cardinality(Copies(k)) - 1
                         ELSE Cardinality(Copies(k))
  BY <1>5, FS_RemoveElement
<1> HIDE DEF old, moved
<1>7. IsFiniteSet(Copies(k)') /\ Cardinality(Copies(k)') <= Cardinality(old)
  BY <1>3, <1>4, FS_Injection
<1> QED
  BY <1>6, <1>7, FS_CardinalityType
-----------------------------------------------------------------------------
(* Every run has its cause.                                                *)

NaturalCauses ==
  faults \in Nat /\ crashes \in Nat /\ expiries \in Nat /\ Causes \in Nat

LEMMA CausesNat == TypeOK => NaturalCauses
<1> SUFFICES ASSUME TypeOK PROVE NaturalCauses
  OBVIOUS
<1>1. faults \in 0..MaxFaults /\ crashes \in 0..MaxCrashes /\ expiries \in 0..MaxExpiries
  BY DEF TypeOK, QueueTypeOK
<1>2. faults \in Nat /\ crashes \in Nat /\ expiries \in Nat
  BY <1>1, BoundsAssumption
<1> QED
  BY <1>2 DEF Causes, NaturalCauses

LEMMA CopiesNext ==
  TypeOK /\ TypeOK' /\ OnlyStored /\ CopiesHaveCauses /\ [Next]_vars => CopiesHaveCauses'
<1> SUFFICES ASSUME TypeOK, TypeOK', OnlyStored, CopiesHaveCauses, [Next]_vars
             PROVE  CopiesHaveCauses'
  OBVIOUS
<1> DEFINE Good(k) == /\ IsFiniteSet(Copies(k)')
                      /\ runs'[k] + ToCome(k)' + Cardinality(Copies(k)') <= Causes'
<1>1. /\ faults \in Nat /\ crashes \in Nat /\ expiries \in Nat /\ Causes \in Nat
      /\ Causes = 1 + faults + crashes + expiries
      /\ Causes' = 1 + faults' + crashes' + expiries'
  BY CausesNat DEF NaturalCauses, Causes
<1>2. ASSUME NEW k \in Jobs
      PROVE  /\ runs[k] \in Nat /\ runs'[k] \in Nat /\ IsFiniteSet(Copies(k))
             /\ Cardinality(Copies(k)) \in Nat
             /\ ToCome(k) \in {0, 1} /\ ToCome(k)' \in {0, 1}
             /\ runs[k] + ToCome(k) + Cardinality(Copies(k)) <= Causes
  BY FS_CardinalityType DEF CopiesHaveCauses, TypeOK, ToCome
<1>3. SUFFICES \A k \in Jobs : Good(k)
  BY DEF CopiesHaveCauses
\* Copies and runs stay, a delivery to come is made up for by a new cause.
<1>4. ASSUME UNCHANGED <<inbox, runs>>, NEW k \in Jobs,
             Causes' + ToCome(k) >= Causes + ToCome(k)'
      PROVE  Good(k)
  BY <1>1, <1>2, <1>4, CopiesStay
<1>5. ASSUME UNCHANGED <<stream, due, inbox, runs>>, Causes' >= Causes
      PROVE  \A k \in Jobs : Good(k)
  <2>1. \A k \in Jobs : ToCome(k)' = ToCome(k)
    BY <1>5 DEF ToCome
  <2> QED
    BY <1>1, <1>2, <1>4, <1>5, <2>1
<1>6. CASE ApplyWrite \/ UNCHANGED vars
  BY <1>1, <1>5, <1>6 DEF ApplyWrite, vars, queueVars, budgetVars, agentVars, Causes
<1>7. ASSUME NEW w \in Workers, DeadlineExpires(w)
      PROVE  \A k \in Jobs : Good(k)
  BY <1>1, <1>5, <1>7 DEF DeadlineExpires, Fault, queueVars, Causes
<1>8. ASSUME NEW j \in Jobs, Submit(j) \/ ReplyOk(j) \/ ReplyError(j), UNCHANGED agentVars
      PROVE  \A k \in Jobs : Good(k)
  BY <1>1, <1>5, <1>8 DEF Submit, ReplyOk, ReplyError, Fault, agentVars, budgetVars, Causes
<1>9. CASE (Restart \/ \E w \in Workers : Subscribe(w) \/ SubscribeFails(w)) /\ UNCHANGED agentVars
  BY <1>1, <1>5, <1>9 DEF Restart, Subscribe, SubscribeFails, Fault, agentVars, budgetVars, Causes
<1>10. ASSUME NEW j \in Jobs, StreamStores(j), UNCHANGED agentVars
       PROVE  \A k \in Jobs : Good(k)
  <2>1. Causes' = Causes /\ UNCHANGED <<inbox, runs>>
    BY <1>10 DEF StreamStores, agentVars, budgetVars, Causes
  <2>2. \A k \in Jobs : ToCome(k)' = ToCome(k)
    BY <1>10 DEF StreamStores, ToCome, TypeOK, QueueTypeOK, Causes
  <2> QED
    BY <1>1, <1>2, <1>4, <2>1, <2>2
<1>11. ASSUME NEW j \in Jobs, AckWaitExpires(j), UNCHANGED agentVars
       PROVE  \A k \in Jobs : Good(k)
  <2>1. Causes' = Causes + 1 /\ UNCHANGED <<inbox, runs>>
    BY <1>1, <1>11 DEF AckWaitExpires, agentVars, Causes
  <2> QED
    BY <1>1, <1>2, <1>4, <2>1
<1>12. ASSUME NEW j \in Jobs, NEW w \in Workers, Deliver(j, w), UNCHANGED agentVars
       PROVE  \A k \in Jobs : Good(k)
  <2>1. Causes' = Causes /\ UNCHANGED <<stream, runs>> /\ due[j] /\ due' = [due EXCEPT ![j] = FALSE]
    BY <1>12 DEF Deliver, agentVars, budgetVars, Causes
  <2> SUFFICES ASSUME NEW k \in Jobs PROVE Good(k)
    OBVIOUS
  <2>2. CASE k # j
    <3>1. Copies(k)' = Copies(k) /\ ToCome(k)' = ToCome(k)
      BY <1>12, <2>1, <2>2, DeliverCopies DEF ToCome, TypeOK, QueueTypeOK
    <3> QED
      BY <1>2, <2>1, <3>1
  <2>3. CASE k = j
    <3>1. PICK c : Copies(k)' = Copies(k) \union {c}
      BY <1>12, <2>3, DeliverCopies
    <3>2. /\ IsFiniteSet(Copies(k) \union {c})
          /\ Cardinality(Copies(k) \union {c}) \in Nat
      BY <1>2, FS_AddElement, FS_CardinalityType
    <3>3. Cardinality(Copies(k) \union {c}) <= Cardinality(Copies(k)) + 1
      BY <1>2, <3>2, FS_AddElement, SMTT(30)
    <3>4. ToCome(k) = 1 /\ (stream[k] # "absent" => ToCome(k)' = 0)
      BY <2>1, <2>3 DEF ToCome, TypeOK, QueueTypeOK
    <3>5. stream[k] # "absent"
      BY <2>1, <2>3 DEF OnlyStored
    <3> QED
      BY <1>1, <1>2, <2>1, <3>1, <3>2, <3>3, <3>4, <3>5
  <2> QED
    BY <2>2, <2>3
<1>13. CASE QueueStep
  BY <1>8, <1>9, <1>10, <1>11, <1>12, <1>13 DEF QueueStep
<1>14. ASSUME Crash, NEW k \in Jobs PROVE Good(k)
  <2>1. Causes' = Causes + 1 /\ UNCHANGED runs
    BY <1>1, <1>14 DEF Crash, QueueCrash, Causes
  <2>2. Copies(k)' = {}
    BY <1>14 DEF Crash, QueueCrash, Copies, Causes
  <2>3. IsFiniteSet({}) /\ Cardinality({}) = 0
    BY FS_EmptySet
  <2> QED
    BY <1>1, <1>2, <2>1, <2>2, <2>3
<1>15. ASSUME NEW w \in Workers, Begin(w), NEW k \in Jobs PROVE Good(k)
  <2>1. /\ Causes' = Causes /\ UNCHANGED <<stream, due>> /\ inbox[w] # <<>>
        /\ runs' = [runs EXCEPT ![Head(inbox[w])] = @ + 1]
    BY <1>15 DEF Begin, budgetVars, Causes
  <2>2. ToCome(k)' = ToCome(k)
    BY <2>1 DEF ToCome
  <2>3. runs'[k] = IF k = Head(inbox[w]) THEN runs[k] + 1 ELSE runs[k]
    BY <2>1 DEF TypeOK
  <2>4. /\ IsFiniteSet(Copies(k)') /\ Cardinality(Copies(k)') \in Nat
        /\ Cardinality(Copies(k)') <=
             IF k = Head(inbox[w]) THEN Cardinality(Copies(k)) - 1 ELSE Cardinality(Copies(k))
    BY <1>2, <1>15, BeginCopies
  <2> QED
    BY <1>1, <1>2, <2>1, <2>2, <2>3, <2>4
<1>16. ASSUME NEW w \in Workers, Settle(w), NEW k \in Jobs PROVE Good(k)
  <2>1. UNCHANGED <<inbox, runs>> /\ wk[w].job \in Jobs
    BY <1>16, BusyHasJob DEF Settle, Causes
  <2>2. CASE Settled(wk[w].job, wk[w].pc) /\ UNCHANGED faults
    <3>1. Causes' = Causes
      BY <1>16, <2>2 DEF Settle, Causes
    <3>2. ToCome(k)' <= ToCome(k)
      BY <2>1, <2>2 DEF Settled, ToCome, TypeOK, QueueTypeOK, Causes
    <3> QED
      BY <1>1, <1>2, <1>4, <2>1, <3>1, <3>2
  <2>3. CASE Fault
    <3>1. Causes' = Causes + 1
      BY <1>1, <1>16, <2>3 DEF Settle, Fault, Causes
    <3> QED
      BY <1>1, <1>2, <1>4, <2>1, <3>1
  <2> QED
    BY <1>16, <2>2, <2>3 DEF Settle, Causes
<1>17. ASSUME NEW w \in Workers, WorkerStep(w), ~Begin(w), ~Settle(w)
       PROVE  \A k \in Jobs : Good(k)
  <2>1. RunStep
    BY <1>17, RunStepCommon
  <2>2. faults' = faults \/ faults' = faults + 1
    BY <1>17
       DEF WorkerStep, Expand, ExpandSkips, ExpandContinues, Search, SearchFinds, SearchFails,
           ReadCore, Generate, GenerateReturns, GenerateFails, WriteCore, Embed, CheckDelete,
           Delete, Insert, Returns, Fails, Fault
  <2>3. /\ UNCHANGED <<stream, due, inbox, runs, crashes, expiries>>
    BY <2>1 DEF RunStep, queueVars
  <2>4. Causes' >= Causes
    BY <1>1, <2>2, <2>3 DEF Causes
  <2> QED
    BY <1>5, <2>3, <2>4
<1> QED
  BY <1>6, <1>7, <1>13, <1>14, <1>15, <1>16, <1>17 DEF Next

\* However deliveries, expiries, crashes and lost acknowledgements interleave, a
\* job is run once and once more for each of them at most (memory.go:57): no
\* message is handed to two workers by one delivery, whatever their number.
THEOREM EveryRunHasACause == Spec => []RunsHaveCauses
<1>1. Init => CopiesHaveCauses
  <2> SUFFICES ASSUME Init, NEW j \in Jobs
               PROVE  /\ IsFiniteSet(Copies(j))
                      /\ runs[j] + ToCome(j) + Cardinality(Copies(j)) <= Causes
    BY DEF CopiesHaveCauses
  <2>1. Copies(j) = {}
    BY DEF Init, QueueInit, Copies
  <2>2. runs[j] = 0 /\ ToCome(j) = 1 /\ Causes = 1
    BY DEF Init, QueueInit, ToCome, Causes
  <2> QED
    BY <2>1, <2>2, FS_EmptySet
<1>2. TypeOK /\ CopiesHaveCauses => RunsHaveCauses
  <2> SUFFICES ASSUME TypeOK, CopiesHaveCauses, NEW j \in Jobs
               PROVE  runs[j] <= 1 + faults + crashes + expiries
    BY DEF RunsHaveCauses
  <2>1. /\ runs[j] \in Nat /\ ToCome(j) \in Nat /\ Cardinality(Copies(j)) \in Nat
        /\ runs[j] + ToCome(j) + Cardinality(Copies(j)) <= Causes
    BY FS_CardinalityType DEF CopiesHaveCauses, TypeOK, ToCome
  <2> QED
    BY <2>1, CausesNat DEF NaturalCauses, Causes
<1>3. Init => OnlyStored
  BY DEF Init, QueueInit, OnlyStored, IdleRun, FreshRun
<1> QED
  BY <1>1, <1>2, <1>3, TypeCorrect, OnlyStoredNext, CopiesNext, PTL DEF Spec
=============================================================================
