----------------------------- MODULE PumpProofs -----------------------------
(***************************************************************************)
(* Proofs about module Pump, for every value of its constants.             *)
(*                                                                         *)
(* NoRowLost and OldestFirst are not inductive: they say nothing of the    *)
(* batches in hand and in the retry queue, which the next ack turns into a *)
(* send record and a DELETE.  Covered adds that: a batch that advances the *)
(* record to `upto' owns every row up to `upto' the destination lacks.     *)
(*                                                                         *)
(* With one process more holds: OneInv says that nothing is queued while   *)
(* it has rows in hand, and Undisturbed that those rows are past the       *)
(* record and undelivered, until a fault or a rewind.                      *)
(***************************************************************************)
EXTENDS Pump, FiniteSetTheorems, TLAPS

\* What is in hand and in the queue lies in the sink's past, and a replayed
\* deliverable has an id and an attempt left when it is requeued.
InHand ==
  /\ \A p \in Procs :
       /\ job[p].upto \in 0 .. stored /\ from[p] \in 0 .. stored
       /\ job[p].rows \subseteq 1 .. job[p].upto
       /\ pc[p] \in {"ship", "replay", "enqueue", "requeue"} => job[p].upto > 0
       /\ pc[p] \in {"replay", "requeue"} => job[p].id \in Ids
       /\ pc[p] = "requeue" => job[p].attempts + 1 < MaxAttempts
  /\ \A d \in queue : d.upto \in 1 .. stored /\ d.rows \subseteq 1 .. d.upto

TypeInv == TypeOK /\ InHand

Reached(k) == 1 .. k \subseteq delivered

\* Every row is delivered, or left to the batch, or in the sink past where
\* the process reads.
Covered ==
  /\ \A i \in 1 .. stored : i \in rows \/ i \in delivered
  /\ Reached(cursor)
  /\ \A p \in Procs :
       /\ pc[p] = "read" => Reached(from[p])
       /\ pc[p] \in {"ship", "replay", "enqueue", "requeue"}
            => 1 .. job[p].upto \subseteq delivered \cup job[p].rows
       /\ pc[p] \in {"advance", "commit"} => Reached(job[p].upto)
  /\ \A d \in queue : 1 .. d.upto \subseteq delivered \cup d.rows

IInv == TypeInv /\ OldestFirst /\ Covered
-----------------------------------------------------------------------------
(* Facts about the operators *)

\* A batch of row ids has a size.
LEMMA BatchSize ==
  ASSUME NEW S, S \in SUBSET RowIds
  PROVE  IsFiniteSet(S) /\ Cardinality(S) \in Nat
<1>1. IsFiniteSet(RowIds)
  BY PumpAssumption, FS_Interval DEF RowIds
<1>2. IsFiniteSet(S)
  BY <1>1, FS_Subset
<1> QED  BY <1>2, FS_CardinalityType

\* The batch ReadBatch takes is made of rows of the sink past the cursor.
LEMMA SliceIsOfRows ==
  ASSUME TypeOK, NEW after, NEW upto \in rows
  PROVE  /\ upto \in 1 .. stored /\ stored \in Nat /\ stored <= MaxId
         /\ Slice(after, upto) \subseteq rows
         /\ Slice(after, upto) \subseteq 1 .. upto
<1>1. upto \in 1 .. stored /\ stored \in Nat /\ stored <= MaxId
  BY PumpAssumption DEF TypeOK
<1>2. ASSUME NEW r \in Slice(after, upto)
      PROVE  r \in rows /\ r \in 1 .. upto
  BY <1>1 DEF Slice, TypeOK
<1> QED  BY <1>1, <1>2

\* advance_cursor never moves a record back, and leaves it on the old value
\* or the new.
LEMMA ForwardIsMax ==
  ASSUME TypeOK, NEW k \in Nat
  PROVE  /\ Forward(k) >= cursor /\ Forward(k) >= k
         /\ Forward(k) \in {k, cursor}
BY PumpAssumption DEF TypeOK, Forward
-----------------------------------------------------------------------------
(* Type correctness *)

\* An empty sink, queue and record, and idle pumps, are well typed.
LEMMA InitType == Init => TypeInv
BY PumpAssumption
   DEF Init, TypeInv, TypeOK, InHand, NoJob, Jobs, Outcomes, Steps, RowIds, MaySend

\* The pump returns, or its process dies: nothing is left in hand.
LEMMA ReturnType ==
  ASSUME TypeInv, NEW p \in Procs, Return(p),
         UNCHANGED <<sink, store, held, delivered, dup, allowance>>,
         faults' \in 0 .. MaxFaults, UNCHANGED resets
  PROVE  TypeInv'
BY PumpAssumption
   DEF Return, Goto, TypeInv, TypeOK, InHand, NoJob, Jobs, Outcomes, Steps,
       RowIds, sink, store

\* What a call of the transport may do to the history.
TakenOK(p) ==
  /\ delivered' \subseteq 1 .. stored /\ dup' \subseteq delivered'
  /\ allowance' \in [Procs -> -1 .. 1] /\ faults' \in 0 .. MaxFaults

LEMMA ContactType ==
  ASSUME TypeInv, NEW p \in Procs, NEW o \in Outcomes, Contact(p, o)
  PROVE  TakenOK(p)
<1>1. job[p].rows \subseteq 1 .. stored
  BY DEF TypeInv, TypeOK, InHand
<1>2. ASSUME NEW taken \in SUBSET job[p].rows, Take(p, taken)
      PROVE  /\ delivered' \subseteq 1 .. stored /\ dup' \subseteq delivered'
             /\ allowance' \in [Procs -> -1 .. 1]
  <2>1. allowance \in [Procs -> -1 .. 1]
    BY DEF TypeInv, TypeOK
  <2>2. allowance' = [allowance EXCEPT ![p] =
          IF held /\ allowance[p] >= 0 THEN allowance[p] - 1 ELSE allowance[p]]
    BY <1>2 DEF Take
  <2>3. allowance' \in [Procs -> -1 .. 1]
    BY <2>1, <2>2
  <2> QED  BY <1>1, <1>2, <2>3 DEF Take, TypeInv, TypeOK
<1>3. CASE faults < MaxFaults /\ faults' = faults + 1
           /\ \E k \in job[p].rows : Take(p, {r \in job[p].rows : r <= k})
  BY <1>2, <1>3, PumpAssumption DEF TakenOK, TypeInv, TypeOK
<1>4. CASE UNCHANGED faults
           /\ Take(p, IF o = "acked" THEN job[p].rows ELSE {})
  BY <1>2, <1>4, PumpAssumption DEF TakenOK, TypeInv, TypeOK
<1> QED  BY <1>3, <1>4 DEF Contact

\* Each step of a pump.
LEMMA PumpStepType ==
  ASSUME TypeInv, NEW p \in Procs, PumpStep(p)
  PROVE  TypeInv'
<1> USE PumpAssumption DEF sink, store, locals, history, Goto
<1>1. CASE PumpOne(p)
  BY <1>1 DEF PumpOne, TypeInv, TypeOK, InHand, Steps
<1>2. CASE PopDue(p)
  BY <1>2 DEF PopDue, TypeInv, TypeOK, InHand, Steps, Jobs, Outcomes, Deliverables, RowIds
<1>3. CASE DrainEnds(p)
  BY <1>3 DEF DrainEnds, TypeInv, TypeOK, InHand, Steps
<1>4. CASE CountQueue(p)
  <2>1. CASE Return(p)
    BY <1>4, <2>1, ReturnType DEF CountQueue, TypeInv, TypeOK
  <2>2. CASE Goto(p, "src") /\ UNCHANGED <<job, from, shipped>>
    BY <1>4, <2>2 DEF CountQueue, TypeInv, TypeOK, InHand, Steps
  <2> QED  BY <1>4, <2>1, <2>2 DEF CountQueue
<1>5. CASE GetCursor(p)
  <2>1. CASE Return(p)
    BY <1>5, <2>1, ReturnType DEF GetCursor, TypeInv, TypeOK
  <2>2. CASE /\ from' = [from EXCEPT ![p] = cursor]
             /\ Goto(p, "read") /\ UNCHANGED <<job, shipped>>
    BY <1>5, <2>2 DEF GetCursor, TypeInv, TypeOK, InHand, Steps
  <2> QED  BY <1>5, <2>1, <2>2 DEF GetCursor
<1>6. CASE ReadBatch(p)
  <2>1. PICK upto \in rows :
          job' = [job EXCEPT ![p] = Batch(from[p], upto)]
    BY <1>6 DEF ReadBatch
  <2> DEFINE batch == Batch(from[p], upto)
  <2>2. /\ upto \in 1 .. stored /\ stored \in Nat /\ stored <= MaxId
        /\ Slice(from[p], upto) \subseteq 1 .. upto
    BY SliceIsOfRows DEF TypeInv
  <2>3. batch \in Jobs /\ batch.upto = upto /\ batch.rows = Slice(from[p], upto)
    <3>1. upto \in 0 .. MaxId /\ Slice(from[p], upto) \in SUBSET RowIds
      BY <2>2 DEF RowIds
    <3> QED  BY <3>1 DEF Batch, Jobs, Outcomes
  <2> HIDE DEF batch
  <2>4. job' = [job EXCEPT ![p] = batch]
    BY <2>1 DEF batch
  <2>5. TypeOK'
    BY <1>6, <2>3, <2>4 DEF ReadBatch, TypeInv, TypeOK, Steps
  <2>6. InHand'
    BY <1>6, <2>2, <2>3, <2>4 DEF ReadBatch, TypeInv, TypeOK, InHand
  <2> QED  BY <2>5, <2>6 DEF TypeInv
<1>7. CASE SourceExhausted(p)
  BY <1>7, ReturnType DEF SourceExhausted, TypeInv, TypeOK
<1>8. CASE Ship(p)
  <2>1. Cardinality(job[p].rows) \in Nat
    BY BatchSize DEF TypeInv, TypeOK, Jobs
  <2>2. PICK o \in Outcomes :
          /\ Contact(p, o)
          /\ pc' = [pc EXCEPT ![p] = CASE o = "acked" -> "advance"
                                      [] o = "retry_later" -> "enqueue"
                                      [] o = "permanent" -> "deadletter"]
          /\ job' = [job EXCEPT ![p].outcome = o,
                       ![p].then = IF o = "acked" /\ shipped'[p] < Budget
                                   THEN "src" ELSE "idle"]
    BY <1>8 DEF Ship
  <2>3. shipped' \in [Procs -> Nat]
    BY <1>8, <2>1 DEF Ship, TypeInv, TypeOK
  <2>4. /\ job' \in [Procs -> Jobs]
        /\ \A q \in Procs : /\ job'[q].upto = job[q].upto
                             /\ job'[q].rows = job[q].rows
                             /\ job'[q].id = job[q].id
                             /\ job'[q].attempts = job[q].attempts
    BY <2>2 DEF TypeInv, TypeOK, Jobs, Outcomes
  <2>5. /\ pc' \in [Procs -> Steps]
        /\ \A q \in Procs \ {p} : pc'[q] = pc[q]
        /\ pc'[p] \in {"advance", "enqueue", "deadletter"}
    BY <2>2 DEF TypeInv, TypeOK, Steps, Outcomes
  <2>6. TakenOK(p)
    BY <2>2, ContactType DEF InHand, TypeInv
  <2> QED  BY <1>8, <2>3, <2>4, <2>5, <2>6
       DEF Ship, TakenOK, TypeInv, TypeOK, InHand
<1>9. CASE Replay(p)
  <2>1. PICK o \in Outcomes :
          /\ Contact(p, o)
          /\ pc' = [pc EXCEPT ![p] =
                      CASE o = "acked" -> "advance"
                        [] o = "retry_later" /\ ~Exhausted(p) -> "requeue"
                        [] OTHER -> "deadletter"]
          /\ job' = [job EXCEPT ![p].outcome = o,
                       ![p].then = IF o = "retry_later" THEN "count" ELSE "drain"]
    BY <1>9 DEF Replay
  <2>2. /\ job' \in [Procs -> Jobs]
        /\ \A q \in Procs : /\ job'[q].upto = job[q].upto
                             /\ job'[q].rows = job[q].rows
                             /\ job'[q].id = job[q].id
                             /\ job'[q].attempts = job[q].attempts
    BY <2>1 DEF TypeInv, TypeOK, Jobs, Outcomes
  <2>3. /\ pc' \in [Procs -> Steps]
        /\ \A q \in Procs \ {p} : pc'[q] = pc[q]
        /\ pc'[p] \in {"advance", "requeue", "deadletter"}
        /\ pc'[p] = "requeue" => job[p].attempts + 1 < MaxAttempts
    BY <2>1 DEF TypeInv, TypeOK, Steps, Exhausted, Jobs, Outcomes
  <2>4. TakenOK(p)
    BY <2>1, ContactType DEF InHand, TypeInv
  <2> QED  BY <1>9, <2>2, <2>3, <2>4 DEF Replay, TakenOK, TypeInv, TypeOK, InHand
<1>10. CASE Advance(p)
  BY <1>10, ForwardIsMax DEF Advance, TypeInv, TypeOK, InHand, Steps
<1>11. CASE Commit(p)
  BY <1>11 DEF Commit, Survivors, TypeInv, TypeOK, InHand, Steps
<1>12. CASE Enqueue(p)
  <2>1. CASE UNCHANGED queue
    BY <1>12, <2>1 DEF Enqueue, TypeInv, TypeOK, InHand, Steps
  <2>2. ASSUME NEW i \in FreeIds,
               queue' = queue \cup
                 {[id |-> i, upto |-> job[p].upto, rows |-> job[p].rows,
                   attempts |-> 0, due |-> FALSE]}
        PROVE  TypeInv'
    <3> DEFINE d == [id |-> i, upto |-> job[p].upto, rows |-> job[p].rows,
                     attempts |-> 0, due |-> FALSE]
    <3>1. d \in Deliverables /\ d.upto \in 1 .. stored /\ d.rows \subseteq 1 .. d.upto
      BY <1>12, <2>2
         DEF Enqueue, FreeIds, TypeInv, TypeOK, InHand, Deliverables, RowIds
    <3> HIDE DEF d
    <3>2. queue' = queue \cup {d}
      BY <2>2 DEF d
    <3> QED  BY <1>12, <3>1, <3>2 DEF Enqueue, TypeInv, TypeOK, InHand, Steps
  <2> QED  BY <1>12, <2>1, <2>2 DEF Enqueue
<1>13. CASE Requeue(p)
  <2>1. /\ Again(p) \in Deliverables /\ Again(p).upto \in 1 .. stored
        /\ Again(p).rows \subseteq 1 .. Again(p).upto
    BY <1>13 DEF Requeue, Again, TypeInv, TypeOK, InHand, Deliverables, Jobs, RowIds
  <2> QED  BY <1>13, <2>1 DEF Requeue, TypeInv, TypeOK, InHand, Steps
<1>14. CASE DeadLetter(p)
  BY <1>14 DEF DeadLetter, TypeInv, TypeOK, InHand, Steps, Jobs
<1>15. CASE RecordAttempt(p)
  <2>1. lastSend' \in 0 .. stored
    BY <1>15 DEF RecordAttempt, LastSend, TypeInv, TypeOK, InHand
  <2>2. CASE Return(p)
    BY <1>15, <2>1, <2>2
       DEF RecordAttempt, Return, NoJob, TypeInv, TypeOK, InHand, Steps, Jobs,
           Outcomes, RowIds
  <2>3. CASE /\ job[p].then # "idle" /\ Goto(p, job[p].then)
             /\ job' = [job EXCEPT ![p] = NoJob] /\ UNCHANGED <<from, shipped>>
    <3>1. job[p].then \in {"drain", "count", "src"}
      BY <2>3 DEF TypeInv, TypeOK, Jobs
    <3>2. NoJob \in Jobs /\ NoJob.upto = 0 /\ NoJob.rows = {}
      BY DEF NoJob, Jobs, Outcomes, RowIds
    <3> QED  BY <1>15, <2>1, <2>3, <3>1, <3>2
         DEF RecordAttempt, TypeInv, TypeOK, InHand, Steps
  <2> QED  BY <1>15, <2>2, <2>3 DEF RecordAttempt
<1> QED
  BY <1>1, <1>2, <1>3, <1>4, <1>5, <1>6, <1>7, <1>8, <1>9, <1>10, <1>11,
     <1>12, <1>13, <1>14, <1>15 DEF PumpStep

\* Each step of the operator, of the clock and of a producer.
LEMMA EnvironmentType ==
  ASSUME TypeInv, Environment
  PROVE  TypeInv'
<1> USE PumpAssumption DEF sink, store, locals, history
<1>1. CASE Store
  BY <1>1 DEF Store, TypeInv, TypeOK, InHand
<1>2. CASE BackoffElapses
  <2>1. PICK d \in queue :
          queue' = (queue \ {d}) \cup {[d EXCEPT !.due = TRUE]}
    BY <1>2 DEF BackoffElapses
  <2>2. /\ [d EXCEPT !.due = TRUE] \in Deliverables
        /\ [d EXCEPT !.due = TRUE].upto = d.upto
        /\ [d EXCEPT !.due = TRUE].rows = d.rows
    BY DEF TypeInv, TypeOK, Deliverables
  <2> QED  BY <1>2, <2>1, <2>2 DEF BackoffElapses, TypeInv, TypeOK, InHand
<1>3. CASE Kick
  <2> DEFINE kicked(d) == [d EXCEPT !.due = TRUE]
  <2>1. ASSUME NEW d \in queue
        PROVE  /\ kicked(d) \in Deliverables
               /\ kicked(d).upto \in 1 .. stored
               /\ kicked(d).rows \subseteq 1 .. kicked(d).upto
    BY DEF TypeInv, TypeOK, InHand, Deliverables
  <2>2. queue' = {kicked(d) : d \in queue}
    BY <1>3 DEF Kick
  <2> HIDE DEF kicked
  <2>3. /\ queue' \subseteq Deliverables
        /\ \A d \in queue' : d.upto \in 1 .. stored /\ d.rows \subseteq 1 .. d.upto
    BY <2>1, <2>2
  <2> QED  BY <1>3, <2>3 DEF Kick, TypeInv, TypeOK, InHand
<1>4. CASE ResetCursor
  BY <1>4 DEF ResetCursor, TypeInv, TypeOK, InHand
<1>5. CASE PurgeDeadLetters
  BY <1>5 DEF PurgeDeadLetters, TypeInv, TypeOK, InHand
<1>6. CASE SetGate
  BY <1>6 DEF SetGate, TypeInv, TypeOK, InHand
<1> QED  BY <1>1, <1>2, <1>3, <1>4, <1>5, <1>6 DEF Environment

\* No step of a pump, the operator, the clock or a producer breaks the typing.
LEMMA TypeStep == TypeInv /\ [Next]_vars => TypeInv'
<1> SUFFICES ASSUME TypeInv, [Next]_vars
             PROVE  TypeInv'
  OBVIOUS
<1>1. ASSUME NEW p \in Procs, Abort(p)
      PROVE  TypeInv'
  <2>1. faults' \in 0 .. MaxFaults
    BY <1>1, PumpAssumption DEF Abort, TypeInv, TypeOK
  <2> QED  BY <1>1, <2>1, ReturnType DEF Abort
<1>2. CASE UNCHANGED vars
  BY <1>2 DEF TypeInv, TypeOK, InHand, vars, sink, store, locals, history
<1> QED  BY <1>1, <1>2, PumpStepType, EnvironmentType DEF Next

\* The state of a pipeline is always well typed, and what a pump has in hand
\* refers only to rows the sink has assigned.
THEOREM TypeCorrect == Spec => []TypeOK
<1>1. Init => TypeInv
  BY InitType
<1>2. TypeInv /\ [Next]_vars => TypeInv'
  BY TypeStep
<1>3. TypeInv => TypeOK
  BY DEF TypeInv
<1> QED  BY <1>1, <1>2, <1>3, PTL DEF Spec
-----------------------------------------------------------------------------
(* No row lost, and rows delivered oldest first *)

\* Before the first pump nothing is delivered and nothing is in hand.
LEMMA InitCovered == Init => OldestFirst /\ Covered
BY DEF Init, OldestFirst, Covered, Reached

\* A call of the transport takes rows oldest first, rows the sink still holds
\* wherever the destination did not have them, and every row of the batch
\* when it says so.
LEMMA ContactCovers ==
  ASSUME IInv, NEW p \in Procs, NEW o \in Outcomes, Contact(p, o),
         pc[p] \in {"ship", "replay"}
  PROVE  /\ OldestFirst' /\ delivered \subseteq delivered'
         /\ delivered' \subseteq delivered \cup rows
         /\ o = "acked" => 1 .. job[p].upto \subseteq delivered'
<1> USE DEF IInv, TypeInv
<1>1. /\ job[p].rows \subseteq 1 .. job[p].upto /\ job[p].upto \in 0 .. stored
      /\ stored \in Nat
      /\ 1 .. job[p].upto \subseteq delivered \cup job[p].rows
  BY PumpAssumption DEF InHand, Covered, TypeOK
<1>2. job[p].rows \subseteq delivered \cup rows
  BY <1>1 DEF Covered
<1>3. ASSUME NEW taken \in SUBSET job[p].rows, Take(p, taken),
             \A i \in taken, j \in job[p].rows : j <= i => j \in taken
      PROVE  /\ OldestFirst' /\ delivered \subseteq delivered'
             /\ delivered' \subseteq delivered \cup rows
  <2>1. delivered' = delivered \cup taken
    BY <1>3 DEF Take
  <2>2. ASSUME NEW i \in taken, NEW j \in 1 .. i
        PROVE  j \in delivered'
    BY <1>1, <1>3, <2>1
  <2>3. OldestFirst'
    BY <2>1, <2>2 DEF OldestFirst
  <2> QED  BY <1>2, <2>1, <2>3
<1>4. CASE Take(p, IF o = "acked" THEN job[p].rows ELSE {})
  <2>1. CASE o = "acked"
    <3>1. Take(p, job[p].rows)
      BY <1>4, <2>1
    <3>2. delivered' = delivered \cup job[p].rows
      BY <3>1 DEF Take
    <3> QED  BY <1>1, <1>3, <3>1, <3>2
  <2>2. CASE o # "acked"
    <3>1. Take(p, {})
      BY <1>4, <2>2
    <3> QED  BY <1>3, <2>2, <3>1
  <2> QED  BY <2>1, <2>2
<1>5. ASSUME NEW k \in job[p].rows, Take(p, {r \in job[p].rows : r <= k}),
             o = "retry_later"
      PROVE  /\ OldestFirst' /\ delivered \subseteq delivered'
             /\ delivered' \subseteq delivered \cup rows
  <2> DEFINE taken == {r \in job[p].rows : r <= k}
  <2>1. \A i \in taken, j \in job[p].rows : j <= i => j \in taken
    BY <1>1
  <2> QED  BY <1>3, <1>5, <2>1
<1> QED  BY <1>4, <1>5 DEF Contact

\* Each step of a pump.
LEMMA PumpStepCovered ==
  ASSUME IInv, TypeInv', NEW p \in Procs, PumpStep(p)
  PROVE  OldestFirst' /\ Covered'
<1> USE PumpAssumption DEF sink, store, locals, history, Goto, Reached, IInv
<1>1. CASE PumpOne(p)
  BY <1>1 DEF PumpOne, OldestFirst, Covered, TypeInv, TypeOK
<1>2. CASE PopDue(p)
  BY <1>2 DEF PopDue, OldestFirst, Covered, TypeInv, TypeOK
<1>3. CASE DrainEnds(p)
  BY <1>3 DEF DrainEnds, OldestFirst, Covered, TypeInv, TypeOK
<1>4. CASE CountQueue(p)
  BY <1>4 DEF CountQueue, Return, NoJob, OldestFirst, Covered, TypeInv, TypeOK
<1>5. CASE GetCursor(p)
  BY <1>5 DEF GetCursor, Return, NoJob, OldestFirst, Covered, TypeInv, TypeOK
<1>6. CASE ReadBatch(p)
  BY <1>6 DEF ReadBatch, Batch, Slice, OldestFirst, Covered, TypeInv, TypeOK
<1>7. CASE SourceExhausted(p)
  BY <1>7 DEF SourceExhausted, Return, NoJob, OldestFirst, Covered, TypeInv, TypeOK
<1>8. CASE Ship(p)
  BY <1>8, ContactCovers DEF Ship, Covered, Outcomes, TypeInv, TypeOK
<1>9. CASE Replay(p)
  BY <1>9, ContactCovers DEF Replay, Covered, Outcomes, TypeInv, TypeOK
<1>10. CASE Advance(p)
  BY <1>10 DEF Advance, Forward, OldestFirst, Covered, TypeInv, TypeOK
<1>11. CASE Commit(p)
  BY <1>11 DEF Commit, Survivors, OldestFirst, Covered, InHand, TypeInv, TypeOK
<1>12. CASE Enqueue(p)
  BY <1>12 DEF Enqueue, OldestFirst, Covered, TypeInv, TypeOK
<1>13. CASE Requeue(p)
  BY <1>13 DEF Requeue, Again, OldestFirst, Covered, TypeInv, TypeOK
<1>14. CASE DeadLetter(p)
  BY <1>14 DEF DeadLetter, OldestFirst, Covered, TypeInv, TypeOK
<1>15. CASE RecordAttempt(p)
  BY <1>15 DEF RecordAttempt, Return, NoJob, OldestFirst, Covered, TypeInv, TypeOK, Jobs
<1> QED
  BY <1>1, <1>2, <1>3, <1>4, <1>5, <1>6, <1>7, <1>8, <1>9, <1>10, <1>11,
     <1>12, <1>13, <1>14, <1>15 DEF PumpStep

\* The operator's commands, the clock and a producer leave what is delivered
\* alone, and move the send record only backwards (reset-cursor).
LEMMA EnvironmentCovered ==
  ASSUME IInv, TypeInv', Environment
  PROVE  OldestFirst' /\ Covered'
<1> USE PumpAssumption DEF sink, store, locals, history, Reached, IInv
<1>1. CASE Store
  BY <1>1 DEF Store, OldestFirst, Covered, TypeInv, TypeOK
<1>2. CASE BackoffElapses
  BY <1>2 DEF BackoffElapses, OldestFirst, Covered, TypeInv, TypeOK, Deliverables
<1>3. CASE Kick
  BY <1>3 DEF Kick, OldestFirst, Covered, TypeInv, TypeOK, Deliverables
<1>4. CASE ResetCursor
  BY <1>4 DEF ResetCursor, OldestFirst, Covered, TypeInv, TypeOK
<1>5. CASE PurgeDeadLetters
  BY <1>5 DEF PurgeDeadLetters, OldestFirst, Covered
<1>6. CASE SetGate
  BY <1>6 DEF SetGate, OldestFirst, Covered
<1> QED  BY <1>1, <1>2, <1>3, <1>4, <1>5, <1>6 DEF Environment

\* Every step of the pipeline preserves the inductive invariant.
LEMMA IInvStep == IInv /\ [Next]_vars => IInv'
<1> SUFFICES ASSUME IInv, [Next]_vars
             PROVE  IInv'
  OBVIOUS
<1>1. TypeInv'
  BY TypeStep DEF IInv
<1>2. ASSUME NEW p \in Procs, Abort(p)
      PROVE  OldestFirst' /\ Covered'
  BY <1>2 DEF Abort, Return, NoJob, OldestFirst, Covered, Reached, IInv, TypeInv,
              TypeOK, Goto, sink, store
<1>3. ASSUME UNCHANGED vars
      PROVE  OldestFirst' /\ Covered'
  BY <1>3 DEF OldestFirst, Covered, Reached, IInv, vars, sink, store, locals, history
<1>4. OldestFirst' /\ Covered'
  BY <1>1, <1>2, <1>3, PumpStepCovered, EnvironmentCovered DEF Next
<1> QED  BY <1>1, <1>4 DEF IInv

\* The inductive invariant holds in every state of the pipeline.
LEMMA IInvAlways == Spec => []IInv
<1>1. Init => IInv
  BY InitType, InitCovered DEF IInv
<1> QED  BY <1>1, IInvStep, PTL DEF Spec

\* No row is lost: what the destination lacks is in the sink past the send
\* record, whatever the order of failures, crashes, resets, purges, kicks and
\* pumps of however many processes.
THEOREM RowsSurvive == Spec => []NoRowLost
<1>1. IInv => NoRowLost
  BY PumpAssumption DEF IInv, TypeInv, TypeOK, Covered, Reached, NoRowLost
<1> QED  BY <1>1, IInvAlways, PTL

\* The destination takes rows oldest first.
THEOREM RowsInOrder == Spec => []OldestFirst
<1>1. IInv => OldestFirst
  BY DEF IInv
<1> QED  BY <1>1, IInvAlways, PTL

\* The send record moves back by reset-cursor alone.
THEOREM RecordIsMonotone == Spec => RecordMovesForward
<1>1. IInv /\ [Next]_vars => [cursor' >= cursor \/ ResetCursor]_vars
  <2> SUFFICES ASSUME IInv, Next
               PROVE  cursor' >= cursor \/ ResetCursor
    OBVIOUS
  <2> USE PumpAssumption DEF IInv, TypeInv, TypeOK
  <2>1. ASSUME NEW p \in Procs, Advance(p)
        PROVE  cursor' >= cursor
    BY <2>1, ForwardIsMax DEF Advance, InHand
  <2>2. UNCHANGED cursor => cursor' >= cursor
    OBVIOUS
  <2>3. ASSUME NEW p \in Procs, PumpStep(p)
        PROVE  Advance(p) \/ UNCHANGED cursor
    BY <2>3 DEF PumpStep, PumpOne, PopDue, DrainEnds, CountQueue, GetCursor,
                ReadBatch, SourceExhausted, Ship, Replay, Commit, Enqueue, Requeue,
                DeadLetter, RecordAttempt, store
  <2>4. Environment => ResetCursor \/ UNCHANGED cursor
    BY DEF Environment, Store, BackoffElapses, Kick, PurgeDeadLetters, SetGate, store
  <2>5. ASSUME NEW p \in Procs, Abort(p)
        PROVE  UNCHANGED cursor
    BY <2>5 DEF Abort, store
  <2> QED  BY <2>1, <2>2, <2>3, <2>4, <2>5 DEF Next
<1> QED  BY <1>1, IInvAlways, PTL DEF Spec, RecordMovesForward
-----------------------------------------------------------------------------
(* The pipeline implements Delivery *)

\* A fresh pipeline is a fresh Delivery.
LEMMA InitImplements == Init => D!Init
BY DEF Init, D!Init

\* A call of the transport delivers, or changes nothing Delivery sees.
LEMMA ContactImplements ==
  ASSUME IInv, IInv', NEW p \in Procs, Ship(p) \/ Replay(p)
  PROVE  D!Deliver \/ UNCHANGED D!vars
<1> DEFINE new == delivered' \ delivered
<1>1. UNCHANGED <<stored, rows, cursor>>
  BY DEF Ship, Replay, sink, store
<1>2. /\ delivered \subseteq delivered' /\ delivered' \subseteq delivered \cup rows
      /\ OldestFirst'
  BY ContactCovers DEF Ship, Replay
<1>3. CASE new = {}
  BY <1>1, <1>2, <1>3 DEF D!vars
<1>4. CASE new # {}
  <2>1. new \in SUBSET (rows \ delivered) /\ delivered' = delivered \cup new
    BY <1>2
  <2>2. \A i \in new : 1 .. i \subseteq delivered'
    BY <1>2 DEF OldestFirst
  <2> QED  BY <1>1, <1>4, <2>1, <2>2 DEF D!Deliver
<1> QED  BY <1>3, <1>4

\* Each step of the pipeline is a step of Delivery or changes nothing it sees.
LEMMA StepImplements ==
  ASSUME IInv, IInv', [Next]_vars
  PROVE  [D!Next]_(D!vars)
<1> USE PumpAssumption DEF IInv, TypeInv, TypeOK
<1>1. ASSUME NEW p \in Procs, Ship(p) \/ Replay(p)
      PROVE  [D!Next]_(D!vars)
  BY <1>1, ContactImplements DEF D!Next
<1>2. ASSUME NEW p \in Procs, Advance(p)
      PROVE  [D!Next]_(D!vars)
  <2>1. Reached(job[p].upto) /\ job[p].upto \in 0 .. stored
    BY <1>2 DEF Advance, Covered, InHand
  <2>2. UNCHANGED <<stored, rows, delivered>>
    BY <1>2 DEF Advance, sink, history
  <2>3. CASE cursor' = cursor
    BY <2>2, <2>3 DEF D!vars
  <2>4. CASE cursor' # cursor
    <3>1. cursor' = job[p].upto /\ job[p].upto > cursor
      BY <1>2, <2>1, <2>4, ForwardIsMax DEF Advance
    <3>2. D!Acknowledge
      BY <2>1, <2>2, <3>1 DEF D!Acknowledge, Reached
    <3> QED  BY <3>2 DEF D!Next
  <2> QED  BY <2>3, <2>4
<1>3. ASSUME NEW p \in Procs, Commit(p)
      PROVE  [D!Next]_(D!vars)
  <2>1. Reached(job[p].upto) /\ job[p].upto \in 0 .. stored
    BY <1>3 DEF Commit, Covered, InHand
  <2>2. UNCHANGED <<stored, cursor, delivered>>
    BY <1>3 DEF Commit, store, history
  <2>3. CASE rows' = Survivors(job[p].upto)
    <3> DEFINE gone == rows \ rows'
    <3>1. rows' = rows \ gone
      BY <2>3 DEF Survivors
    <3>2. ASSUME NEW r \in gone
          PROVE  r \in rows /\ r \in delivered
      <4>1. r \in rows /\ r \in 1 .. stored /\ stored \in Nat /\ ~ (r > job[p].upto)
        BY <2>3 DEF Survivors
      <4>2. r \in 1 .. job[p].upto
        BY <2>1, <4>1
      <4> QED  BY <2>1, <4>1, <4>2 DEF Reached
    <3>3. gone \in SUBSET (rows \cap delivered)
      BY <3>2
    <3>4. D!Forget
      BY <2>2, <3>1, <3>3 DEF D!Forget
    <3> QED  BY <3>4 DEF D!Next
  <2>4. CASE UNCHANGED rows
    BY <2>2, <2>4 DEF D!vars
  <2> QED  BY <1>3, <2>3, <2>4 DEF Commit
<1>4. CASE Store
  BY <1>4 DEF Store, D!Next, D!Store, store, history
<1>5. CASE ResetCursor
  BY <1>5 DEF ResetCursor, D!Next, D!Rewind, sink
<1>6. CASE BackoffElapses \/ Kick \/ PurgeDeadLetters \/ SetGate
  BY <1>6 DEF BackoffElapses, Kick, PurgeDeadLetters, SetGate, D!vars, sink, store, history
<1>7. ASSUME NEW p \in Procs,
             PumpOne(p) \/ PopDue(p) \/ DrainEnds(p) \/ CountQueue(p) \/ GetCursor(p)
             \/ ReadBatch(p) \/ SourceExhausted(p) \/ Enqueue(p) \/ Requeue(p)
             \/ DeadLetter(p) \/ RecordAttempt(p) \/ Abort(p)
      PROVE  UNCHANGED D!vars
  BY <1>7 DEF PumpOne, PopDue, DrainEnds, CountQueue, GetCursor, ReadBatch,
     SourceExhausted, Enqueue, Requeue, DeadLetter, RecordAttempt, Abort,
     D!vars, sink, store, history
<1>8. CASE UNCHANGED vars
  BY <1>8 DEF vars, D!vars, sink, store, history
<1> QED
  BY <1>1, <1>2, <1>3, <1>4, <1>5, <1>6, <1>7, <1>8 DEF Next, PumpStep, Environment

\* A pump, its retries, crashes and the operator's commands together do
\* nothing module Delivery does not allow.
THEOREM PumpImplementsDelivery == Spec => Delivers
<1>1. Init => D!Init
  BY InitImplements
<1>2. IInv /\ IInv' /\ [Next]_vars => [D!Next]_(D!vars)
  BY StepImplements
<1> QED  BY <1>1, <1>2, IInvAlways, PTL DEF Spec, Delivers, D!Spec
-----------------------------------------------------------------------------
(* A hold, one process *)

\* The one batch past its check when the hold comes has one call left.
HoldInv ==
  /\ TypeOK
  /\ HoldStopsAtNextCheck
  /\ \A p \in Procs : held /\ pc[p] \in {"ship", "replay"} => allowance[p] = 1

\* A call of the transport uses up what the hold lets through, of its own
\* process only.
LEMMA ContactUsesAllowance ==
  ASSUME HoldInv, NEW p \in Procs, NEW o \in Outcomes, Contact(p, o),
         pc[p] \in {"ship", "replay"}
  PROVE  /\ \A q \in Procs : allowance'[q] >= 0
         /\ \A q \in Procs \ {p} : allowance'[q] = allowance[q]
<1>1. ASSUME NEW taken, Take(p, taken)
      PROVE  allowance' = [allowance EXCEPT ![p] = IF held /\ @ >= 0 THEN @ - 1 ELSE @]
  BY <1>1 DEF Take
<1>2. allowance' = [allowance EXCEPT ![p] = IF held /\ @ >= 0 THEN @ - 1 ELSE @]
  BY <1>1 DEF Contact
<1> QED  BY <1>2 DEF HoldInv, HoldStopsAtNextCheck, TypeOK

\* No step calls the transport but past a check made before the hold.
LEMMA HoldStep == HoldInv /\ TypeOK' /\ [Next]_vars => HoldInv'
<1> SUFFICES ASSUME HoldInv, TypeOK', [Next]_vars
             PROVE  HoldInv'
  OBVIOUS
<1> USE DEF HoldInv, HoldStopsAtNextCheck, TypeOK
<1>1. ASSUME NEW p \in Procs, Ship(p) \/ Replay(p)
      PROVE  HoldInv'
  <2>1. PICK o \in Outcomes : Contact(p, o)
    BY <1>1 DEF Ship, Replay
  <2>2. pc[p] \in {"ship", "replay"} /\ held' = held
    BY <1>1 DEF Ship, Replay
  <2>3. /\ pc'[p] \notin {"ship", "replay"}
        /\ \A q \in Procs \ {p} : pc'[q] = pc[q]
    BY <1>1 DEF Ship, Replay, Goto, Outcomes
  <2>4. /\ \A q \in Procs : allowance'[q] >= 0
        /\ \A q \in Procs \ {p} : allowance'[q] = allowance[q]
    BY <2>1, <2>2, ContactUsesAllowance
  <2> QED  BY <2>2, <2>3, <2>4
<1>2. ASSUME NEW p \in Procs,
             \/ PumpOne(p) \/ DrainEnds(p) \/ CountQueue(p) \/ GetCursor(p)
             \/ SourceExhausted(p) \/ Advance(p) \/ Commit(p) \/ Enqueue(p)
             \/ Requeue(p) \/ DeadLetter(p) \/ RecordAttempt(p) \/ Abort(p)
      PROVE  HoldInv'
  <2>1. UNCHANGED <<held, allowance>>
    BY <1>2 DEF PumpOne, DrainEnds, CountQueue, GetCursor, SourceExhausted, Advance,
                Commit, Enqueue, Requeue, DeadLetter, RecordAttempt, Abort, history
  <2>2. /\ pc'[p] \notin {"ship", "replay"}
        /\ \A q \in Procs \ {p} : pc'[q] = pc[q]
    BY <1>2 DEF PumpOne, DrainEnds, CountQueue, GetCursor, SourceExhausted, Advance,
                Commit, Enqueue, Requeue, DeadLetter, RecordAttempt, Abort, Goto,
                Return, Jobs
  <2> QED  BY <2>1, <2>2
<1>3. ASSUME NEW p \in Procs, PopDue(p) \/ ReadBatch(p)
      PROVE  HoldInv'
  BY <1>3 DEF PopDue, ReadBatch, MaySend, Goto, history
<1>4. CASE SetGate
  BY <1>4 DEF SetGate, locals
<1>5. CASE Store \/ BackoffElapses \/ Kick \/ ResetCursor \/ PurgeDeadLetters
  BY <1>5 DEF Store, BackoffElapses, Kick, ResetCursor, PurgeDeadLetters, locals, history
<1>6. CASE UNCHANGED vars
  BY <1>6 DEF vars, locals, history
<1> QED  BY <1>1, <1>2, <1>3, <1>4, <1>5, <1>6 DEF Next, PumpStep, Environment

\* A hold lets the call go that was past its check, in each process, and none
\* after it.
THEOREM HoldLetsOneGo == Spec => []HoldStopsAtNextCheck
<1>1. Init => HoldInv
  BY InitType DEF Init, HoldInv, HoldStopsAtNextCheck, TypeInv
<1>2. HoldInv => HoldStopsAtNextCheck
  BY DEF HoldInv
<1> QED  BY <1>1, <1>2, HoldStep, TypeCorrect, PTL DEF Spec

\* The rule of one process on one watermarks.db.
OneProcess == \E p : Procs = {p}

\* While the process has rows in hand, or reads the source, nothing is queued.
OneInv ==
  /\ TypeInv
  /\ \A d, e \in queue : d = e
  /\ \A p \in Procs :
       /\ pc[p] \in {"src", "read", "ship", "replay", "enqueue", "requeue", "advance",
                     "commit", "deadletter"} => queue = {}
       /\ pc[p] = "record" /\ job[p].then = "src" => queue = {}
       /\ pc[p] \in {"enqueue", "requeue"} => job[p].then # "src"

\* What a call of the transport leaves to be done.
LEMMA AnswerGoesTo ==
  ASSUME TypeOK, NEW p \in Procs, Ship(p) \/ Replay(p)
  PROVE  /\ UNCHANGED queue
         /\ pc[p] \in {"ship", "replay"}
         /\ pc'[p] \in {"advance", "enqueue", "requeue", "deadletter"}
         /\ pc'[p] \in {"enqueue", "requeue"} => job'[p].then # "src"
         /\ job'[p].rows = job[p].rows /\ job'[p].upto = job[p].upto
BY DEF TypeOK, Ship, Replay, Goto, Outcomes, store, Jobs

\* Nothing is queued beside what is in hand, and what is popped is in hand.
LEMMA OneStep ==
  ASSUME OneProcess, OneInv, TypeInv', [Next]_vars
  PROVE  OneInv'
<1>1. PICK p : Procs = {p}
  BY DEF OneProcess
<1>2. p \in Procs /\ \A q \in Procs : q = p
  BY <1>1
<1> HIDE DEF OneProcess
<1> USE <1>2 DEF OneInv
<1>3. TypeOK
  BY DEF TypeInv
<1>4. CASE Ship(p) \/ Replay(p)
  <2>1. UNCHANGED queue /\ queue = {}
    BY <1>3, <1>4, AnswerGoesTo
  <2> QED  BY <1>3, <1>4, <2>1, AnswerGoesTo
<1>5. CASE PumpOne(p) \/ DrainEnds(p) \/ CountQueue(p) \/ GetCursor(p)
           \/ SourceExhausted(p) \/ Abort(p)
  BY <1>3, <1>5 DEF PumpOne, DrainEnds, CountQueue, GetCursor, SourceExhausted, Abort,
     Return, NoJob, Goto, store, TypeOK
<1>6. CASE PopDue(p) \/ ReadBatch(p)
  BY <1>3, <1>6 DEF PopDue, ReadBatch, Goto, store, TypeOK
<1>7. CASE Advance(p) \/ Commit(p) \/ DeadLetter(p)
  BY <1>3, <1>7 DEF Advance, Commit, DeadLetter, Goto, store, TypeOK
<1>8. CASE Enqueue(p)
  BY <1>3, <1>8 DEF Enqueue, Goto, TypeOK
<1>9. CASE Requeue(p)
  BY <1>3, <1>9 DEF Requeue, Goto, TypeOK
<1>10. CASE RecordAttempt(p)
  BY <1>3, <1>10 DEF RecordAttempt, Return, NoJob, Goto, TypeOK, Jobs
<1>11. CASE Kick \/ BackoffElapses
  <2>1. UNCHANGED locals /\ (queue = {} => queue' = {})
    BY <1>11 DEF Kick, BackoffElapses
  <2>2. \A d, e \in queue' : d = e
    BY <1>11 DEF Kick, BackoffElapses
  <2> QED  BY <2>1, <2>2 DEF locals
<1>12. CASE Store \/ ResetCursor \/ PurgeDeadLetters \/ SetGate \/ UNCHANGED vars
  BY <1>12 DEF Store, ResetCursor, PurgeDeadLetters, SetGate, vars, store, locals
<1> QED
  BY <1>4, <1>5, <1>6, <1>7, <1>8, <1>9, <1>10, <1>11, <1>12
     DEF Next, PumpStep, Environment

\* With one process the queue and its hand are never both full.
LEMMA OneAlways == ASSUME OneProcess PROVE Spec => []OneInv
<1>1. Init => OneInv
  BY InitType DEF Init, OneInv
<1>2. OneInv /\ [Next]_vars => OneInv'
  BY OneProcess, OneStep, TypeStep DEF OneInv
<1> QED  BY <1>1, <1>2, PTL DEF Spec

\* One process has one batch or deliverable of the pipeline at most.
THEOREM OneBatchAtATime ==
  ASSUME OneProcess
  PROVE  Spec => []OneBatchOutstanding
<1>1. OneInv => OneBatchOutstanding
  <2> SUFFICES ASSUME OneInv
               PROVE  OneBatchOutstanding
    OBVIOUS
  <2> DEFINE busy == {p \in Procs : pc[p] \in {"ship", "enqueue", "replay", "requeue"}}
  <2>1. PICK p : Procs = {p}
    BY OneProcess DEF OneProcess
  <2>2. queue = {} \/ busy = {}
    BY DEF OneInv
  <2>3. Cardinality({}) = 0
    BY FS_EmptySet
  <2>4. \A x : Cardinality({x}) = 1
    BY FS_Singleton
  <2>5. busy = {} \/ busy = {p}
    BY <2>1
  <2>6. queue = {} \/ \E d : queue = {d}
    BY DEF OneInv
  <2>7. Cardinality(queue) \in {0, 1} /\ (queue = {} => Cardinality(queue) = 0)
    BY <2>3, <2>4, <2>6
  <2>8. Cardinality(busy) \in {0, 1} /\ (busy = {} => Cardinality(busy) = 0)
    BY <2>3, <2>4, <2>5
  <2>9. Cardinality(queue) + Cardinality(busy) <= 1
    <3> HIDE DEF busy
    <3> QED  BY <2>2, <2>7, <2>8
  <2> QED  BY <2>9 DEF OneBatchOutstanding
<1> QED  BY <1>1, OneAlways, PTL

\* Nothing the process has in hand, or queued, was delivered, and the record
\* passed it only once it was.
Undisturbed ==
  /\ dup = {}
  /\ \A d \in queue : d.rows \cap 1 .. cursor = {}
  /\ \A p \in Procs :
       /\ pc[p] # "advance" => delivered \subseteq 1 .. cursor
       /\ pc[p] = "advance" => delivered \subseteq 1 .. cursor \cup 1 .. job[p].upto
       /\ pc[p] \in {"ship", "replay", "enqueue", "requeue"} =>
            job[p].rows \cap 1 .. cursor = {}
       /\ pc[p] = "read" => from[p] = cursor

OnceInv == OneInv /\ (faults + resets = 0 => Undisturbed)

\* An answer that is not lost tells what was delivered.
LEMMA ContactIsOnce ==
  ASSUME TypeInv, Undisturbed, NEW p \in Procs, NEW o \in Outcomes, Contact(p, o),
         pc[p] \in {"ship", "replay"}, faults' = faults
  PROVE  /\ dup' = {}
         /\ delivered' \subseteq 1 .. cursor \cup 1 .. job[p].upto
         /\ o # "acked" => delivered' = delivered
<1>1. Take(p, IF o = "acked" THEN job[p].rows ELSE {})
  BY PumpAssumption DEF Contact, TypeInv, TypeOK
<1>2. job[p].rows \subseteq 1 .. job[p].upto /\ delivered \subseteq 1 .. cursor
      /\ job[p].rows \cap 1 .. cursor = {} /\ dup = {}
  BY DEF TypeInv, InHand, Undisturbed
<1> QED  BY <1>1, <1>2 DEF Take

\* Rows come in hand from past the record only, and no second batch is there
\* whose rows the record could pass.
LEMMA OnceStep ==
  ASSUME OneProcess, OnceInv, OneInv', [Next]_vars, (faults + resets = 0)'
  PROVE  Undisturbed'
<1>1. PICK p : Procs = {p}
  BY DEF OneProcess
<1>2. p \in Procs /\ \A q \in Procs : q = p
  BY <1>1
<1>3. TypeInv /\ TypeOK /\ OneInv
  BY DEF OnceInv, OneInv, TypeInv
<1>4. faults \in Nat /\ resets \in Nat
  BY <1>3, PumpAssumption DEF TypeOK
<1>5. cursor \in Nat /\ cursor' \in Nat
  BY PumpAssumption, <1>3 DEF OneInv, TypeInv, TypeOK
<1> HIDE DEF OneProcess
<1> DEFINE calm == faults = 0 /\ resets = 0 /\ UNCHANGED <<faults, resets>> /\ Undisturbed
<1>6. ASSUME UNCHANGED <<faults, resets>>
      PROVE  calm
  BY <1>4, <1>6 DEF OnceInv
<1>7. CASE Ship(p) \/ Replay(p)
  <2>1. PICK o \in Outcomes :
          /\ Contact(p, o)
          /\ pc' = [pc EXCEPT ![p] =
               IF o = "acked" THEN "advance" ELSE pc'[p]]
    BY <1>3, <1>7 DEF Ship, Replay, Goto, Outcomes, TypeOK
  <2>2. resets' = resets /\ UNCHANGED <<cursor, from>>
    BY <1>7 DEF Ship, Replay, store
  <2>3. faults' = faults
    <3>1. faults' = faults \/ faults' = faults + 1
      BY <2>1 DEF Contact
    <3>2. resets' \in Nat
      BY <1>4, <2>2
    <3> QED  BY <1>4, <3>1, <3>2
  <2>4. calm
    BY <1>6, <2>2, <2>3
  <2>5. /\ UNCHANGED queue /\ pc[p] \in {"ship", "replay"}
        /\ pc'[p] \in {"advance", "enqueue", "requeue", "deadletter"}
        /\ job'[p].rows = job[p].rows /\ job'[p].upto = job[p].upto
    BY <1>2, <1>3, <1>7, AnswerGoesTo
  <2>6. /\ dup' = {}
        /\ delivered' \subseteq 1 .. cursor \cup 1 .. job[p].upto
        /\ o # "acked" => delivered' = delivered
    BY <1>2, <1>3, <2>1, <2>3, <2>4, <2>5, ContactIsOnce
  <2>7. o = "acked" => pc'[p] = "advance"
    BY <1>2, <1>3, <2>1 DEF TypeOK
  <2> QED  BY <1>2, <2>2, <2>4, <2>5, <2>6, <2>7 DEF Undisturbed
<1>8. CASE Abort(p)
  BY <1>4, <1>8 DEF Abort
<1>9. CASE ResetCursor
  BY <1>4, <1>9 DEF ResetCursor
<1>10. CASE PumpOne(p) \/ DrainEnds(p) \/ CountQueue(p) \/ GetCursor(p) \/ SourceExhausted(p)
  <2>1. calm /\ UNCHANGED <<cursor, queue, dup, delivered>>
    BY <1>6, <1>10
       DEF PumpOne, DrainEnds, CountQueue, GetCursor, SourceExhausted, store, history
  <2>2. /\ pc[p] # "advance"
        /\ pc'[p] \in {"drain", "count", "src", "read", "idle"}
        /\ pc'[p] = "read" => from'[p] = cursor
    BY <1>2, <1>3, <1>10
       DEF PumpOne, DrainEnds, CountQueue, GetCursor, SourceExhausted, Return, Goto, TypeOK
  <2> QED  BY <1>2, <2>1, <2>2 DEF Undisturbed
<1>11. CASE PopDue(p)
  BY <1>2, <1>3, <1>6, <1>11 DEF PopDue, Goto, history, Undisturbed, TypeOK
<1>12. CASE ReadBatch(p)
  BY <1>2, <1>3, <1>5, <1>6, <1>12
     DEF ReadBatch, Batch, Slice, Goto, store, history, Undisturbed, TypeOK
<1>13. CASE Advance(p)
  <2>1. queue = {} /\ calm /\ pc[p] = "advance" /\ UNCHANGED <<queue, dup, delivered>>
    BY <1>2, <1>3, <1>6, <1>13 DEF Advance, OneInv, history
  <2>2. delivered \subseteq 1 .. cursor'
    <3>1. job[p].upto \in Nat
      BY <1>2, <1>3, PumpAssumption DEF TypeOK, Jobs
    <3>2. cursor' >= cursor /\ cursor' >= job[p].upto
      BY <1>5, <1>13, <3>1 DEF Advance, Forward
    <3> QED  BY <1>2, <1>5, <2>1, <3>1, <3>2 DEF Undisturbed
  <2>3. pc'[p] = "commit"
    BY <1>2, <1>3, <1>13 DEF Advance, Goto, TypeOK
  <2> QED  BY <1>2, <2>1, <2>2, <2>3 DEF Undisturbed
<1>14. CASE Commit(p) \/ DeadLetter(p)
  BY <1>2, <1>3, <1>6, <1>14 DEF Commit, DeadLetter, Goto, store, history, Undisturbed, TypeOK
<1>15. CASE Enqueue(p) \/ Requeue(p)
  <2>1. calm /\ UNCHANGED <<cursor, dup, delivered>>
    BY <1>6, <1>15 DEF Enqueue, Requeue, history
  <2>2. pc[p] \in {"enqueue", "requeue"} /\ pc'[p] = "record"
    BY <1>2, <1>3, <1>15 DEF Enqueue, Requeue, Goto, TypeOK
  <2>3. \A d \in queue' : d \in queue \/ d.rows = job[p].rows
    BY <1>15 DEF Enqueue, Requeue, Again
  <2> QED  BY <1>2, <2>1, <2>2, <2>3 DEF Undisturbed
<1>16. CASE RecordAttempt(p)
  BY <1>2, <1>3, <1>6, <1>16
     DEF RecordAttempt, Return, NoJob, Goto, history, Undisturbed, TypeOK, Jobs
<1>17. CASE Kick \/ BackoffElapses
  <2>1. UNCHANGED <<locals, cursor, history>> /\ calm
    BY <1>6, <1>17 DEF Kick, BackoffElapses, history
  <2>2. \A d \in queue' : \E e \in queue : d.rows = e.rows
    BY <1>3, <1>17 DEF Kick, BackoffElapses, TypeOK, Deliverables
  <2> QED  BY <2>1, <2>2 DEF locals, history, Undisturbed
<1>18. CASE Store \/ PurgeDeadLetters \/ SetGate \/ UNCHANGED vars
  BY <1>6, <1>18 DEF Store, PurgeDeadLetters, SetGate, vars, store, locals, history, Undisturbed
<1> QED
  BY <1>1, <1>7, <1>8, <1>9, <1>10, <1>11, <1>12, <1>13, <1>14, <1>15, <1>16, <1>17, <1>18
     DEF Next, PumpStep, Environment

\* One process sends no row twice until a crash, a lost answer or an
\* operator's rewind.
THEOREM OnceUnlessDisrupted ==
  ASSUME OneProcess
  PROVE  Spec => []ExactlyOnceUnlessDisrupted
<1>1. Init => OnceInv
  BY InitType DEF Init, OnceInv, OneInv, Undisturbed
<1>2. OnceInv /\ OneInv' /\ [Next]_vars => OnceInv'
  BY OneProcess, OnceStep DEF OnceInv
<1>3. OnceInv => ExactlyOnceUnlessDisrupted
  <2> SUFFICES ASSUME OnceInv, faults + resets = 0
               PROVE  dup = {}
    <3>1. OnceInv => faults \in Nat /\ resets \in Nat
      BY PumpAssumption DEF OnceInv, OneInv, TypeInv, TypeOK
    <3> QED  BY <3>1 DEF ExactlyOnceUnlessDisrupted
  <2> QED  BY DEF OnceInv, Undisturbed
<1> QED  BY <1>1, <1>2, <1>3, OneAlways, OneProcess, PTL DEF Spec
=============================================================================
