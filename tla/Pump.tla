-------------------------------- MODULE Pump --------------------------------
(***************************************************************************)
(* Uploader.pump for one pipeline (core.py): replay the due deliverables,  *)
(* then ship what the source holds past the send record, with the          *)
(* watermark store (watermark/sqlite.py) and the row queue of              *)
(* sources/sqlite.py it works on.  Each step below is one database         *)
(* transaction or one call to the transport, so a crash, an exception or   *)
(* another process can come between any two of them.                       *)
(*                                                                         *)
(* Procs are the processes pumping this pipeline: one when the operator    *)
(* follows the rule "one process owns one watermarks.db", two when not     *)
(* (advance_cursor is written to survive that).                            *)
(*                                                                         *)
(* Abstractions.  A batch is the set of its row ids and a cursor is an     *)
(* id (0: no send record stored).  A deliverable's next_attempt_at is the  *)
(* flag `due', which elapses at an arbitrary moment after it is set; the   *)
(* order among several due deliverables is therefore left open.  Fixing    *)
(* `now' at the start of a pump only delays a pop, so it is left out.  No  *)
(* transport of the repository returns partial_ack, so that outcome is     *)
(* left out.  An exception that unwinds the pump ends it where a crash     *)
(* would: both are Abort.  The scope of the queue query (producer, schema, *)
(* dedup, start_at) is module SqliteSource.                                *)
(***************************************************************************)
EXTENDS Integers, FiniteSets

CONSTANTS
  Procs,           \* processes that pump the pipeline
  Ids,             \* deliverable ids (AUTOINCREMENT: never two live alike)
  MaxId,           \* bound on the rows producers store
  Limit,           \* min(batch_limit, the transport's max_records)
  Budget,          \* max_records_per_pump; 0 stands for None
  MaxAttempts,     \* RetryPolicy.max_attempts
  DeleteOnCommit,  \* SqliteSource.delete_on_commit
  MaxFaults,       \* bound on crashes and on answers lost after delivery
  MaxResets        \* bound on `hs-uploader reset-cursor'

ASSUME PumpAssumption ==
  /\ MaxId \in Nat /\ Limit \in Nat \ {0} /\ Budget \in Nat
  /\ MaxAttempts \in Nat \ {0} /\ DeleteOnCommit \in BOOLEAN
  /\ MaxFaults \in Nat /\ MaxResets \in Nat

VARIABLES
  stored, rows,          \* the sink: highest id assigned, ids present
  cursor,                \* the send record of the pipeline's key
  queue,                 \* the deliverables table
  dead,                  \* rows with a dead letter in the store
  lastSend,              \* cursor_after of the newest attempt logged "acked"
  held,                  \* what the gate answers
  pc, job, from, shipped, \* each process: step, work in hand, cursor read,
                         \* records shipped in this pump
  delivered, dup,        \* history: rows the destination took, took twice
  allowance,             \* history: calls of the transport let through under a hold
  faults, resets         \* history: disruptions so far

sink == <<stored, rows>>
store == <<cursor, queue, dead, lastSend>>
locals == <<pc, job, from, shipped>>
history == <<delivered, dup, allowance, faults, resets>>
vars == <<sink, store, held, locals, history>>

RowIds == 1 .. MaxId
Outcomes == {"acked", "retry_later", "permanent"}
Jobs == [id : Ids \cup {0}, upto : 0 .. MaxId, rows : SUBSET RowIds,
         attempts : Nat, outcome : Outcomes, then : {"drain", "count", "src", "idle"}]
NoJob == [id |-> 0, upto |-> 0, rows |-> {}, attempts |-> 0,
          outcome |-> "retry_later", then |-> "idle"]
Deliverables == [id : Ids, upto : RowIds, rows : SUBSET RowIds,
                 attempts : 0 .. MaxAttempts - 1, due : BOOLEAN]
Steps == {"idle", "drain", "replay", "count", "src", "read", "ship",
          "advance", "commit", "requeue", "enqueue", "deadletter", "record"}

TypeOK ==
  /\ stored \in 0 .. MaxId /\ rows \subseteq 1 .. stored
  /\ cursor \in 0 .. stored /\ lastSend \in 0 .. stored
  /\ queue \subseteq Deliverables
  /\ dead \subseteq RowIds /\ held \in BOOLEAN
  /\ pc \in [Procs -> Steps] /\ job \in [Procs -> Jobs]
  /\ from \in [Procs -> 0 .. MaxId] /\ shipped \in [Procs -> Nat]
  /\ delivered \subseteq 1 .. stored /\ dup \subseteq delivered
  /\ allowance \in [Procs -> -1 .. 1]
  /\ faults \in 0 .. MaxFaults /\ resets \in 0 .. MaxResets

Init ==
  /\ stored = 0 /\ rows = {}
  /\ cursor = 0 /\ queue = {} /\ dead = {} /\ lastSend = 0
  /\ held \in BOOLEAN
  /\ pc = [p \in Procs |-> "idle"] /\ job = [p \in Procs |-> NoJob]
  /\ from = [p \in Procs |-> 0] /\ shipped = [p \in Procs |-> 0]
  /\ delivered = {} /\ dup = {} /\ allowance = [p \in Procs |-> 0]
  /\ faults = 0 /\ resets = 0

\* _may_send: a gate that raises holds, like one that answers no.
MaySendAlways == TRUE
MaySend == ~held

Goto(p, step) == pc' = [pc EXCEPT ![p] = step]

\* The pump returns, or its process dies: what it held in memory is gone.
Return(p) ==
  /\ Goto(p, "idle")
  /\ job' = [job EXCEPT ![p] = NoJob]
  /\ from' = [from EXCEPT ![p] = 0]
  /\ shipped' = [shipped EXCEPT ![p] = 0]
-----------------------------------------------------------------------------
(* _pump_one and _drain_deliverables *)

\* The gate is asked first; a held pipeline returns without work.
PumpOne(p) ==
  /\ pc[p] = "idle" /\ MaySend
  /\ Goto(p, "drain")
  /\ UNCHANGED <<sink, store, held, job, from, shipped, history>>

\* The row leaves the table in the transaction that finds it, before the
\* replay.
PopDue(p) ==
  /\ pc[p] = "drain" /\ MaySend
  /\ \E d \in queue :
       /\ d.due
       /\ queue' = queue \ {d}
       /\ job' = [job EXCEPT ![p] =
            [id |-> d.id, upto |-> d.upto, rows |-> d.rows,
             attempts |-> d.attempts, outcome |-> "retry_later", then |-> "drain"]]
  /\ Goto(p, "replay")
  /\ UNCHANGED <<sink, cursor, dead, lastSend, held, from, shipped, history>>

DrainEnds(p) ==
  /\ pc[p] = "drain"
  /\ ~MaySend \/ \A d \in queue : ~d.due
  /\ Goto(p, "count")
  /\ UNCHANGED <<sink, store, held, job, from, shipped, history>>

\* While a deliverable waits, the source stays untouched.
CountQueueIgnored(p) ==
  /\ pc[p] = "count"
  /\ Goto(p, "src")
  /\ UNCHANGED <<sink, store, held, job, from, shipped, history>>
CountQueue(p) ==
  /\ pc[p] = "count"
  /\ \/ queue = {} /\ Goto(p, "src") /\ UNCHANGED <<job, from, shipped>>
     \/ queue # {} /\ Return(p)
  /\ UNCHANGED <<sink, store, held, history>>
-----------------------------------------------------------------------------
(* _drain_source *)

GetCursor(p) ==
  /\ pc[p] = "src"
  /\ \/ ~MaySend /\ Return(p)
     \/ /\ MaySend
        /\ from' = [from EXCEPT ![p] = cursor]
        /\ Goto(p, "read")
        /\ UNCHANGED <<job, shipped>>
  /\ UNCHANGED <<sink, store, held, history>>

\* The first Limit rows past `after', by their last id.
SliceNewest(after, upto) == {r \in rows : after < r /\ r = upto}
Slice(after, upto) == {r \in rows : after < r /\ r <= upto}
IsBatchEnd(after, upto) ==
  /\ upto \in rows /\ after < upto
  /\ \/ Cardinality(Slice(after, upto)) = Limit
     \/ /\ Cardinality(Slice(after, upto)) < Limit
        /\ \A r \in rows : r <= upto
Batch(after, upto) ==
  [id |-> 0, upto |-> upto, rows |-> Slice(after, upto), attempts |-> 0,
   outcome |-> "retry_later", then |-> "idle"]

ReadBatch(p) ==
  /\ pc[p] = "read" /\ MaySend
  /\ \E upto \in rows :
       /\ IsBatchEnd(from[p], upto)
       /\ job' = [job EXCEPT ![p] = Batch(from[p], upto)]
  /\ Goto(p, "ship")
  /\ UNCHANGED <<sink, store, held, from, shipped, history>>

\* No row past the cursor, or the gate holds: the pump is over.
SourceExhaustedRereads(p) ==
  /\ pc[p] = "read"
  /\ ~MaySend \/ \A r \in rows : r <= from[p]
  /\ Goto(p, "src")
  /\ UNCHANGED <<sink, store, held, job, from, shipped, history>>
SourceExhausted(p) ==
  /\ pc[p] = "read"
  /\ ~MaySend \/ \A r \in rows : r <= from[p]
  /\ Return(p)
  /\ UNCHANGED <<sink, store, held, history>>
-----------------------------------------------------------------------------
(* Transport.ship and Transport.replay *)

\* One call of the transport, the destination taking these rows in it.
Take(p, taken) ==
  /\ delivered' = delivered \cup taken
  /\ dup' = dup \cup (delivered \cap taken)
  /\ allowance' = [allowance EXCEPT ![p] = IF held /\ @ >= 0 THEN @ - 1 ELSE @]

\* A retry_later may hide a delivery: the first chunks, or all of them, went
\* out and the answer was lost.
Contact(p, outcome) ==
  \/ /\ Take(p, IF outcome = "acked" THEN job[p].rows ELSE {})
     /\ UNCHANGED faults
  \/ /\ outcome = "retry_later" /\ faults < MaxFaults
     /\ \E k \in job[p].rows : Take(p, {r \in job[p].rows : r <= k})
     /\ faults' = faults + 1

\* After an ack a budget lets the drain read on; after a failure nothing does.
Ship(p) ==
  /\ pc[p] = "ship"
  /\ shipped' = [shipped EXCEPT ![p] = @ + Cardinality(job[p].rows)]
  /\ \E o \in Outcomes :
       /\ Contact(p, o)
       /\ Goto(p, CASE o = "acked" -> "advance"
                    [] o = "retry_later" -> "enqueue"
                    [] o = "permanent" -> "deadletter")
       /\ job' = [job EXCEPT ![p].outcome = o,
                    ![p].then = IF o = "acked" /\ shipped'[p] < Budget
                                THEN "src" ELSE "idle"]
  /\ UNCHANGED <<sink, store, held, from, resets>>

\* After a retry_later the loop breaks, requeued or dead-lettered alike.
ExhaustedLate(p) == job[p].attempts >= MaxAttempts
Exhausted(p) == job[p].attempts + 1 >= MaxAttempts
Replay(p) ==
  /\ pc[p] = "replay"
  /\ \E o \in Outcomes :
       /\ Contact(p, o)
       /\ Goto(p, CASE o = "acked" -> "advance"
                    [] o = "retry_later" /\ ~Exhausted(p) -> "requeue"
                    [] OTHER -> "deadletter")
       /\ job' = [job EXCEPT ![p].outcome = o,
                    ![p].then = IF o = "retry_later" THEN "count" ELSE "drain"]
  /\ UNCHANGED <<sink, store, held, from, shipped, resets>>
-----------------------------------------------------------------------------
(* _handle_first_attempt and _handle_outcome: one transaction per step *)

\* advance_cursor reads, compares and writes under BEGIN IMMEDIATE, and
\* moves the record forward only.
ForwardLastWriter(new) == new
Forward(new) == IF new > cursor THEN new ELSE cursor
Advance(p) ==
  /\ pc[p] = "advance"
  /\ cursor' = Forward(job[p].upto)
  /\ Goto(p, "commit")
  /\ UNCHANGED <<sink, queue, dead, lastSend, held, job, from, shipped, history>>

\* A DELETE that fails is logged and swallowed.
SurvivorsNone(upto) == {}
Survivors(upto) == {r \in rows : r > upto}
Commit(p) ==
  /\ pc[p] = "commit"
  /\ \/ DeleteOnCommit /\ rows' = Survivors(job[p].upto)
     \/ UNCHANGED rows
  /\ Goto(p, "record")
  /\ UNCHANGED <<stored, store, held, job, from, shipped, history>>

\* The ids no row of the table and no process holds.
FreeIds == Ids \ ({d.id : d \in queue} \cup {job[p].id : p \in Procs})

\* A deliverable is what it advances the cursor to: a second one for the
\* same cursor is not stored.
Enqueue(p) ==
  /\ pc[p] = "enqueue"
  /\ \/ /\ \E d \in queue : d.upto = job[p].upto
        /\ UNCHANGED queue
     \/ /\ \A d \in queue : d.upto # job[p].upto
        /\ \E i \in FreeIds :
             queue' = queue \cup
               {[id |-> i, upto |-> job[p].upto, rows |-> job[p].rows,
                 attempts |-> 0, due |-> FALSE]}
  /\ Goto(p, "record")
  /\ UNCHANGED <<sink, cursor, dead, lastSend, held, job, from, shipped, history>>

\* The popped row goes back whole, under its old id.
AgainWithoutCursor(p) ==
  [id |-> job[p].id, upto |-> 0, rows |-> job[p].rows,
   attempts |-> job[p].attempts + 1, due |-> FALSE]
Again(p) == [id |-> job[p].id, upto |-> job[p].upto, rows |-> job[p].rows,
             attempts |-> job[p].attempts + 1, due |-> FALSE]
Requeue(p) ==
  /\ pc[p] = "requeue"
  /\ queue' = queue \cup {Again(p)}
  /\ Goto(p, "record")
  /\ UNCHANGED <<sink, cursor, dead, lastSend, held, job, from, shipped, history>>

\* The send record stays where it was.
DeadLetter(p) ==
  /\ pc[p] = "deadletter"
  /\ dead' = dead \cup job[p].rows
  /\ Goto(p, "record")
  /\ UNCHANGED <<sink, cursor, queue, lastSend, held, job, from, shipped, history>>

LastSend(p) == IF job[p].outcome = "acked" THEN job[p].upto ELSE lastSend
RecordAttempt(p) ==
  /\ pc[p] = "record"
  /\ lastSend' = LastSend(p)
  /\ IF job[p].then = "idle"
     THEN Return(p)
     ELSE Goto(p, job[p].then) /\ job' = [job EXCEPT ![p] = NoJob]
          /\ UNCHANGED <<from, shipped>>
  /\ UNCHANGED <<sink, cursor, queue, dead, held, history>>
-----------------------------------------------------------------------------
(* The rest of the world *)

\* Writer.flush commits one more row.
Store ==
  /\ stored < MaxId
  /\ stored' = stored + 1
  /\ rows' = rows \cup {stored + 1}
  /\ UNCHANGED <<store, held, locals, history>>

\* The next_attempt_at of a deliverable passes.
BackoffElapses ==
  /\ \E d \in queue : ~d.due /\ queue' = (queue \ {d}) \cup {[d EXCEPT !.due = TRUE]}
  /\ UNCHANGED <<sink, cursor, dead, lastSend, held, locals, history>>

\* `hs-uploader kick': every deliverable is due now.
Kick ==
  /\ \E d \in queue : ~d.due
  /\ queue' = {[d EXCEPT !.due = TRUE] : d \in queue}
  /\ UNCHANGED <<sink, cursor, dead, lastSend, held, locals, history>>

\* `hs-uploader reset-cursor': the next pump starts from the oldest row.
ResetCursor ==
  /\ cursor > 0 /\ resets < MaxResets
  /\ cursor' = 0 /\ resets' = resets + 1
  /\ UNCHANGED <<sink, queue, dead, lastSend, held, locals, delivered, dup,
                 allowance, faults>>

\* `hs-uploader purge-dead-letters', of every dead letter or of some.
PurgeDeadLetters ==
  /\ \E S \in SUBSET dead : S # {} /\ dead' = dead \ S
  /\ UNCHANGED <<sink, cursor, queue, lastSend, held, locals, history>>

\* An operator moves the client's switch.
SetGate ==
  /\ held' = ~held
  /\ allowance' = [p \in Procs |-> IF pc[p] \in {"ship", "replay"} THEN 1 ELSE 0]
  /\ UNCHANGED <<sink, store, locals, delivered, dup, faults, resets>>

\* A crash, a kill, or an exception that unwinds the pump.
Abort(p) ==
  /\ pc[p] # "idle" /\ faults < MaxFaults
  /\ Return(p)
  /\ faults' = faults + 1
  /\ UNCHANGED <<sink, store, held, delivered, dup, allowance, resets>>
-----------------------------------------------------------------------------
PumpStep(p) ==
  \/ PumpOne(p) \/ PopDue(p) \/ DrainEnds(p) \/ CountQueue(p)
  \/ GetCursor(p) \/ ReadBatch(p) \/ SourceExhausted(p) \/ Ship(p) \/ Replay(p)
  \/ Advance(p) \/ Commit(p) \/ Enqueue(p) \/ Requeue(p) \/ DeadLetter(p)
  \/ RecordAttempt(p)

Environment ==
  \/ Store \/ BackoffElapses \/ Kick \/ ResetCursor \/ PurgeDeadLetters
  \/ SetGate

Next == (\E p \in Procs : PumpStep(p) \/ Abort(p)) \/ Environment

Spec == Init /\ [][Next]_vars

\* The daemon pumps every interval and joins every pump; each call of the
\* transport returns; a backoff elapses; and a destination reached again and
\* again takes a batch some time.
Fairness ==
  /\ \A p \in Procs : WF_vars(PumpStep(p))
  /\ \A p \in Procs : SF_vars((Ship(p) \/ Replay(p)) /\ pc'[p] = "advance")
  /\ WF_vars(BackoffElapses)

LiveSpec == Spec /\ Fairness
-----------------------------------------------------------------------------
(* Properties *)

\* No row is lost: whatever the sequence of failures, crashes, resets and
\* pumps, a row the destination does not have is still in the sink and still
\* past the send record, so the next pump reads it again.
NoRowLost ==
  \A i \in 1 .. stored : i \in delivered \/ (i \in rows /\ i > cursor)

\* Rows reach the destination in id order: none is taken before an older one.
OldestFirst == \A i \in delivered : 1 .. i \subseteq delivered

\* A pipeline pumped by one process sends a row twice only after a crash, an
\* answer lost after delivery, or an operator's rewind.
ExactlyOnceUnlessDisrupted == dup # {} => faults + resets > 0

\* One process has at most one deliverable of the pipeline in the world,
\* queued or in hand, and no fresh batch beside it: the retry storm of
\* issue 4 (one cycle queued 1176 times) cannot build up.
OneBatchOutstanding ==
  LET busy == {p \in Procs : pc[p] \in {"ship", "enqueue", "replay", "requeue"}}
  IN Cardinality(queue) + Cardinality(busy) <= 1

\* A hold that arrives in the middle of a pump lets through the one batch or
\* retry already past its check, and nothing after it.
HoldStopsAtNextCheck == \A p \in Procs : allowance[p] >= 0

\* A step moves the send record back only by the operator's reset-cursor,
\* whichever process acknowledges last.
RecordMovesForward == [][cursor' >= cursor \/ ResetCursor]_vars

\* What the pipeline promises.
D == INSTANCE Delivery WITH kept <- rows, record <- cursor
Delivers == D!Spec

\* Every stored row reaches the destination, dead letters or not, once the
\* operator leaves the switch at upload: nothing is given up on for good.
EveryRowDelivered ==
  <>[]~held => \A i \in RowIds : (i <= stored) ~> (i \in delivered)

\* Every pump returns.
EveryPumpReturns == \A p \in Procs : (pc[p] # "idle") ~> (pc[p] = "idle")
=============================================================================
