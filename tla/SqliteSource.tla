---------------------------- MODULE SqliteSource ----------------------------
(***************************************************************************)
(* Several pipelines reading one queue of the sink (sources/sqlite.py):    *)
(* which rows of (target_db, target_table) each one selects, how far its   *)
(* record then moves, and which rows its commit deletes.                   *)
(*                                                                         *)
(* A row is a member of Kinds: the producer its writer named ("" when      *)
(* none), the client D12 infers from its payload, the local mark, whether  *)
(* its schema_version is accepted, its WSPR cycle, and for the dedup query *)
(* its partition and its rank.  Its id is its place in log (AUTOINCREMENT, *)
(* one writer transaction at a time).                                      *)
(*                                                                         *)
(* A pump is four steps (read, ship, advance, commit); retries inside one  *)
(* are module Pump's, so here a batch that is not acked is only dropped.   *)
(* A step that raises ends the pump and the daemon goes on.  Payloads are  *)
(* json.dumps output, so none is corrupt.  Health only reports; nothing    *)
(* reads it.  The ceiling is what ceiling_provider returned last; it never *)
(* falls (module WsprCycle).                                               *)
(***************************************************************************)
EXTENDS Integers, Sequences, FiniteSets, FiniteSetsExt

CONSTANTS
  Pipes,        \* the pipelines; they live in one process
  Conf,         \* each one's source: producer, deletes, anchored, ceiled, dedup
  Kinds,        \* the rows producers write
  OldSinks,     \* whether writers older than v3.70 create the sink
  Limit,        \* the batch limit
  MaxRows,      \* bound on the rows stored
  MaxCycle,     \* the last WSPR cycle
  MaxRestarts   \* bound on restarts of the process

None == -1
Unscoped == ""    \* a source with no producer; on a row, none named

ASSUME SourceAssumption ==
  /\ Limit \in Nat \ {0} /\ MaxRows \in Nat /\ MaxCycle \in Nat
  /\ MaxRestarts \in Nat /\ OldSinks \in BOOLEAN
  /\ \A q \in Pipes : {Conf[q].deletes, Conf[q].anchored, Conf[q].ceiled,
                       Conf[q].dedup} \subseteq BOOLEAN
  /\ \A k \in Kinds : {k.local, k.accepted} \subseteq BOOLEAN /\ {k.cycle, k.snr} \subseteq Int

VARIABLES
  log, present,         \* the sink: every row stored so far, ids still there
  schema,               \* pending_uploads: absent, old (no producer, no local), new
  record,               \* watermark store: each pipeline's send record
  ceiling,              \* newest complete WSPR cycle
  anchor,               \* memory: _start_at_cursor
  probe,                \* memory: the schema a connection saw when it probed
  batch,                \* memory: the batch in hand
  sent,                 \* history: ids each pipeline's destination took
  start,                \* history: where each pipeline first began to read
  restarts,             \* history: restarts so far
  lost                  \* history: ids whose last delivery was never recorded

queue == <<log, present, schema>>
memory == <<anchor, probe, batch>>
history == <<sent, start, restarts, lost>>
vars == <<queue, record, ceiling, memory, history>>

Ids == 1 .. Len(log)
NoBatch == [step |-> "none", upto |-> 0, ids |-> {}]
Batches == [step : {"none", "read", "acked", "advanced"},
            upto : 0 .. MaxRows, ids : SUBSET (1 .. MaxRows)]

TypeOK ==
  /\ log \in Seq(Kinds) /\ Len(log) <= MaxRows /\ present \subseteq Ids
  /\ schema \in {"absent", "old", "new"}
  /\ record \in [Pipes -> None .. MaxRows] /\ ceiling \in 0 .. MaxCycle
  /\ anchor \in [Pipes -> None .. MaxRows]
  /\ probe \in [Pipes -> {"none", "old", "new"}]
  /\ batch \in [Pipes -> Batches]
  /\ sent \in [Pipes -> SUBSET Ids] /\ start \in [Pipes -> None .. MaxRows]
  /\ restarts \in 0 .. MaxRestarts /\ lost \in [Pipes -> SUBSET Ids]

Init ==
  /\ log = <<>> /\ present = {}
  /\ schema = "absent"
  /\ record = [q \in Pipes |-> None] /\ ceiling = 0
  /\ anchor = [q \in Pipes |-> None] /\ probe = [q \in Pipes |-> "none"]
  /\ batch = [q \in Pipes |-> NoBatch]
  /\ sent = [q \in Pipes |-> {}] /\ lost = sent /\ restarts = 0
  /\ start = [q \in Pipes |-> IF Conf[q].anchored THEN None ELSE 0]
-----------------------------------------------------------------------------
(* The clauses of the queries *)

\* _scope_clauses: with the producer column a row goes by the name on it and
\* only an unnamed one by D12; without the column every row goes by D12.
InScope(q, k, seen) ==
  \/ Conf[q].producer = Unscoped
  \/ Conf[q].producer = k.d12 /\ (seen = "old" \/ k.producer = "")
  \/ Conf[q].producer = k.producer /\ seen = "new"

\* LocalRowFilter: `local = 0' only where the probe saw the column.
MayTouch(q, k, seen) == InScope(q, k, seen) /\ (seen = "new" => ~k.local)

\* What the query sees before the cursor and the dedup ranking cut it.
Visible(q, seen) ==
  {i \in present : /\ MayTouch(q, log[i], seen)
                   /\ log[i].accepted
                   /\ Conf[q].ceiled => log[i].cycle <= ceiling}

\* _build_dedup_query: the best row of a partition, once, and only while the
\* cursor has passed no row of that partition.
Rival(i, j) == log[i].spot = log[j].spot
Beats(i, j) == log[i].snr > log[j].snr \/ (log[i].snr = log[j].snr /\ i < j)
WinnersOnly(seen_rows, after) ==
  {i \in seen_rows : i > after /\ \A j \in seen_rows : Rival(i, j) /\ i # j => Beats(i, j)}
Winners(seen_rows, after) ==
  {i \in seen_rows : \A j \in seen_rows : Rival(i, j) => j > after /\ (i # j => Beats(i, j))}

Selected(q, after, seen) ==
  IF Conf[q].dedup THEN Winners(Visible(q, seen), after)
                   ELSE {i \in Visible(q, seen) : i > after}

\* ORDER BY id LIMIT.
FirstOf(S) == {i \in S : Cardinality({j \in S : j <= i}) <= Limit}

\* _present_position: the highest id in scope, whatever its version or cycle.
PresentPosition(q, seen) == Max({0} \cup {i \in present : MayTouch(q, log[i], seen)})
-----------------------------------------------------------------------------
(* A pump of one pipeline *)

\* The cursor iter_batches reads after: the record; without one, the anchor
\* fixed by the first read of this process, or the start of the queue.
AfterDrifts(q, seen) ==
  IF record[q] # None THEN record[q]
  ELSE IF Conf[q].anchored THEN PresentPosition(q, seen)
  ELSE 0
After(q, seen) ==
  IF record[q] # None THEN record[q]
  ELSE IF ~Conf[q].anchored THEN 0
  ELSE IF anchor[q] # None THEN anchor[q]
  ELSE PresentPosition(q, seen)

\* _ensure_ready: with no table there is nothing to read or to remember.
ReadyAlways == TRUE
Ready == schema # "absent"

\* iter_batches
Read(q) ==
  /\ batch[q] = NoBatch /\ Ready
  /\ LET seen == IF probe[q] = "none" THEN schema ELSE probe[q]
         after == After(q, seen)
         ids == FirstOf(Selected(q, after, seen))
     IN /\ probe' = [probe EXCEPT ![q] = seen]
        /\ anchor' = [anchor EXCEPT ![q] =
             IF record[q] = None /\ Conf[q].anchored THEN after ELSE @]
        /\ start' = [start EXCEPT ![q] = IF @ = None THEN after ELSE @]
        /\ batch' = [batch EXCEPT ![q] =
             IF ids = {} THEN NoBatch
             ELSE [step |-> "read", upto |-> Max(ids), ids |-> ids]]
  /\ UNCHANGED <<queue, record, ceiling, sent, restarts, lost>>

\* The destination takes the batch and answers; or takes it, the answer is
\* lost and the retries end in a dead letter; or never gets it.
Ship(q) ==
  /\ batch[q].step = "read"
  /\ \/ /\ sent' = [sent EXCEPT ![q] = @ \cup batch[q].ids]
        /\ \/ /\ batch' = [batch EXCEPT ![q].step = "acked"]
              /\ lost' = [lost EXCEPT ![q] = @ \ batch[q].ids]
           \/ /\ batch' = [batch EXCEPT ![q] = NoBatch]
              /\ lost' = [lost EXCEPT ![q] = @ \cup batch[q].ids]
     \/ /\ batch' = [batch EXCEPT ![q] = NoBatch]
        /\ UNCHANGED <<sent, lost>>
  /\ UNCHANGED <<queue, record, ceiling, anchor, probe, start, restarts>>

\* advance_cursor, by cursor_is_after.
Advance(q) ==
  /\ batch[q].step = "acked"
  /\ record' = [record EXCEPT ![q] = IF batch[q].upto > @ THEN batch[q].upto ELSE @]
  /\ batch' = [batch EXCEPT ![q].step = "advanced"]
  /\ UNCHANGED <<queue, ceiling, anchor, probe, history>>

\* commit: every row of the scope up to the token goes, shipped or not.
DeletedUnscoped(q) == {i \in present : i <= batch[q].upto /\ ~log[i].local}
Deleted(q) == {i \in present : i <= batch[q].upto /\ MayTouch(q, log[i], probe[q])}
Commit(q) ==
  /\ batch[q].step = "advanced"
  /\ present' = IF Conf[q].deletes THEN present \ Deleted(q) ELSE present
  /\ batch' = [batch EXCEPT ![q] = NoBatch]
  /\ UNCHANGED <<log, schema, record, ceiling, anchor, probe, history>>
-----------------------------------------------------------------------------
(* A pump that ends early, and the rest of the world *)

\* What is lost with the batches of these pipelines: an answer not recorded.
Forgotten(Q) ==
  [q \in Pipes |-> lost[q] \cup (IF q \in Q /\ batch[q].step = "acked" THEN batch[q].ids ELSE {})]

\* The store or the sink raises (database is locked), the exception leaves
\* pump() and the daemon goes on: the same source reads again.
Abort(q) ==
  /\ batch[q] # NoBatch
  /\ batch' = [batch EXCEPT ![q] = NoBatch]
  /\ lost' = Forgotten({q})
  /\ UNCHANGED <<queue, record, ceiling, anchor, probe, sent, start, restarts>>

\* Writer.flush stores a row.  A writer of v3.70 or later adds the columns;
\* an older one names no producer and marks nothing local.
Flush(k) ==
  /\ Len(log) < MaxRows
  /\ \/ schema' = "new"
     \/ /\ OldSinks /\ k.producer = "" /\ ~k.local
        /\ schema' = IF schema = "absent" THEN "old" ELSE schema
  /\ log' = Append(log, k)
  /\ present' = present \cup {Len(log')}
  /\ UNCHANGED <<record, ceiling, memory, history>>

RaiseCeiling ==
  /\ ceiling < MaxCycle
  /\ ceiling' = ceiling + 1
  /\ UNCHANGED <<queue, record, memory, history>>

\* The process ends and starts again: connections, anchors and batches go.
Restart ==
  /\ restarts < MaxRestarts
  /\ restarts' = restarts + 1
  /\ lost' = Forgotten(Pipes)
  /\ anchor' = [q \in Pipes |-> None] /\ probe' = [q \in Pipes |-> "none"]
  /\ batch' = [q \in Pipes |-> NoBatch]
  /\ UNCHANGED <<queue, record, ceiling, sent, start>>
-----------------------------------------------------------------------------
Pump(q) == Read(q) \/ Ship(q) \/ Advance(q) \/ Commit(q) \/ Abort(q)
Next == (\E q \in Pipes : Pump(q)) \/ (\E k \in Kinds : Flush(k))
        \/ RaiseCeiling \/ Restart

Spec == Init /\ [][Next]_vars
-----------------------------------------------------------------------------
(* Properties *)

\* The rows of a pipeline: in its producer's name, or unnamed and inferred;
\* not local.  Meant for it: of a version it accepts, too.
Owns(q, i) ==
  /\ ~log[i].local
  /\ \/ Conf[q].producer = Unscoped
     \/ Conf[q].producer = log[i].producer
     \/ log[i].producer = "" /\ Conf[q].producer = log[i].d12
Meant(q, i) == Owns(q, i) /\ log[i].accepted

\* A pipeline ships only rows meant for it, and a row leaves the sink only by
\* a deleting pipeline that owns it and whose record passed it: no local row
\* (sources/_local_rows.py) and none of another producer.
RowsKeepToTheirOwner ==
  /\ \A q \in Pipes : \A i \in sent[q] : Meant(q, i)
  /\ \A i \in Ids \ present :
       \E q \in Pipes : Conf[q].deletes /\ Owns(q, i) /\ i <= record[q]

\* A row meant for a pipeline and stored after it began to read is sent, or
\* still in the sink past the record or the anchor.
Reaches(q) ==
  start[q] # None =>
    \A i \in Ids : Meant(q, i) /\ i > start[q] =>
      \/ i \in sent[q]
      \/ i \in present /\ i > record[q] /\ i > anchor[q]

\* No other pipeline's commit takes such a row, no empty read moves the
\* anchor past it, and no batch moves the record past it.  (A source that
\* starts at now and restarts before its first ack starts at a later now.)
NothingSkipped ==
  \A q \in Pipes :
    ~Conf[q].dedup /\ (Conf[q].anchored => restarts = 0) => Reaches(q)

\* Of the rows whose last delivery was recorded, a dedup pipeline that leaves
\* the rows in the queue sends one of each partition, however late the others
\* arrive and however often it restarts or its pump raises.  A delivery that
\* is not recorded (a restart or a raise before the record, a lost answer that
\* ends in a dead letter) is read again, and a better rival may win by then.
EachSpotOnce ==
  \A q \in Pipes : Conf[q].dedup /\ ~Conf[q].deletes =>
    \A i, j \in sent[q] \ lost[q] : log[i].spot = log[j].spot => i = j
=============================================================================
