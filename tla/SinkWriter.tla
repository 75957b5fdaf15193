----------------------------- MODULE SinkWriter -----------------------------
(***************************************************************************)
(* One Writer of the sink (sink/writer.py) in one producer process: the    *)
(* threads that call insert, flush and close, the buffer between them and  *)
(* pending_uploads, and what is kept when SQLite refuses, when a client is *)
(* switched off and when the process ends.                                 *)
(*                                                                         *)
(* Every method runs under one re-entrant lock, but its steps are separate *)
(* here: what the lock excludes is what the properties are about.  The age *)
(* of the buffer is the flag aged, set at an arbitrary moment.  Whether    *)
(* SQLite can be written (locked, full, read-only) is the flag writable,   *)
(* read where the flush reaches the database.  A transaction commits whole *)
(* or not at all.  A local writer stores as one with no marker does.  The  *)
(* name of a row is free again once the uploader deleted it.               *)
(***************************************************************************)
EXTENDS Integers, FiniteSets, SequencesExt

CONSTANTS
  Threads,         \* the process's threads
  Rows,            \* rows producers insert
  Owner,           \* each row's producer (infer_producer, or the writer's)
  Unserializable,  \* rows json.dumps refuses
  BatchRows,       \* batch_rows
  MaxInsert,       \* bound on the rows of one insert
  NoThread

ASSUME WriterAssumption ==
  /\ IsFiniteSet(Rows) /\ BatchRows \in Nat \ {0} /\ MaxInsert \in Nat
  /\ Unserializable \subseteq Rows /\ DOMAIN Owner = Rows
  /\ NoThread \notin Threads

VARIABLES
  lock, pc, arg, closing,  \* each thread: step, rows to insert, inside close
  buffer, conn, health, aged, \* the Writer; conn: the thread that opened it
  stored,                  \* pending_uploads: copies of each row
  writable,                \* whether SQLite takes a transaction
  enforced, off,           \* the marker stands; producers whose switch reads off
  promised,                \* history: rows whose insert returned normally
  judgedOff,               \* history: rows a sound check found switched off
  sound,                   \* history: closes that could store ever since they began
  lostAtExit               \* history: rows missing when such a close returned

threads == <<lock, pc, arg, closing>>
writer == <<buffer, conn, health, aged>>
switch == <<enforced, off>>
atExit == <<sound, lostAtExit>>
history == <<promised, judgedOff, atExit>>
vars == <<threads, writer, stored, writable, switch, history>>

Producers == {Owner[r] : r \in Rows}
BufferMax == 2 * BatchRows
RowsOf(s) == {s[i] : i \in DOMAIN s}
Sendable(s) == RowsOf(s) \cap Unserializable = {}

TypeOK ==
  /\ lock \in Threads \cup {NoThread}
  /\ pc \in [Threads -> {"idle", "insert", "trigger", "flush", "clear"}]
  /\ arg \in [Threads -> Seq(Rows)] /\ \A t \in Threads : Len(arg[t]) <= MaxInsert
  /\ closing \subseteq Threads
  /\ buffer \in Seq(Rows)
  /\ lock = NoThread => Len(buffer) <= BufferMax
  /\ conn \in Threads \cup {NoThread}
  /\ health \in {"ok", "unreachable", "degraded"} /\ aged \in BOOLEAN
  /\ stored \in [Rows -> Nat] /\ writable \in BOOLEAN
  /\ enforced \in BOOLEAN /\ off \subseteq Producers
  /\ promised \subseteq Rows /\ judgedOff \subseteq Rows
  /\ sound \subseteq Threads /\ lostAtExit \subseteq Rows

Init ==
  /\ lock = NoThread /\ pc = [t \in Threads |-> "idle"]
  /\ arg = [t \in Threads |-> <<>>] /\ closing = {}
  /\ buffer = <<>> /\ conn = NoThread /\ health = "ok" /\ aged = FALSE
  /\ stored = [r \in Rows |-> 0] /\ writable \in BOOLEAN
  /\ enforced \in BOOLEAN /\ off \in SUBSET Producers
  /\ promised = {} /\ judgedOff = {} /\ sound = {} /\ lostAtExit = {}

Goto(t, step) == pc' = [pc EXCEPT ![t] = step]

\* The method returns or raises, and the lock is free.
Leave(t) ==
  /\ Goto(t, "idle") /\ lock' = NoThread
  /\ arg' = [arg EXCEPT ![t] = <<>>] /\ closing' = closing \ {t}
-----------------------------------------------------------------------------
(* insert, flush and close *)

LockFreeAlways == TRUE
LockFree == lock = NoThread

InHand == UNION {RowsOf(arg[t]) : t \in Threads}
Fresh == {r \in Rows \ judgedOff :
            stored[r] = 0 /\ r \notin RowsOf(buffer) /\ r \notin InHand}

Insert(t) ==
  /\ pc[t] = "idle" /\ LockFree
  /\ \E S \in SUBSET Fresh : \E s \in SetToSeqs(S) :
       /\ S # {} /\ Cardinality(S) <= MaxInsert
       /\ arg' = [arg EXCEPT ![t] = s]
  /\ lock' = t /\ Goto(t, "insert")
  /\ UNCHANGED <<closing, writer, stored, writable, switch, history>>

\* With nothing buffered a flush returns at once.
Flush(t) ==
  /\ pc[t] = "idle" /\ LockFree /\ buffer # <<>>
  /\ lock' = t /\ Goto(t, "flush")
  /\ UNCHANGED <<arg, closing, writer, stored, writable, switch, history>>

\* close flushes first, under the same hold of the lock; with nothing
\* buffered it only drops the connection.
Missing == {r \in promised : stored[r] = 0}
Close(t) ==
  /\ pc[t] = "idle" /\ LockFree
  /\ \/ /\ buffer # <<>>
        /\ lock' = t /\ Goto(t, "flush") /\ closing' = closing \cup {t}
        /\ sound' = IF writable /\ Sendable(buffer) THEN sound \cup {t} ELSE sound
        /\ UNCHANGED <<conn, lostAtExit>>
     \/ /\ buffer = <<>> /\ conn' = NoThread
        /\ lostAtExit' = IF writable THEN lostAtExit \cup Missing ELSE lostAtExit
        /\ UNCHANGED <<lock, pc, closing, sound>>
  /\ UNCHANGED <<arg, buffer, health, aged, stored, writable, switch, promised, judgedOff>>

\* A flush or a close returns; what a sound close leaves unstored is noted.
Return(t) ==
  /\ Leave(t)
  /\ sound' = sound \ {t}
  /\ lostAtExit' = IF t \in sound THEN lostAtExit \cup Missing ELSE lostAtExit

\* _judge: every producer of the insert has its own verdict; a check that
\* fails part way stores every row of the insert.
ReadsOff(r) == enforced /\ Owner[r] \in off
Kept(s) ==
  LET keep[n \in 0 .. Len(s)] ==
        IF n = 0 THEN <<>>
        ELSE IF ReadsOff(s[n]) THEN keep[n - 1] ELSE Append(keep[n - 1], s[n])
  IN keep[Len(s)]
Judge(t) ==
  /\ pc[t] = "insert"
  /\ \/ /\ buffer' = buffer \o Kept(arg[t])
        /\ judgedOff' = judgedOff \cup {r \in RowsOf(arg[t]) : ReadsOff(r)}
     \/ /\ buffer' = buffer \o arg[t]
        /\ UNCHANGED judgedOff
  /\ Goto(t, "trigger")
  /\ UNCHANGED <<lock, arg, closing, conn, health, aged, stored, writable, switch,
                 promised, atExit>>

\* Past the maximum the newest rows go, and the caller is told.
TruncatedNot(s) == s
TruncatedOldest(s) == SubSeq(s, Len(s) - BufferMax + 1, Len(s))
Truncated(s) == SubSeq(s, 1, BufferMax)
Overflow(t) ==
  /\ pc[t] = "trigger" /\ Len(buffer) > BufferMax
  /\ buffer' = Truncated(buffer)
  /\ health' = "degraded"
  /\ Leave(t)
  /\ UNCHANGED <<conn, aged, stored, writable, switch, history>>

\* By size or by age the buffer is flushed; otherwise the insert is over.
\* Either way its rows are promised now: a flush that fails raises nothing.
Promise(t) == promised' = promised \cup (RowsOf(arg[t]) \ judgedOff)
SizeTriggerPast == Len(buffer) > BatchRows
SizeTrigger == Len(buffer) >= BatchRows
Trigger(t) ==
  /\ pc[t] = "trigger" /\ Len(buffer) <= BufferMax
  /\ Promise(t)
  /\ IF SizeTrigger \/ (aged /\ buffer # <<>>)
     THEN Goto(t, "flush") /\ UNCHANGED <<lock, arg, closing>>
     ELSE Leave(t)
  /\ UNCHANGED <<writer, stored, writable, switch, judgedOff, atExit>>

\* check_same_thread=False: any thread may use the connection.
UsableByOpener(t) == conn \in {NoThread, t}
Usable(t) == TRUE

FlushCommits(t) ==
  /\ pc[t] = "flush" /\ writable /\ Sendable(buffer) /\ Usable(t)
  /\ conn' = IF conn = NoThread THEN t ELSE conn
  /\ stored' = [r \in Rows |-> stored[r] + Cardinality({i \in DOMAIN buffer : buffer[i] = r})]
  /\ Goto(t, "clear")
  /\ UNCHANGED <<lock, arg, closing, buffer, health, aged, writable, switch, history>>

\* The rows stay, the connection is dropped, nothing is raised.
Degrade == IF health = "degraded" THEN health ELSE "unreachable"
FlushFails(t) ==
  /\ pc[t] = "flush" /\ ~(writable /\ Sendable(buffer) /\ Usable(t))
  /\ conn' = NoThread /\ health' = Degrade
  /\ Return(t)
  /\ UNCHANGED <<buffer, aged, stored, writable, switch, promised, judgedOff>>

\* A close drops the connection as well.
FlushClears(t) ==
  /\ pc[t] = "clear"
  /\ buffer' = <<>> /\ aged' = FALSE /\ health' = "ok"
  /\ conn' = IF t \in closing THEN NoThread ELSE conn
  /\ Return(t)
  /\ UNCHANGED <<stored, writable, switch, promised, judgedOff>>
-----------------------------------------------------------------------------
(* The rest of the world *)

AgeElapses == ~aged /\ aged' = TRUE
              /\ UNCHANGED <<threads, buffer, conn, health, stored, writable, switch, history>>

SinkChanges == writable' = ~writable /\ sound' = {}
               /\ UNCHANGED <<threads, writer, stored, switch, promised, judgedOff, lostAtExit>>

SwitchChanges == enforced' \in BOOLEAN /\ off' \in SUBSET Producers /\ switch' # switch
                 /\ UNCHANGED <<threads, writer, stored, writable, history>>

\* The uploader shipped the row and its commit deleted it.
Shipped(r) ==
  /\ stored[r] = 1
  /\ stored' = [stored EXCEPT ![r] = 0]
  /\ promised' = promised \ {r} /\ judgedOff' = judgedOff \ {r}
  /\ UNCHANGED <<threads, writer, writable, switch, atExit>>

\* A dropped row's name is free again.
Forgotten(r) ==
  /\ r \in judgedOff \ InHand /\ stored[r] = 0 /\ r \notin RowsOf(buffer)
  /\ judgedOff' = judgedOff \ {r}
  /\ UNCHANGED <<threads, writer, stored, writable, switch, promised, atExit>>

\* A crash takes the buffer; what was committed stays.
Crash ==
  /\ lock' = NoThread /\ pc' = [t \in Threads |-> "idle"]
  /\ arg' = [t \in Threads |-> <<>>] /\ closing' = {}
  /\ buffer' = <<>> /\ conn' = NoThread /\ health' = "ok" /\ aged' = FALSE
  /\ promised' = {r \in promised : stored[r] > 0} /\ sound' = {}
  /\ UNCHANGED <<stored, writable, switch, judgedOff, lostAtExit>>
-----------------------------------------------------------------------------
Step(t) ==
  \/ Insert(t) \/ Flush(t) \/ Close(t) \/ Judge(t) \/ Overflow(t) \/ Trigger(t)
  \/ FlushCommits(t) \/ FlushFails(t) \/ FlushClears(t)

Next ==
  \/ \E t \in Threads : Step(t)
  \/ AgeElapses \/ SinkChanges \/ SwitchChanges \/ Crash
  \/ \E r \in Rows : Shipped(r) \/ Forgotten(r)

Spec == Init /\ [][Next]_vars

\* Producers go on inserting, their calls return, and the uploader ships.
LiveSpec ==
  /\ Spec
  /\ \A t \in Threads : WF_vars(Step(t))
  /\ \A r \in Rows : WF_vars(Shipped(r))
-----------------------------------------------------------------------------
(* Properties *)

\* A row whose insert returned without raising is in the sink or still
\* buffered, whatever the flushes since then met: BufferFull "forbids silent
\* loss", and only a crash takes the buffer.
NoSilentLoss == \A r \in promised : stored[r] > 0 \/ r \in RowsOf(buffer)

\* Two threads never store one buffer twice, nor a flush that failed and is
\* retried (the unlocked writer of 2026-09 did).
StoredOnce == \A r \in Rows : stored[r] <= 1

\* When a close returns that SQLite and the rows let store from its beginning
\* to its end, every row an insert returned for is in the sink: whichever
\* thread opened the connection (AC0G-ND 2026-09-25), and however the other
\* threads' calls fall around it.
CloseStoresAll == lostAtExit = {}

\* Between calls a writer that holds a full batch says so: its health is ok
\* only while the buffer is short of a flush.
HealthIsTrue == lock = NoThread /\ Len(buffer) >= BatchRows => health # "ok"

\* Once SQLite can be written for good, the buffer drains (writer.py, on
\* BufferFull: "Buffer reached 2 * batch_rows while the sink was unwritable").
BufferDrains == <>[]writable => []<>(buffer = <<>>)
=============================================================================
