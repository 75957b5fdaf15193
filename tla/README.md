# A TLA+ model of hs-uploader

hs-uploader moves what radio clients record (WSPR, FT8, MSK144 spots, files)
from a station's local queue to the servers that collect it.  Producers store
rows in a SQLite file, the *sink*; a daemon runs one *pipeline* per destination,
each reading the sink from its *send record* and shipping what follows.  The
promise is delivery at least once, in order, with no row lost, whatever crashes,
fails, is switched off, rebuilt or upgraded in between.  This directory states
that promise, models the code that keeps it, checks the models with TLC and
proves what matters most with TLAPS.  Paths below are under `src/hs_uploader/`.

## 1. Inventory

| Component | State | Operations | Hard parts |
|---|---|---|---|
| Uploader (`core.py`) | per pump: batch, budget used | pump, drain retries, drain source, handle an outcome, replace pipelines | every step is its own transaction; the transport's answer may be lost; the gate may change mid-pump |
| Watermark store (`watermark/sqlite.py`) | `watermarks`, `deliverables`, `dead_letter`, `attempts`, `last_send`, `pipeline_state` | get, advance and start a cursor; pop, requeue, enqueue; dead-letter; log | two processes on one file; compare-and-write; log after record |
| SqliteSource (`sources/sqlite.py`, `_local_rows.py`) | anchor, connection, schema probe | read a batch, commit, initial cursor, close | several scopes on one table; dedup; ceiling; delete-on-ack; memory lost in a restart |
| WSPR cycle source, completion (`sources/wspr_cycle.py`, `wspr_completion.py`) | anchor, ceiling, riders' switch | one batch per cycle; newest complete cycle; riders | late and silent receivers, a noise row per band, the backstop, rows and switch read one after the other |
| File tree source (`sources/files.py`) | mtime cursor | walk, delete on ack | equal mtimes, files that vanish |
| Sink writer (`sink/writer.py`) | buffer, connection, health, `pending_uploads` | insert, flush, close, add columns | threads, full buffer, failed flush, switch read per insert |
| Gate and switches (`gate.py`, `sinkswitch.py`) | switch files, marker, cache | answer for a pipeline; read, write a switch | several files read one after another while operators write them |
| Daemon (`daemon.py`) | running set, marker last seen | start, marker check, starting records, pump loop | order of the steps of a round against the marker and the files; a pump that raises leaves the others running behind the next round |
| Rebuilder (`daemon.py`, `pipelines_d.py`, `pipeline_factory.py`) | last build, its signature, last good contents, open sources | signature, list, read, assemble, commit, close | edits while reading; what cannot be listed or read; collisions; failures between two steps of the commit |
| Migration (`watermark/schema.py`) | store version, keys, retries | split one key into two, fill missing keys, decide on retries | an unlocked look, one transaction, run again later, a sink that is trimmed meanwhile |
| wsprdaemon.org transports (`transports/wsprdaemon.py`) | control sockets, known_hosts | ship, replay, failover, FTP fallback | cut transfers, lost answers, changed host keys, publish by rename |
| Other transports (`transports/`) | connections | ship, serialize, replay | chunks, lost answers |
| Wake, CLI, backlog, config | none that matters to delivery | wake a pump; operator's commands; reports | commands between any two steps of a pump |

They meet in two SQLite files.  Writers insert into the sink; sources read and
delete from it; the store holds how far each pipeline came.  The daemon calls
the uploader, which calls source, transport and store in turn and asks the gate
before each send.  Operators act on the store, the switch files, `pipelines.d/`
and the marker at any moment; `migrate` rewrites the store's keys while the
daemon runs and retention trims the sink.

What makes each correct: the pump loses, skips and reorders nothing and repeats
only for a cause; the store's record only moves forward; a source ships and
deletes only its own rows and skips none; a cycle ships once it is complete or
overdue and never waits longer; the writer keeps what it accepted, once; the gate
obeys a switch that holds, and holding a pipeline costs it no row; a rebuild runs
what the directory says and disturbs nothing else; a migration neither skips rows
nor deletes a retry it cannot account for; an upload over SFTP leaves whole files
where it was sent.  `PROJECT.json` lists under `hazards` the lines where these can go wrong.

## 2. Modules

| Module | What it is |
|---|---|
| `Delivery` | the abstract promise: rows stored under increasing ids, delivered in order, a record over delivered rows only, and only those dropped |
| `Pump` | `Uploader.pump` for one pipeline with its store and queue, for one process or several; implements `Delivery` (`Delivers`) |
| `SqliteSource` | several pipelines reading the tables of one sink: scopes, local rows, start at now, dedup, ceiling, deletes, restarts |
| `SinkWriter` | the threads of one producer and their `Writer` |
| `SinkGate` | the daemon's rounds, the starting records and the gate, against moving files |
| `Rebuild` | the running set against edits of `pipelines.d/` |
| `Migrate` | the split of the shared pskreporter pipeline, with both layouts of the daemon running around it |
| `WsprCycle` | WSPR cycles as batches, the completion ceiling with its backstop, the riders |
| `TarUpload` | one call of the wsprdaemon.org transport, step by step |
| `PumpProofs`, `SourceProofs`, `SinkWriterProofs`, `SinkGateProofs`, `RebuildProofs`, `MigrateProofs`, `WsprProofs`, `TarProofs` | theorems |
| `MCPump`, `MCSource`, `MCWriter`, `MCGate`, `MCRebuild`, `MCMigrate`, `MCWspr`, `MCTar` | the instances TLC checks |

How they fit: `Pump` takes a source and a transport as what they return.
`SqliteSource` and `WsprCycle` are the sources, `TarUpload` a transport; each
carries the outline of the pump it meets (a batch in hand, then acknowledged,
queued or dropped) instead of a copy of it.  `SinkGate` and `Rebuild` are the two
halves of the daemon's round: `SinkGate` takes from a rebuild only which
pipelines are built anew.

**Pump.**  One action per transaction of the store, per transaction of the sink
or per call of the transport; `pc` is the place in the code, `job` the batch or
deliverable in hand.  `PopDue`, `Replay`, `Requeue` are `_drain_deliverables` and
`_handle_outcome`; `CountQueue` is the rule that a waiting retry keeps the source
untouched; `GetCursor`, `ReadBatch`, `Ship` are `_drain_source`; `Advance`,
`Commit`, `Enqueue`, `DeadLetter`, `RecordAttempt` are the tails of both
handlers in the order the code writes them.  `Abort` ends a pump between any two
of them.  A batch is the set of its row ids and a cursor an id; time is a flag on
a deliverable that becomes due at any moment.  `partial_ack` is left out: no
transport returns it.

**SqliteSource.**  Rows carry exactly what the queries look at.  `InScope` and
`MayTouch` are the scope and `local` clauses as the connection's schema probe
makes them, `Winners` the dedup query, `After` the record or anchor a read
starts from, `Deleted` the `DELETE` of a commit.  A batch that is not
acknowledged is dropped: its fate is Pump's.  A delivery may go unrecorded in
three ways, and `lost` keeps the rows whose last delivery did: the answer is lost
and the retries end in a dead letter (`Ship`), the store raises out of the pump
and the daemon goes on with the same source (`Abort`), or the process restarts.
`OldSinks` says whether sinks of before v3.70, without a `local` column, are met.

**SinkWriter.**  `Insert`, `Judge`, `Trigger` or `Overflow`, `FlushCommits` or
`FlushFails`, `FlushClears` are the stages of one call; the lock is a variable,
so what it excludes can be seen.  `Close` is a flush that drops the connection
behind it; `sound` has the closes which SQLite and the buffered rows have let
store ever since they began, and `Return` notes what such a close leaves
unstored.  `SinkChanges` makes SQLite refuse or take writes at any moment,
`SwitchChanges` moves the switches, `Crash` takes the buffer.

**SinkGate.**  `daemon` is the place in `run`: `Start`, then rounds of `Rebuild`
(if asked for), `MarkerCheck`, the starting-record pass and the pumps.  Each
pipeline has a thread that takes one task at a time: `Submit` gives every thread
one, `End` takes the next.  `Raise` is an exception out of a pump, perhaps with a
batch delivered and not recorded.  A round ends when every pump has (`Joined`) or
when one of its futures raised (`PumpEnds`); in the second case the other tasks
run on under the next rebuild, pass and round, and `Replace` waits only for those
of the pipelines it closes.  `Ask`, `AskClient`, `AskSite` are the three reads of
one answer of the gate, `GetCursor`, `ReadFrom` and `Ship` a batch of one row,
whose delivery and record are one step here, since Pump and SqliteSource have
them apart.

**Rebuild.**  `Begin` takes the signature, `List` and `ReadFile` are
`load_layout` with operators' `Edit`s in between, `Assemble` is `_assemble`
(last-good contents, admission in the order of `_build_file` and `_admit`, the
pool of reused pipelines) and the store check of `split_refused`, `Commit` the
end of `start` and `rebuild` with `replace_pipelines`.  Each of the first three
may fail as the code lets it: a signature of an unreadable directory matches
none, a listing that fails names no file and the rebuild goes on, a file that
cannot be read is refused.  A change of permissions alters no signature and shows
only as such a failed read.  `MakeFails` and `LateFailure` are the two places an
exception takes: before and after the build and its signature are committed.
Several objects may be built from one entry, so reuse and closing can be told
apart.

**Migrate.**  `Start` and `NothingToDo` or `Begin`, `Decide`, `Commit` are one
run of `migrate` with its options; `MigrateDies` rolls it back at any point.  The
write lock is `Locked`.  `StartShared` and `StartProducers` are the two layouts
of the daemon, `Read` to `GiveUp` an outline of their pumps, `Trim` retention,
which takes the oldest row at any moment.  `TrimBetween` says whether it may do so
between migrate's look into the sink (`Decide`) and its commit.

**WsprCycle.**  `Complete`, `Forced` and `Ceiling` are `shippable_ceiling`;
`ReadCeiling`, `BuildBatch` and `JudgeRiders` are the reads of one batch in the
order the source makes them, with receivers, time and the operator moving
between.  `Deliver`, `Fail` and `Abort` are the ends of a batch.  A receiver
stores its spots, then a noise row per band (`WriteNoise`); `Together` says
whether it stores those at once, which is what makes the first of them a report
of completion.  The order is that of `wspr_completion.py:18-20`; the comment at
`wspr_cycle.py:28-30` has the noise land before the spots, and is about the rows
of a batch.

**TarUpload.**  `Connect` is an sftp process reaching a gateway through a
persistent connection or a handshake, `HostKey` the one retry with a fresh key,
`Put` and `Rename` the two commands of the batch file, `Stor` the FTP fallback.
`NextServer` is the loop of `_upload_tar`.  There is one sender of a tar, and
`torn`, the partial files under a final name, counts SFTP's alone.

## 3. Runs

| Run | Question | Instance |
|---|---|---|
| `pump` | do processes on one store lose, reorder or skip anything; is `Delivery` implemented | 2 processes, 2 rows, batches of 1, 2 attempts, 1 fault |
| `pump_live` | one process: only caused repeats, one batch outstanding, holds; is everything delivered, does every pump return | 3 rows, batches of 2, budget 3, 2 attempts, 1 fault, 1 reset |
| `source` | two producers on one table, both deleting, one starting at now, and a third table read by a dedup sender under a ceiling | 3 rows of 8 kinds, of two spots, batches of 2, 1 restart, sinks of v3.70 or later |
| `source_ceiling` | see Findings | one sender, 3 rows, 3 values of the ceiling |
| `writer` | two threads, two producers, one row that cannot be serialized | 5 rows, `batch_rows` 2 (so a buffer of 4), inserts of up to 2 |
| `writer_full` | see Findings | 3 rows, `batch_rows` 1, one thread |
| `gate` | holds, starting records and rebuilds against operators, restarts and pumps that raise | a governed pipeline and the heartbeat, 2 rows, 2 moves, 1 fault (a starting record, a pump that raises or a restart) |
| `gate_marker` | see Findings | one pipeline, 2 rows, 2 moves |
| `rebuild` | does the running set follow the files, closed and reused right, whatever fails | 2 files, 4 contents, 1 legacy entry sharing a key with a file, 2 edits, 1 fault (of the file system, of the store, an exception after the commit, a death) |
| `migrate` | is a split, rolled back, repeated or raced by retention, free of loss | 2 producers, 2 rows, 3 starts of the daemon, 2 runs of migrate, store versions 0 and 3 |
| `wspr` | is every row of an expected receiver sent or late, and every cycle shipped | 2 receivers, 2 bands, 2 cycles, 1 psk row, 4 ticks, backstop 1, 1 move, 1 fault |
| `tar` | do tars land whole over SFTP, where they were sent, and all of them | 2 gateways, 2 cycles, persistent connections, FTP fallback, 3 faults |

**Bounds.**  Three rows with batches of two give a full batch, a short one and a
row behind both; two attempts give a retry that is requeued and one that is
exhausted; one fault is enough for each crash point and each lost answer, and one
reset for a rewind at each of them.  In `source` a lost answer and a pump that
raises need no bound, since the queue's ids have one.  With two processes two
rows already give overlapping batches acknowledged in either order.  Five rows
pass a buffer of four.  Two moves let the marker and one file, or both files, or
the marker and a rebuild, change within one round; one fault leaves one pump
running behind a round that raised, or ends the daemon at any step.  Two edits
change a file between its listing and its reading, and again later; four contents
give entries that agree, that collide by name or key across files, and that need
store version 2.  Three starts give the shared layout, the producers' and a
rollback; two migrates an interrupted or repeated one.  Four ticks pass the
backstop of both cycles.  Three faults cut a put, a rename and the retry, or
combine a new host key with either.  `Rebuild` names the objects built from one
entry by the least numbers no open pipeline has, so their number needs no bound.
The largest runs, `gate` (11 million states) and `rebuild` (3 million), take two
to three minutes; the theorems hold for any bounds.

Five restrictions are assumptions about the installation, named as constants:
`MarkerMoves` (in `gate` the marker is written while the daemon is down or waits between rounds;
`gate_marker` lifts that and shows why it is there), `MigrateFirst` (a migrate
ends before the daemon of a release with producer pipelines starts, which
the store-version check enforces once), `TrimBetween = FALSE` (retention, which
is not part of the repository, takes no row between migrate's look into the sink
and its commit), `Together = TRUE` (a receiver stores its noise of all bands at
once, as `wspr_completion.py` relies on) and `OldSinks = FALSE`.  What happens
without the last four is in section 5.

**What the runs say beyond their names.**

* `ExactlyOnceUnlessDisrupted` names the only causes of a repeat (a crash, a lost
  answer, a rewind); `OneBatchOutstanding` bounds the retries of a pipeline to one.
* `RowsKeepToTheirOwner` joins selection and deletion.  A commit deletes by scope
  and id, so it also takes rows of its producer that were never sent for a
  `schema_version` it does not accept; the property counts those as the
  pipeline's own.
* `EachSpotOnce` counts the rows whose last delivery was recorded, and holds of
  them however late a better rival comes.  A delivery that went unrecorded
  (`lost`) is repeated, and a better rival stored meanwhile goes in its place.
* `CloseStoresAll`: when a close returns, and SQLite and the buffer's rows let it
  store from its beginning to its end, every row an insert has returned for is
  stored, whichever thread closes and whichever opened the connection.
* `HealthIsTrue` says that a writer sitting on a full batch says so, and no more:
  it does not free the rows around one that `json.dumps` refuses.
* `HoldObeyed` says that a file that held the client all through the question
  wins, although the two files are read at different moments.  It says no more
  than that: a client held by one file and then by the other can get one answer of
  upload that was never in effect.
* `NothingSkipped` of `SinkGate` begins where a pipeline's start was fixed.  It
  leaves out a pipeline whose anchor was lost with its source before its first
  record (`forgot`: that one starts at a later now) and one whose pump ran on into
  a pass or a marker (`crossed`).  The second is not excess caution: with three
  rows TLC lets a pump left running read at the anchor of its source while the
  pass writes another place into the record, and a row between is skipped.
  `FilledRowsShip` needs no `forgot`: a pipeline held under the marker has a
  record, which no restart or rebuild takes.
* `TypeOK` of `SinkGate` also says that until some pump has raised, none runs
  outside the pump's own step of a round.
* `QuietMeansCurrent` says that an edit made while the directory is being read is
  seen later.  Where the build has something else for a file than the directory,
  an operation of the file system failed and it has that failure: the file not
  read, or not listed.  `due()` then says no until the next edit or SIGHUP.
* `OpenIsInUse` says that nothing runs closed and nothing stays open out of reach;
  `EditsDisturbNothingElse` that a broken, unreadable or colliding file stops no
  other, in a rebuild that could list the directory.
* `NoRowMissed` allows a row of an expected receiver to be passed only when the
  backstop gave its cycle up.
* `DeletedRetryIsReread` and `NoRowSkipped` of `Migrate` leave out rows that
  retention took while nothing held them (`given`); no row comes there between
  migrate's look and its commit, by `TrimBetween = FALSE`.

**Fairness.**  `Pump!LiveSpec` assumes weak fairness of each process's pump (the
daemon's loop calls `pump` every interval and waits for it; every transport call
has a timeout), of a backoff elapsing, and strong fairness of an attempt that
succeeds: a destination tried again and again takes a batch some time.  It
assumes nothing of the operator; `EveryRowDelivered` asks that the hold be lifted
for good.  `SinkWriter!LiveSpec` assumes that producers go on inserting, calls
return, and the uploader ships.  `WsprCycle!Spec` assumes that time passes, the
daemon pumps, and a delivery tried again and again succeeds; nothing of the
receivers, so a dead one stalls a cycle only to its backstop.  `TarUpload!Spec`
assumes the same of the pump and of each process of the transport, and strong
fairness of a connection, a put and a rename, since each runs under a timeout and
is tried again; which gateway answers is open.

**Deadlock** is checked in the runs of `Pump`, `SqliteSource`, `SinkWriter` and
`SinkGate`.  In `rebuild`, `migrate`, `wspr` and `tar` the bounds bring the
system to rest (no edit, start, tick or cycle is left), so the check is off
there; `EveryCycleShips` and `EveryCycleLands` show that nothing rests early.

## 4. Proofs

Every theorem holds for every value of the constants allowed by the module's
assumption, which TLC evaluates in its runs.  Each invariant was checked by TLC
on the run's instance before it was proved.

| Module | Theorem | Statement |
|---|---|---|
| `PumpProofs` | `TypeCorrect`, `RowsSurvive`, `RowsInOrder` | `TypeOK`, `NoRowLost`, `OldestFirst` always |
| | `RecordIsMonotone` | `Spec => RecordMovesForward` |
| | `HoldLetsOneGo` | `HoldStopsAtNextCheck` always, with any number of processes |
| | `OneBatchAtATime`, `OnceUnlessDisrupted` | with one process, `OneBatchOutstanding`, `ExactlyOnceUnlessDisrupted` always |
| | `PumpImplementsDelivery` | `Spec => D!Spec`, the refinement of `Delivery` |
| `SourceProofs` | `TypeCorrect` | `TypeOK` always |
| | `OwnersKeepTheirRows` | under `~OldSinks`, `RowsKeepToTheirOwner` always |
| | `NoRowIsSkipped` | under `~OldSinks` and `Apart`, `NothingSkipped` always |
| | `EachSpotIsSentOnce` | under `~OldSinks` and `KeptForDedup`, `EachSpotOnce` always |
| `SinkWriterProofs` | `WriterTypes`, `PromisesAreKept`, `NoRowStoredTwice` | `TypeOK`, `NoSilentLoss`, `StoredOnce` always |
| | `CloseLosesNothing`, `FullBufferShows` | `CloseStoresAll`, `HealthIsTrue` always |
| `SinkGateProofs` | `TypeCorrect`, `NothingIsSkipped`, `HoldIsObeyed` | `TypeOK`, `NothingSkipped`, `HoldObeyed` always |
| | `FilledRowsAreShipped` | under `MarkerStays`, `FilledRowsShip` always |
| `RebuildProofs` | `RebuildTypes`, `NoEditIsMissed` | `TypeOK`, `QuietMeansCurrent` always |
| | `NothingLeaksOrCloses`, `OneSender` | `OpenIsInUse`, `OneSenderPerKey` always |
| | `EditsAreLocal` | `Spec => EditsDisturbNothingElse` |
| `MigrateProofs` | `TypeCorrect`, `NoRowIsSkipped` | under `MigrateFirst` and `~TrimBetween`, `TypeOK`, `NoRowSkipped` always |
| | `DeletedRetriesAreReread`, `RecordsStandStill` | under the same, `DeletedRetryIsReread`, `RecordsStand` |
| `WsprProofs` | `TypeCorrect`, `NoExpectedRowIsMissed`, `HeldRidersStayOut` | under `Together`, `TypeOK`, `NoRowMissed`, `HeldRiderStaysOut` always |
| `TarProofs` | `TypeCorrect`, `TarsAreWhole`, `FailoverIsReal` | `TypeOK`, `NoTornTar`, `FailoverLands` always |

**Pump.**  `NoRowLost` alone is not inductive: it says nothing about what a
process has in hand, and an acknowledgement is the moment the record and the
delete rely on it.  `IInv` adds to the types that the rows a process or a
deliverable carries end at its `upto` (`InHand`), and `Covered`: rows up to the
record are delivered; so are those up to the cursor a process has just read, and
those up to the `upto` of a job at `advance` or `commit`; and every row up to the
`upto` of a batch or a deliverable is delivered or carried by it.  `Contact` is
the only step that adds to `delivered`, so its lemma carries the argument.  The
refinement follows: a contact is `Deliver`, an advance `Acknowledge`, a commit
`Forget`, a reset `Rewind`, and everything else stutters.

`HoldInv` adds to `HoldStopsAtNextCheck` that a process past its check when the
hold comes still has its one call.  Two properties are about one process on one
`watermarks.db`, the rule of the installation (`OneProcess`; `pump` shows that
two repeat rows).  `OneInv`: nothing is queued while the process has rows in
hand, because `CountQueue` let it read only with an empty queue, and a
deliverable it popped left it.  `Undisturbed`: until the first fault or rewind,
what is in hand or queued lies past the record, and what was delivered lies
before it or before the end of the job about to be recorded; so no call repeats
a row.

**SqliteSource.**  Without sinks older than v3.70 no connection keeps an old probe
(`NewOnly`), so the clauses of the query and of the delete select what the
pipeline owns.  `InHand` adds that a batch holds rows meant for its pipeline and
that the record is at its end before anything is deleted; `RowsKeepToTheirOwner`
follows.  `NothingSkipped` is proved under `Apart`: a pipeline that does not dedup
has no ceiling, and no other deleting pipeline owns rows of it.  `source_ceiling`
shows why the first is needed; without the second the other pipeline deletes
rows before they are read, as its configuration asks.  `Whole` says that a batch
has every row still to be sent up to its last one, because `ORDER BY id LIMIT`
leaves no earlier row out, and `OneStart` that before the first acknowledgement
the anchor of a pipeline that starts at now is where it started.

`EachSpotOnce` rests on rows that stay: the dedup query looks at all the rows of
the sink, sent ones too, takes the best row of each spot, and takes none of a spot
that has a row at or before the cursor (`WinnersAreAlone`).  `SpotInv` keeps
every row sent in the query's sight (`InSight`) and, unless its last delivery is
`lost`, behind the record or in an answered batch (`Behind`).  `KeptForDedup` says
that no deleting pipeline owns those rows.  A restart, a raise or a lost answer in
that last state breaks `Behind`, hence `lost`.

**SinkGate.**  Where a pipeline reads on is spread over its record, its source's
anchor, the cursor its pump has in hand and the position a starting-record pass
has in hand.  `OneStart` says that they name one place and `Reached` that what
each of them has passed is sent; with `Pass` (a pass that meets a running pump has
marked it `crossed`) and `Threads` (a task waits behind another only after a round
that raised) they make `NothingSkipped` inductive.  `Question` says at each read
of the gate's question what is known of a file that has held since it began: it
was seen to hold, or still holds.  `FilledRowsShip` needs `MarkerKnown` and
`RecordsFirst`: while the marker stands as `marker_check` saw it, no governed
pipeline is asked about before its record is written, so no hold precedes the
start.  That is where `MarkerStays` is used (a marker written during a build is
allowed), and `gate_marker` shows it cannot be dropped.

**SinkWriter.**  The invariant says what the lock gives: one thread at most is in
a method (`Locked`), the rows in its hand are nowhere else (`Apart`), the buffer
holds each row once (`Distinct`), and no buffered row is stored except between a
commit and the clearing of the buffer (`Unstored`).  `Safe` is where `NoSilentLoss`
becomes inductive: a promised row is stored or among the first `BufferMax` of the
buffer, so an overflow, which keeps those, takes none.  `Ending` carries
`CloseStoresAll`: a sound close is flushing or clearing, with SQLite writable and
a buffer, untouched under the lock, that can be sent; so it never comes to
`FlushFails`, and when it clears the buffer every promised row is stored.  `Kept`,
the switch's judgement row by row, is a recursive function; what it returns is
proved from the least length at which the claim would fail.

**Rebuild.**  The signature is taken before the directory is listed, so as long
as it is the directory's, what was read is what the files hold or a failure, and
what was not read is as listed (`FreshRead`).  The other properties need to know
what is built.  A build is `Sound` when it has exactly one pipeline for each entry of the contents
it remembers, and no two that clash unless the manifest has both.  `_assemble` is
a recursive function over the turns of the files, the unchanged ones first.
`AdmitTurn` is the case split of `_admit` and `_build_file` for one file;
`AssembledGood` carries it through both passes.  A file's turn settles it: its
accepted pipelines are in the build, or it is displaced, and an unchanged file,
whose turn comes when only the manifest and other unchanged files have theirs,
only by the manifest.  `PipeFacts` counts: among the numbers up to the number of
open pipelines one is free, so a pipeline built anew is none that is open.  `Held`
relates the build, what runs and what is open; at the commit (`Built`) it says
that all that is open runs, or is of the last build or the new one, that nothing
built anew runs yet, and that every pipeline of the last build is in the new one
or has a reason not to be (`Spared`).

**Migrate.**  `NoRowSkipped` speaks of records that stand; the invariant also
speaks of what will move them.  `Settled`: no record, the old one included, has
passed a row of the sink that is not done with, so copying the old record skips
none.  `JobsCover`: an acknowledgement passes no rows but those of its job.
`AnOldJob` and `TrimmedInOrder`: the shared pipeline has one job at most, all of
it ahead of its record, and retention takes the oldest row first; so one row left
at or before the old record proves that every row of the retry is still there
(`Reread`), for as long as retention leaves the sink alone: until the commit, by
`~TrimBetween`.  `Planned`: the
lock keeps the records as migrate read them.

**WsprCycle.**  `NoRowMissed` speaks of the record, and rests on `Together`: a
receiver that has reported has stored all it stores of the cycle; what makes the next record
safe is known of the batch in hand and the retry that waits: up to its cycle
every row is taken, in the batch, or late for good (`Covered`), and none is to
come unless the cycle was forced (`Settled`).  `CeilingStands` carries the
judgement of a cycle to the moment its batch is built.

**TarUpload.**  Over SFTP a tar about to be renamed is whole (`WholeBeforeRename`), and a
control socket leads to its own gateway or nowhere (`MastersLeadHome`).

**Only model-checked:** the liveness properties `EveryRowDelivered`,
`EveryPumpReturns`, `EveryCycleShips` and `EveryCycleLands`, since fairness is
beyond the prover.  Every invariant and action property of the passing runs is
also a theorem.

**Recursion.**  The prover has no induction to apply.  The models write recursion
as functions on naturals, and the proofs take the least number at which a claim
fails (the naturals are well-founded under `<`): `KeepExists` and `KeptIsLast` in
`SinkWriterProofs`, `TurnsExist` and `AssembledIsLast` in `RebuildProofs` show
that the function exists and unfolds, and each later fact is one more least
counterexample.

## 5. Findings

Each is a run that expects a violation.

* `source_ceiling`: rows held back by cycle are skipped for good once a later id
  of an older cycle is acknowledged.
* `writer_full`: a full buffer refuses every insert before it reaches a flush, so
  it stays full after SQLite recovered.
* `gate_marker`: the marker written between `marker_check` and the gate holds a
  pipeline that has no starting record; the next pass anchors it past rows
  stored since.

Met while modelling, and kept out of the runs by a constant or a weaker property.
The first four are found by TLC in seconds when the constant is turned or the
exclusion dropped.

* `OldSinks = TRUE`: on a sink created before v3.70, the probe for the `local`
  column (`sources/_local_rows.py:31`) outlives the writer's upgrade of the table,
  and a source open across it ships and deletes local rows; `_local_rows.py:3-4`
  says "no source ships or deletes it".
* `TrimBetween = TRUE`: migrate looks into the sink on a connection of its own
  (`watermark/schema.py:439`) before its transaction commits.  Rows retention takes
  in between are gone when the retry that carried them is deleted, and so never
  delivered; `schema.py:64-66` says "The pass never deletes a retry it cannot prove
  that for, so repeating it cannot skip a row".
* `Together = FALSE`: a receiver counts as done at its first noise row of a cycle,
  of whatever band (`sources/wspr_completion.py:91`), so a cycle may ship while
  its other bands are still to be stored, and what they store is behind the
  record.
* A listing of `pipelines.d/` that fails (`pipelines_d.py:229-231`) is taken for a
  directory without files: the rebuild ends the pipelines of every file, although
  no entry changed (README.md:219-221 says it keeps those), and brings back the
  legacy entries of those clients.  `EditsDisturbNothingElse` speaks of rebuilds
  that list the directory.
* A file that cannot be read for a moment, or whose permissions alone are changed,
  is refused, while the signature recorded is the directory's: `due()` says no and
  the daemon runs the file's last good build until the next edit or SIGHUP.
* `pump()` raises at the first future that raised (`core.py:422`), and the daemon
  goes on to rebuild and to write starting records while other pipelines still
  pump; `core.py:335-336` and `daemon.py:1024` say every future is joined.  The
  gate fails closed for that reason (`core.py:428-430`), but a store or a source
  that raises does not.
* The anchor of `start_at = "now"` lives in memory: after a restart or a rebuild
  before the first record the pipeline starts at the later now.
* A dedup source whose delivery goes unrecorded reads the spot again; if a better
  rival was stored meanwhile, the rival goes out too and the spot has been sent
  twice, as different rows.  A restart, `advance_cursor` raising out of the pump,
  and a lost answer that ends in a dead letter all do it.
* A migrate run after the producer pipelines have moved on sees a row behind the
  old record and both keys present, and may delete a retry of the shared pipeline
  although its rows are behind the keys too (`MigrateFirst`).
* An exception in the last steps of a rebuild leaves `due()` false and the old
  set running until the next edit or SIGHUP, and a pipeline built anew open.
* A legacy entry whose build fails in a rebuild keeps an empty slot that is
  reused until the entry changes.  A file displaced by another origin loses its
  last good contents.
* The FTP fallback stores straight under the final name, so a cut leaves a piece
  there; `NoTornTar` is about SFTP.

## 6. Not modelled

Wire formats, compression and the tar layout; how paths and keys are found;
logging and the reports (`status`, `peek`, `sink status`, backlog, `migrate
--check`); the wake socket, whose loss only delays a pump; the watchdog and
signals; corruption of files on disk; the retention janitor except in `Migrate`,
where it is an external actor (it is not part of this repository).  The file tree
source, the chunked sends of pskreporter, the asynchronous post of wsprnet, and
the lock and history of `write_switch` are open work, below; `Pump` covers what
the two transports answer.

## 7. Plan

1. `FileTree`: mtimes as cursors, equal mtimes, files rewritten between a read
   and its delete.
2. `SwitchFile`: `write_switch` under its lock with a timeout.
3. Chunked transports: a batch taken in part, as an implementation of
   `Pump!Contact`.
4. Proofs: the theorems of the modules above; abstract specifications of
   `SinkWriter` (a bag of accepted rows) and of `Rebuild` (the running set as a
   function of what was read) with their refinements.
