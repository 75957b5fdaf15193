------------------------------ MODULE Migrate ------------------------------
(***************************************************************************)
(* `hs-uploader migrate' (watermark/schema.py): the send record and the    *)
(* queued retries of the shared pskreporter pipeline pass to one pipeline  *)
(* per producer, while the daemon runs, the sink is trimmed, and either    *)
(* may stop at any point.                                                  *)
(*                                                                         *)
(* migrate looks at the store without a lock, and returns if nothing is to *)
(* be done.  Else it takes the write lock (BEGIN IMMEDIATE), runs the      *)
(* migrations above the store's version, copies the old record to each     *)
(* producer key that holds none, decides on the retries again and commits. *)
(* The lock stops every writer of the store and none of the sink: with     *)
(* TrimBetween, retention may take rows between migrate's look into the    *)
(* sink and its commit.                                                    *)
(*                                                                         *)
(* Abstractions.  There is one pskreporter destination.  The pump is its   *)
(* outline: a batch or a retry is in hand, then acknowledged, queued or    *)
(* dropped (a dead letter, a crash); module Pump has the steps between.    *)
(* A pipeline with no record writes one at `now' when it starts, so no     *)
(* retry is without a record; the retries of before v3.70 are left out.    *)
(* A migration that fails is a migrate that dies: both roll back.          *)
(***************************************************************************)
EXTENDS Integers, FiniteSets, Sequences

CONSTANTS
  Producers,     \* psk-recorder and meteor-scatter
  MaxId,         \* bound on the rows producers store
  MaxRestarts,   \* bound on the daemon's starts
  MaxMigrates,   \* bound on the runs of migrate
  Releases,      \* the store versions met at first
  MigrateFirst,  \* a migrate ends before the producer pipelines start
  TrimBetween    \* retention may run between migrate's look and its commit

Shared == "psk-pskreporter"
None == -1
Known == 3       \* SCHEMA_VERSION
Pipes == {Shared} \cup Producers

ASSUME MigrateAssumption ==
  /\ Shared \notin Producers /\ MaxId \in Nat /\ MaxRestarts \in Nat
  /\ MaxMigrates \in Nat /\ Releases \subseteq 0 .. Known
  /\ MigrateFirst \in BOOLEAN /\ TrimBetween \in BOOLEAN

VARIABLES
  stored, rows, owner,   \* the sink: psk.spots rows and who stored each
  keep,                  \* keep mode: an ack deletes nothing
  version, old, keys, superseded, retries,   \* the store
  daemon, hand,          \* the layout that runs; each pipeline's batch in hand
  mig,                   \* migrate: its step, options and open transaction
  delivered, given,      \* history: rows sent; rows given up by retention or
                         \* by a start at now
  migrated, restarts, migrates

sink == <<stored, rows, owner>>
store == <<version, old, keys, superseded, retries>>
history == <<delivered, given, migrated, restarts, migrates>>
vars == <<sink, keep, store, daemon, hand, mig, history>>

Positions == None .. MaxId
Jobs == [upto : 0 .. MaxId, rows : SUBSET (1 .. MaxId)]
NoJob == [upto |-> 0, rows |-> {}]
NoMigrate == [step |-> "idle", sink |-> FALSE, keeper |-> Shared, version |-> 0,
              keys |-> [w \in Producers |-> None], act |-> "stay"]

TypeOK ==
  /\ stored \in 0 .. MaxId /\ rows \subseteq 1 .. stored
  /\ owner \in [1 .. stored -> Producers] /\ keep \in BOOLEAN
  /\ version \in 0 .. Known /\ old \in None .. stored
  /\ keys \in [Producers -> None .. stored] /\ superseded \subseteq Producers
  /\ retries \subseteq [pipe : Pipes, upto : 1 .. MaxId, rows : SUBSET (1 .. MaxId)]
  /\ daemon \in {"down", "shared", "producers"} /\ hand \in [Pipes -> Jobs]
  /\ mig \in [step : {"idle", "begin", "plan", "commit"}, sink : BOOLEAN,
              keeper : Pipes, version : 0 .. Known, keys : [Producers -> Positions],
              act : {"delete", "move", "stay"}]
  /\ delivered \subseteq 1 .. stored /\ given \subseteq 1 .. stored
  /\ migrated \in BOOLEAN
  /\ restarts \in 0 .. MaxRestarts /\ migrates \in 0 .. MaxMigrates

\* A store of any release, met before any pipeline ran on it.
Init ==
  /\ stored = 0 /\ rows = {} /\ owner = <<>> /\ keep \in BOOLEAN
  /\ version \in Releases /\ old \in {None, 0} /\ superseded = {}
  /\ keys = [w \in Producers |-> None] /\ retries = {}
  /\ daemon = "down" /\ hand = [p \in Pipes |-> NoJob]
  /\ mig = NoMigrate
  /\ delivered = {} /\ given = {} /\ migrated = FALSE
  /\ restarts = 0 /\ migrates = 0

Locked == mig.step \in {"plan", "commit"}
HeldElsewhere(i, R) == \/ \E d \in R : i \in d.rows
                       \/ \E p \in Pipes : i \in hand[p].rows
-----------------------------------------------------------------------------
(* The pipelines *)

Runs(p) == IF p = Shared THEN daemon = "shared" ELSE daemon = "producers"
Record(p) == IF p = Shared THEN old ELSE keys[p]
Reads(p, i) == p = Shared \/ owner[i] = p

\* A waiting retry keeps the source untouched.
Read(p) ==
  /\ Runs(p) /\ hand[p] = NoJob /\ \A d \in retries : d.pipe # p
  /\ \E upto \in {i \in rows : Reads(p, i) /\ i > Record(p)} :
       hand' = [hand EXCEPT ![p] = [upto |-> upto, rows |->
                  {i \in rows : Reads(p, i) /\ i > Record(p) /\ i <= upto}]]
  /\ UNCHANGED <<sink, keep, store, daemon, mig, history>>

Pop(p) ==
  /\ Runs(p) /\ hand[p] = NoJob /\ ~Locked
  /\ \E d \in retries :
       /\ d.pipe = p
       /\ hand' = [hand EXCEPT ![p] = [upto |-> d.upto, rows |-> d.rows]]
       /\ retries' = retries \ {d}
  /\ UNCHANGED <<sink, keep, version, old, keys, superseded, daemon, mig, history>>

\* The record moves forward only; the delete reaches the pipeline's own rows.
Ack(p) ==
  /\ hand[p] # NoJob /\ ~Locked
  /\ delivered' = delivered \cup hand[p].rows
  /\ IF p = Shared
     THEN old' = (IF hand[p].upto > old THEN hand[p].upto ELSE old) /\ UNCHANGED keys
     ELSE keys' = [keys EXCEPT ![p] = IF hand[p].upto > @ THEN hand[p].upto ELSE @]
          /\ UNCHANGED old
  /\ rows' = IF keep THEN rows
             ELSE {i \in rows : ~(Reads(p, i) /\ i <= hand[p].upto)}
  /\ hand' = [hand EXCEPT ![p] = NoJob]
  /\ UNCHANGED <<stored, owner, keep, version, superseded, retries, daemon, mig,
                 given, migrated, restarts, migrates>>

Queue(p) ==
  /\ hand[p] # NoJob /\ ~Locked
  /\ retries' = retries \cup
       {[pipe |-> p, upto |-> hand[p].upto, rows |-> hand[p].rows]}
  /\ hand' = [hand EXCEPT ![p] = NoJob]
  /\ UNCHANGED <<sink, keep, version, old, keys, superseded, daemon, mig, history>>

\* A crash of the daemon, with the answers of its batches lost or none, or
\* a dead letter: a row retention already took is gone with the job.
Drop(P) ==
  /\ hand' = [p \in Pipes |-> IF p \in P THEN NoJob ELSE hand[p]]
  /\ given' = given \cup UNION {hand[p].rows \ rows : p \in P}
GiveUp(p) ==
  /\ hand[p] # NoJob /\ Drop({p})
  /\ UNCHANGED <<sink, keep, store, daemon, mig, delivered, migrated, restarts,
                 migrates>>
Stop ==
  /\ daemon # "down" /\ daemon' = "down" /\ Drop(Pipes)
  /\ UNCHANGED <<sink, keep, store, mig, delivered, migrated, restarts, migrates>>

\* A pipeline with no record starts at now, the position of the newest row.
NowNext == stored + 1
Now == stored
StartShared ==
  /\ daemon = "down" /\ restarts < MaxRestarts /\ ~Locked
  /\ daemon' = "shared" /\ restarts' = restarts + 1 /\ migrated' = FALSE
  /\ old' = IF old = None THEN Now ELSE old
  /\ given' = IF old = None THEN given \cup 1 .. stored ELSE given
  /\ UNCHANGED <<sink, keep, version, keys, superseded, retries, hand, mig,
                 delivered, migrates>>

\* split_refused: a producer pipeline needs store version 2.
StartProducers ==
  /\ daemon = "down" /\ restarts < MaxRestarts /\ ~Locked
  /\ version >= 2 /\ (MigrateFirst => migrated)
  /\ daemon' = "producers" /\ restarts' = restarts + 1
  /\ keys' = [w \in Producers |-> IF keys[w] = None THEN Now ELSE keys[w]]
  /\ given' = IF old = None
              THEN given \cup {i \in 1 .. stored : keys[owner[i]] = None} ELSE given
  /\ UNCHANGED <<sink, keep, version, old, superseded, retries, hand, mig,
                 delivered, migrated, migrates>>
-----------------------------------------------------------------------------
(* migrate *)

Fills(v) == 2 <= v /\ v <= Known
Missing == {w \in Producers : keys[w] = None}
FilledNot(k) == k
FilledOver(k) == [w \in Producers |-> old]
Filled(k) == [w \in Producers |-> IF k[w] = None THEN old ELSE k[w]]

\* _split_pskreporter, as migration 2 runs it.
Split(v, k) == IF v < 2 THEN Filled(k) ELSE k

\* _sink_holds: a row at or before the old record proves that retention,
\* which trims oldest first, took none after it.
SinkHoldsAny == mig.sink /\ old # None /\ rows # {}
SinkHolds == mig.sink /\ old # None /\ \E i \in rows : i <= old

\* _plan_retries: every retry has the same record and so the same fate.
OldRetries == {d \in retries : d.pipe = Shared}
Plan(proved) ==
  IF OldRetries = {} THEN "stay"
  ELSE IF proved THEN "delete"
  ELSE IF mig.keeper # Shared THEN "move" ELSE "stay"

\* Options: whether --sink names a readable sink, and --keep-retry-for
\* (Shared stands for none).
Start ==
  /\ mig.step = "idle" /\ migrates < MaxMigrates
  /\ migrates' = migrates + 1
  /\ \E s \in BOOLEAN, k \in Pipes :
       mig' = [NoMigrate EXCEPT !.step = "begin", !.sink = s, !.keeper = k]
  /\ UNCHANGED <<sink, keep, store, daemon, hand, delivered, given, migrated, restarts>>

\* What the unlocked look finds to do.
NeedsWork ==
  \/ version < Known
  \/ Fills(version) /\ old # None /\ Missing # {}
  \/ Plan(SinkHolds /\ (Fills(version) \/ Missing = {})) # "stay"
NothingToDo ==
  /\ mig.step = "begin" /\ ~NeedsWork
  /\ mig' = NoMigrate /\ migrated' = TRUE
  /\ UNCHANGED <<sink, keep, store, daemon, hand, delivered, given, restarts, migrates>>

\* The lock, then every migration above the version, then the fill.
Begin ==
  /\ mig.step = "begin" /\ NeedsWork
  /\ LET v == IF version < Known THEN Known ELSE version
         k == Split(version, keys)
     IN mig' = [mig EXCEPT !.step = "plan", !.version = v,
                           !.keys = IF Fills(v) THEN Filled(k) ELSE k]
  /\ UNCHANGED <<sink, keep, store, daemon, hand, history>>

Decide ==
  /\ mig.step = "plan"
  /\ mig' = [mig EXCEPT !.step = "commit",
               !.act = Plan(SinkHolds /\ \A w \in Producers : mig.keys[w] # None)]
  /\ UNCHANGED <<sink, keep, store, daemon, hand, history>>

\* _apply_retries and COMMIT.
Commit ==
  /\ mig.step = "commit"
  /\ version' = mig.version /\ keys' = mig.keys
  /\ superseded' = superseded \cup
       {w \in Producers : old # None /\ (version < 2 \/ keys[w] # mig.keys[w])}
  /\ retries' = CASE mig.act = "stay" -> retries
                  [] mig.act = "delete" -> retries \ OldRetries
                  [] mig.act = "move" -> (retries \ OldRetries) \cup
                       {[d EXCEPT !.pipe = mig.keeper] : d \in OldRetries}
  /\ mig' = NoMigrate /\ migrated' = TRUE
  /\ UNCHANGED <<sink, keep, old, daemon, hand, delivered, given, restarts, migrates>>

\* An error, a kill or a power cut before COMMIT: the journal rolls back.
MigrateDies ==
  /\ mig.step # "idle" /\ mig' = NoMigrate
  /\ UNCHANGED <<sink, keep, store, daemon, hand, history>>
-----------------------------------------------------------------------------
(* The sink *)

Store ==
  /\ stored < MaxId /\ stored' = stored + 1
  /\ rows' = rows \cup {stored + 1}
  /\ \E w \in Producers : owner' = Append(owner, w)
  /\ UNCHANGED <<keep, store, daemon, hand, mig, history>>

\* Retention trims oldest first; a row no job holds is given up.  Proved: migrate
\* has seen that the sink holds the rows of the retries, and has yet to commit
\* that they go.
Proved == mig.step = "commit" /\ mig.act = "delete"
Trim ==
  /\ Proved => TrimBetween
  /\ \E i \in rows :
       /\ \A j \in rows : i <= j
       /\ rows' = rows \ {i}
       /\ given' = IF HeldElsewhere(i, retries) THEN given ELSE given \cup {i}
  /\ UNCHANGED <<stored, owner, keep, store, daemon, hand, mig, delivered, migrated,
                 restarts, migrates>>
-----------------------------------------------------------------------------
PipeStep(p) == Read(p) \/ Pop(p) \/ Ack(p) \/ Queue(p) \/ GiveUp(p)
MigrateStep == Start \/ NothingToDo \/ Begin \/ Decide \/ Commit \/ MigrateDies
Next ==
  \/ \E p \in Pipes : PipeStep(p)
  \/ StartShared \/ StartProducers \/ Stop \/ MigrateStep \/ Store \/ Trim

Spec == Init /\ [][Next]_vars
-----------------------------------------------------------------------------
(* Properties *)

\* No row is skipped: over every interleaving of migrates, crashes of
\* migrate, rollbacks to the shared pipeline and retries, a row is sent, or
\* waits in a retry, or is in the sink past the record its producer's
\* pipeline starts from -- unless retention took it while no job held it, or a
\* first start at now passed it.
Successor(w) == IF keys[w] = None THEN old ELSE keys[w]
NoRowSkipped ==
  \A i \in 1 .. stored :
    \/ i \in delivered \/ i \in given \/ HeldElsewhere(i, retries)
    \/ i \in rows /\ i > Successor(owner[i])

\* A retry migrate deletes is read again: each row of it is sent already, or
\* in the sink past its producer's record ("The pass never deletes a retry it
\* cannot prove that for, so repeating it cannot skip a row").  False with
\* TrimBetween.
DeletedRetryIsReread ==
  [][Commit /\ mig.act = "delete" =>
       \A d \in OldRetries : \A i \in d.rows :
         \/ i \in delivered \/ i \in given \/ HeldElsewhere(i, retries')
         \/ i \in rows /\ i > keys'[owner[i]]]_vars

\* No migrate moves a record that exists: the old one stays frozen, and a
\* producer's moves forward by that producer's acknowledgements alone.
RecordsStand ==
  [][/\ \A w \in Producers : keys[w] # None =>
          /\ keys'[w] >= keys[w]
          /\ keys'[w] # keys[w] => hand[w] # hand'[w]
     /\ old # None => old' >= old]_vars

============================================================================
