---------------------------- MODULE MigrateProofs ----------------------------
(***************************************************************************)
(* Proofs about module Migrate, for any number of producers, rows, starts  *)
(* and migrates, when a migrate ends before the producer pipelines start   *)
(* (MigrateFirst), and retention takes no row between migrate's look into  *)
(* the sink and its commit (~TrimBetween): where it does, TLC finds a row  *)
(* of a deleted retry lost.                                                *)
(*                                                                         *)
(* NoRowSkipped speaks of records that stand; the invariant also speaks of *)
(* what will move them.  Settled: a record, the old one included, has      *)
(* passed no row of the sink that is not done with, so copying it skips    *)
(* none.  JobsCover: an acknowledgement passes no row but those of its     *)
(* job.  AnOldJob: the shared pipeline has one job at most, ahead of its   *)
(* record.  TrimmedInOrder: a row left at or before a position proves that *)
(* retention took nothing after it.  These two are why a row at or before  *)
(* the old record proves that a retry can be deleted (Reread).  Planned:   *)
(* the lock keeps the records as migrate read them.                        *)
(***************************************************************************)
EXTENDS Migrate, SequenceTheorems, TLAPS

\* A row nobody need send any more.
Done(i) == i \in delivered \cup given

Settled == \A i \in rows : i <= old \/ i <= keys[owner[i]] => Done(i)

Kept == \A i \in 1 .. stored : i \in rows \/ Done(i) \/ HeldElsewhere(i, retries)

TrimmedInOrder == \A j \in rows, i \in 1 .. stored : j <= i => i \in rows \/ Done(i)

Covers(p, upto, R) ==
  /\ upto \in 1 .. stored /\ R \subseteq 1 .. stored
  /\ \A i \in rows : Reads(p, i) /\ Record(p) < i /\ i <= upto => i \in R \/ Done(i)
JobsCover ==
  /\ \A p \in Pipes : hand[p] # NoJob => Covers(p, hand[p].upto, hand[p].rows)
  /\ \A d \in retries : Covers(d.pipe, d.upto, d.rows)

Ahead(R) == old # None /\ \A i \in R : i > old
AnOldJob ==
  /\ daemon = "shared" => old # None
  /\ hand[Shared] # NoJob => OldRetries = {} /\ Ahead(hand[Shared].rows)
  /\ \A d \in OldRetries : OldRetries = {d} /\ Ahead(d.rows)

Planned ==
  /\ Locked => mig.keys = Filled(keys) /\ mig.version = Known
  /\ migrated /\ old # None => Missing = {}

Reread ==
  Proved => \A d \in OldRetries : \A i \in d.rows :
              i \in rows \/ Done(i) \/ HeldElsewhere(i, retries \ OldRetries)

IInv ==
  /\ TypeOK /\ Settled /\ Kept /\ TrimmedInOrder /\ JobsCover /\ AnOldJob
  /\ Planned /\ Reread
-----------------------------------------------------------------------------
(* Facts about the operators *)

\* A record is a position at or before the newest row.
LEMMA Numbers ==
  ASSUME TypeOK
  PROVE  /\ stored \in Nat /\ old \in Int /\ None = -1 /\ MaxId \in Nat
         /\ old \in None .. stored
         /\ \A w \in Producers : keys[w] \in None .. stored /\ keys[w] \in Int
         /\ \A p \in Pipes : Record(p) \in None .. stored /\ Record(p) \in Int
         /\ rows \subseteq Nat \ {0} /\ \A i \in rows : i \in 1 .. stored /\ owner[i] \in Producers
BY MigrateAssumption DEF TypeOK, None, Record, Pipes

\* An empty job holds no row.
LEMMA NoJobFields == NoJob \in Jobs /\ NoJob.upto = 0 /\ NoJob.rows = {}
BY MigrateAssumption DEF NoJob, Jobs

\* A producer stores a row: the rows before keep their owners.
LEMMA OwnerGrows ==
  ASSUME TypeOK, NEW w \in Producers
  PROVE  /\ Append(owner, w) \in [1 .. stored + 1 -> Producers]
         /\ \A i \in 1 .. stored : Append(owner, w)[i] = owner[i]
<1>1. stored \in Nat /\ owner \in [1 .. stored -> Producers]
  BY MigrateAssumption DEF TypeOK
<1>2. owner \in Seq(Producers) /\ Len(owner) = stored
  BY <1>1
<1>3. /\ Append(owner, w) \in Seq(Producers) /\ Len(Append(owner, w)) = stored + 1
      /\ \A i \in 1 .. stored : Append(owner, w)[i] = owner[i]
  BY <1>2, AppendProperties
<1>4. \A f \in Seq(Producers) : f \in [1 .. Len(f) -> Producers]
  OBVIOUS
<1> QED  BY <1>3, <1>4

\* What is known of the sink, and of a job, stands while no row and no record
\* moves: no row becomes undone.
LEMMA QuietKeeps ==
  ASSUME UNCHANGED <<sink, old, keys>>,
         delivered \subseteq delivered', given \subseteq given'
  PROVE  /\ \A i : Done(i) => Done(i)'
         /\ Settled => Settled'
         /\ TrimmedInOrder => TrimmedInOrder'
         /\ \A p, upto, R : Covers(p, upto, R) => Covers(p, upto, R)'
         /\ \A R : Ahead(R) => Ahead(R)'
<1>1. \A i : Done(i) => Done(i)'
  BY DEF Done
<1>2. /\ stored' = stored /\ rows' = rows /\ owner' = owner /\ old' = old /\ keys' = keys
  BY DEF sink
<1>3. \A p, i : Record(p)' = Record(p) /\ (Reads(p, i)' <=> Reads(p, i))
  BY <1>2 DEF Record, Reads
<1> QED  BY <1>1, <1>2, <1>3 DEF Settled, TrimmedInOrder, Covers, Ahead

\* Nothing is stored, running or waiting.
LEMMA InitInv == Init => IInv
<1> SUFFICES ASSUME Init
             PROVE  IInv
  OBVIOUS
<1>1. TypeOK
  <2>1. owner \in [1 .. 0 -> Producers]
    BY DEF Init
  <2>2. mig.keys \in [Producers -> Positions] /\ NoMigrate.step = "idle"
    BY MigrateAssumption DEF Init, NoMigrate, Positions, None
  <2>3. mig \in [step : {"idle", "begin", "plan", "commit"}, sink : BOOLEAN,
                keeper : Pipes, version : 0 .. Known, keys : [Producers -> Positions],
                act : {"delete", "move", "stay"}]
    BY <2>2 DEF Init, NoMigrate, Known, Pipes
  <2>4. hand \in [Pipes -> Jobs]
    BY NoJobFields DEF Init
  <2>5. /\ stored \in 0 .. MaxId /\ rows \subseteq 1 .. stored
        /\ owner \in [1 .. stored -> Producers] /\ keep \in BOOLEAN
        /\ version \in 0 .. Known /\ old \in None .. stored
    BY <2>1, MigrateAssumption DEF Init, None, Known
  <2>6. /\ keys \in [Producers -> None .. stored]
        /\ restarts \in 0 .. MaxRestarts /\ migrates \in 0 .. MaxMigrates
    BY MigrateAssumption DEF Init, None
  <2> QED  BY <2>3, <2>4, <2>5, <2>6 DEF Init, TypeOK
<1>2. Settled /\ Kept /\ TrimmedInOrder /\ JobsCover
  BY DEF Init, Settled, Kept, TrimmedInOrder, JobsCover
<1>3. AnOldJob /\ Planned /\ Reread
  BY DEF Init, AnOldJob, OldRetries, Planned, Locked, Reread, Proved, NoMigrate, Pipes
<1> QED  BY <1>1, <1>2, <1>3 DEF IInv
-----------------------------------------------------------------------------
(* The pipelines *)

\* A read takes every row past the record up to its position.
LEMMA ReadInv ==
  ASSUME IInv, NEW p \in Pipes, Read(p)
  PROVE  IInv'
<1>1. PICK upto, job :
      /\ upto \in rows /\ Reads(p, upto) /\ upto > Record(p)
      /\ job = [upto |-> upto, rows |-> {i \in rows : Reads(p, i) /\ i > Record(p) /\ i <= upto}]
      /\ hand' = [hand EXCEPT ![p] = job]
      /\ Runs(p) /\ hand[p] = NoJob /\ \A d \in retries : d.pipe # p
      /\ UNCHANGED <<sink, keep, store, daemon, mig, history>>
  BY DEF Read
<1>2. TypeOK /\ stored' = stored /\ rows' = rows /\ UNCHANGED <<sink, old, keys>>
      /\ delivered' = delivered /\ given' = given /\ retries' = retries
  BY <1>1 DEF IInv, sink, store, history
<1>3. upto \in 1 .. stored /\ job.rows \subseteq 1 .. stored /\ job \in Jobs
      /\ job # NoJob /\ stored <= MaxId
  <2>1. upto \in 1 .. stored /\ stored \in Nat /\ MaxId \in Nat /\ stored <= MaxId
    BY <1>1, <1>2, Numbers DEF TypeOK
  <2>2. job.rows \subseteq 1 .. stored /\ job.upto = upto
    BY <1>1, <1>2 DEF TypeOK
  <2>3. job \in Jobs
    BY <1>1, <2>1, <2>2 DEF Jobs
  <2> QED  BY <2>1, <2>2, <2>3, NoJobFields
<1>4. hand' \in [Pipes -> Jobs] /\ hand'[p] = job /\ \A q \in Pipes \ {p} : hand'[q] = hand[q]
  BY <1>1, <1>2, <1>3 DEF TypeOK
<1>5. TypeOK'
  BY <1>1, <1>2, <1>4 DEF TypeOK, sink, store, history
<1>6. Settled' /\ TrimmedInOrder'
  BY <1>2, QuietKeeps DEF IInv
<1>7. ASSUME NEW i, NEW R, HeldElsewhere(i, R)
      PROVE  HeldElsewhere(i, R)'
  BY <1>1, <1>4, <1>7, NoJobFields DEF HeldElsewhere
<1>8. Kept' /\ Reread'
  BY <1>1, <1>2, <1>7, Zenon
     DEF IInv, Kept, Reread, Proved, OldRetries, Done
<1>9. JobsCover'
  <2>1. Covers(p, upto, job.rows)
    BY <1>1, <1>2, <1>3, Numbers DEF Covers
  <2>2. \A q \in Pipes : hand'[q] # NoJob => Covers(q, hand'[q].upto, hand'[q].rows)
    BY <1>1, <1>4, <2>1 DEF IInv, JobsCover
  <2>3. \A q \in Pipes : (hand[q] # NoJob => Covers(q, hand[q].upto, hand[q].rows))'
    BY <1>2, <2>2 DEF Covers, Done, Reads, Record, sink
  <2>4. \A d \in retries : Covers(d.pipe, d.upto, d.rows)'
    BY <1>2, QuietKeeps DEF IInv, JobsCover
  <2> QED  BY <1>2, <2>3, <2>4 DEF JobsCover
<1>10. AnOldJob'
  <2>1. CASE p = Shared
    <3>1. OldRetries = {} /\ old # None
      BY <1>1, <2>1 DEF OldRetries, Runs, IInv, AnOldJob
    <3>2. Ahead(job.rows)
      BY <1>1, <2>1, <3>1 DEF Ahead, Record
    <3> QED  BY <1>1, <1>2, <1>4, <2>1, <3>1, <3>2 DEF AnOldJob, OldRetries, Ahead
  <2>2. CASE p # Shared
    BY <1>1, <1>2, <1>4, <2>2 DEF IInv, AnOldJob, OldRetries, Ahead, Pipes
  <2> QED  BY <2>1, <2>2
<1>11. Planned'
  BY <1>1, <1>2 DEF IInv, Planned, Locked, Filled, Missing, history
<1> QED  BY <1>5, <1>6, <1>8, <1>9, <1>10, <1>11 DEF IInv

\* A retry and a batch in hand change places.
LEMMA PopQueueInv ==
  ASSUME IInv, NEW p \in Pipes, Pop(p) \/ Queue(p)
  PROVE  IInv'
<1>1. /\ UNCHANGED <<sink, keep, version, old, keys, superseded, daemon, mig, history>>
      /\ ~Locked /\ TypeOK
  BY DEF IInv, Pop, Queue
<1>2. PICK d :
      /\ d \in [pipe : Pipes, upto : 1 .. MaxId, rows : SUBSET (1 .. MaxId)]
      /\ d.pipe = p
      /\ \/ /\ d \in retries /\ retries' = retries \ {d} /\ hand[p] = NoJob
            /\ hand' = [hand EXCEPT ![p] = [upto |-> d.upto, rows |-> d.rows]]
         \/ /\ retries' = retries \cup {d} /\ hand[p] # NoJob
            /\ d.upto = hand[p].upto /\ d.rows = hand[p].rows
            /\ hand' = [hand EXCEPT ![p] = NoJob]
  <2>1. CASE Pop(p)
    BY <1>1, <2>1 DEF Pop, TypeOK
  <2>2. CASE Queue(p)
    <3>1. Covers(p, hand[p].upto, hand[p].rows) /\ stored \in Nat /\ stored <= MaxId
          /\ MaxId \in Nat
      BY <1>1, <2>2, Numbers DEF Queue, IInv, JobsCover, TypeOK
    <3>2. hand[p].upto \in 1 .. MaxId /\ hand[p].rows \in SUBSET (1 .. MaxId)
      BY <3>1 DEF Covers
    <3>3. [pipe |-> p, upto |-> hand[p].upto, rows |-> hand[p].rows]
            \in [pipe : Pipes, upto : 1 .. MaxId, rows : SUBSET (1 .. MaxId)]
      BY <3>2
    <3> QED  BY <2>2, <3>3 DEF Queue
  <2> QED  BY <2>1, <2>2
<1>3. /\ Covers(p, d.upto, d.rows)
      /\ hand' \in [Pipes -> Jobs] /\ \A q \in Pipes \ {p} : hand'[q] = hand[q]
      /\ retries' \subseteq [pipe : Pipes, upto : 1 .. MaxId, rows : SUBSET (1 .. MaxId)]
      /\ hand'[p] # NoJob => hand'[p].upto = d.upto /\ hand'[p].rows = d.rows
      /\ \A e \in retries' : e = d \/ e \in retries
  <2>1. Covers(p, d.upto, d.rows)
    BY <1>2 DEF IInv, JobsCover
  <2>2. [upto |-> d.upto, rows |-> d.rows] \in Jobs
    BY <1>2, MigrateAssumption DEF Jobs
  <2>3. hand \in [Pipes -> Jobs] /\ hand' \in [Pipes -> Jobs]
        /\ \A q \in Pipes \ {p} : hand'[q] = hand[q]
    <3>1. PICK job \in Jobs : hand' = [hand EXCEPT ![p] = job]
      BY <1>2, <2>2, NoJobFields
    <3> QED  BY <1>1, <3>1 DEF TypeOK
  <2>4. hand'[p] # NoJob => hand'[p].upto = d.upto /\ hand'[p].rows = d.rows
    BY <1>2, <2>3
  <2>5. retries' \subseteq [pipe : Pipes, upto : 1 .. MaxId, rows : SUBSET (1 .. MaxId)]
    BY <1>1, <1>2 DEF TypeOK
  <2> QED  BY <1>2, <2>1, <2>3, <2>4, <2>5
<1>4. TypeOK'
  BY <1>1, <1>3 DEF TypeOK, sink, history
<1>5. /\ UNCHANGED <<sink, old, keys>> /\ stored' = stored /\ rows' = rows
      /\ delivered' = delivered /\ given' = given
  BY <1>1 DEF sink, history
<1>6. Settled' /\ TrimmedInOrder'
  BY <1>5, QuietKeeps DEF IInv
<1>7. Kept'
  <2>1. ASSUME NEW i, HeldElsewhere(i, retries)
        PROVE  HeldElsewhere(i, retries)'
    <3>1. CASE \E e \in retries : i \in e.rows
      BY <1>2, <1>3, <3>1 DEF HeldElsewhere
    <3>2. CASE \E q \in Pipes : i \in hand[q].rows
      BY <1>2, <1>3, <3>2, NoJobFields DEF HeldElsewhere
    <3> QED  BY <2>1, <3>1, <3>2 DEF HeldElsewhere
  <2> QED  BY <1>5, <2>1 DEF IInv, Kept, Done
<1>8. JobsCover'
  <2>1. \A q, u, R : Covers(q, u, R) => Covers(q, u, R)'
    BY <1>5, QuietKeeps
  <2>2. \A q \in Pipes : (hand[q] # NoJob => Covers(q, hand[q].upto, hand[q].rows))'
    BY <1>3, <2>1 DEF IInv, JobsCover
  <2>3. \A e \in retries' : Covers(e.pipe, e.upto, e.rows)'
    BY <1>2, <1>3, <2>1 DEF IInv, JobsCover
  <2> QED  BY <2>2, <2>3 DEF JobsCover
<1>9. AnOldJob'
  <2>1. CASE p = Shared
    BY <1>1, <1>2, <1>3, <2>1 DEF IInv, AnOldJob, OldRetries, Ahead
  <2>2. CASE p # Shared
    <3>1. Shared \in Pipes \ {p} /\ OldRetries' = OldRetries
      BY <1>2, <2>2 DEF OldRetries, Pipes
    <3> QED  BY <1>1, <1>3, <3>1 DEF IInv, AnOldJob, Ahead
  <2> QED  BY <2>1, <2>2
<1>10. Planned' /\ Reread'
  BY <1>1 DEF IInv, Planned, Locked, Missing, Reread, Proved, history
<1> QED  BY <1>4, <1>6, <1>7, <1>8, <1>9, <1>10 DEF IInv

\* An acknowledgement passes the rows of its job alone, and deletes none that
\* is not sent.
LEMMA AckInv ==
  ASSUME IInv, NEW p \in Pipes, Ack(p)
  PROVE  IInv'
<1>1. PICK upto, R :
      /\ upto = hand[p].upto /\ R = hand[p].rows
      /\ hand[p] # NoJob /\ ~Locked
      /\ delivered' = delivered \cup R
      /\ rows' = IF keep THEN rows ELSE {i \in rows : ~(Reads(p, i) /\ i <= upto)}
      /\ hand' = [hand EXCEPT ![p] = NoJob]
      /\ IF p = Shared
         THEN old' = (IF upto > old THEN upto ELSE old) /\ UNCHANGED keys
         ELSE keys' = [keys EXCEPT ![p] = IF upto > keys[p] THEN upto ELSE keys[p]]
              /\ UNCHANGED old
      /\ UNCHANGED <<stored, owner, keep, version, superseded, retries, daemon, mig,
                     given, migrated, restarts, migrates>>
  BY DEF Ack
<1>2. /\ TypeOK /\ Covers(p, upto, R)
      /\ upto \in 1 .. stored /\ R \subseteq 1 .. stored /\ stored \in Nat /\ upto \in Int
  BY <1>1, Numbers DEF IInv, JobsCover, Covers
<1>3. p # Shared => p \in Producers
  BY DEF Pipes
<1>4. /\ old' \in None .. stored /\ keys' \in [Producers -> None .. stored]
      /\ old' \in Int /\ \A w \in Producers : keys'[w] \in Int
  <2>1. CASE p = Shared
    <3>1. old' = (IF upto > old THEN upto ELSE old) /\ keys' = keys
      BY <1>1, <2>1
    <3>2. old \in None .. stored /\ None = -1 /\ \A w \in Producers : keys[w] \in Int
      BY <1>2, Numbers
    <3>3. old' \in None .. stored
      BY <1>2, <3>1, <3>2
    <3>4. keys' \in [Producers -> None .. stored]
      BY <1>2, <3>1 DEF TypeOK
    <3>5. old' \in Int
      BY <1>2, <3>2, <3>3
    <3> QED  BY <3>1, <3>2, <3>3, <3>4, <3>5
  <2>2. CASE p # Shared
    <3>1. PICK next : /\ next = IF upto > keys[p] THEN upto ELSE keys[p]
                      /\ keys' = [keys EXCEPT ![p] = next]
      BY <1>1, <2>2
    <3>2. keys[p] \in None .. stored /\ None = -1
      BY <1>2, <1>3, <2>2, Numbers
    <3>3. next \in None .. stored
      BY <1>2, <3>1, <3>2
    <3>4. keys' \in [Producers -> None .. stored]
      BY <1>2, <3>1, <3>3 DEF TypeOK
    <3> QED  BY <1>1, <1>2, <2>2, <3>2, <3>4, Numbers
  <2> QED  BY <2>1, <2>2
<1>5. /\ hand' \in [Pipes -> Jobs] /\ \A q \in Pipes \ {p} : hand'[q] = hand[q]
      /\ hand'[p] = NoJob
  BY <1>1, <1>2, NoJobFields DEF TypeOK
<1>6. TypeOK'
  BY <1>1, <1>2, <1>4, <1>5 DEF TypeOK
<1>7. \A i : (Done(i) => Done(i)') /\ (i \in R => Done(i)')
  BY <1>1 DEF Done
<1>8. \A i \in rows : Reads(p, i) /\ i <= upto => Done(i)'
  <2> SUFFICES ASSUME NEW i \in rows, Reads(p, i), i <= upto
               PROVE  Done(i)'
    OBVIOUS
  <2>1. i \in Int /\ Record(p) \in Int
    BY <1>2, Numbers
  <2>2. CASE Record(p) < i
    BY <1>2, <1>7, <2>2 DEF Covers
  <2>3. CASE i <= Record(p)
    <3>1. i <= old \/ i <= keys[owner[i]]
      BY <2>3 DEF Record, Reads
    <3> QED  BY <1>7, <3>1 DEF IInv, Settled
  <2> QED  BY <2>1, <2>2, <2>3
<1>9. Settled'
  <2> SUFFICES ASSUME NEW i \in rows', i <= old' \/ i <= keys'[owner[i]]
               PROVE  Done(i)'
    BY <1>1 DEF Settled
  <2>1. i \in rows /\ i \in Int /\ owner[i] \in Producers /\ old \in Int
    BY <1>1, <1>2, Numbers
  <2>2. CASE i <= old \/ i <= keys[owner[i]]
    BY <1>7, <2>1, <2>2 DEF IInv, Settled
  <2>3. CASE ~(i <= old \/ i <= keys[owner[i]])
    <3>1. i <= upto /\ Reads(p, i)
      <4>1. CASE p = Shared
        BY <1>1, <2>3, <4>1 DEF Reads
      <4>2. CASE p # Shared
        BY <1>1, <1>2, <1>3, <2>1, <2>3, <4>2 DEF Reads, TypeOK
      <4> QED  BY <4>1, <4>2
    <3> QED  BY <1>8, <2>1, <3>1
  <2> QED  BY <2>2, <2>3
<1>10. \A i \in rows : i \in rows' \/ Done(i)'
  BY <1>1, <1>8
<1>11. TrimmedInOrder'
  BY <1>1, <1>7, <1>10 DEF IInv, TrimmedInOrder
<1>12. Kept'
  <2>1. ASSUME NEW i, HeldElsewhere(i, retries)
        PROVE  HeldElsewhere(i, retries)' \/ Done(i)'
    BY <1>1, <1>5, <1>7, <2>1 DEF HeldElsewhere
  <2> QED  BY <1>1, <1>7, <1>10, <2>1 DEF IInv, Kept
<1>13. ASSUME NEW q \in Pipes, NEW u, NEW S, Covers(q, u, S)
       PROVE  Covers(q, u, S)'
  <2>1. Record(q) <= Record(q)'
    <3>1. CASE q = Shared
      BY <1>1, <1>2, <3>1, Numbers DEF Record
    <3>2. CASE q # Shared
      <4>1. q \in Producers /\ keys[q] \in Int /\ keys \in [Producers -> None .. stored]
        BY <1>2, <3>2, Numbers DEF Pipes, TypeOK
      <4>2. keys[q] <= keys'[q]
        BY <1>1, <1>2, <4>1
      <4> QED  BY <3>2, <4>2 DEF Record
    <3> QED  BY <3>1, <3>2
  <2>2. Record(q) \in Int /\ Record(q)' \in Int /\ rows \subseteq Int /\ rows' \subseteq rows
    BY <1>1, <1>2, <1>4, Numbers DEF Record, Pipes
  <2> QED  BY <1>1, <1>7, <1>13, <2>1, <2>2 DEF Covers, Reads
<1>14. JobsCover'
  <2>1. \A q \in Pipes : (hand[q] # NoJob => Covers(q, hand[q].upto, hand[q].rows))'
    BY <1>5, <1>13 DEF IInv, JobsCover
  <2>2. \A d \in retries : Covers(d.pipe, d.upto, d.rows)'
    BY <1>2, <1>13 DEF IInv, JobsCover, TypeOK
  <2> QED  BY <1>1, <2>1, <2>2 DEF JobsCover
<1>15. AnOldJob'
  <2>1. old # None => old' # None
    BY <1>1, <1>2, Numbers
  <2>2. CASE p = Shared
    BY <1>1, <1>5, <2>1, <2>2 DEF IInv, AnOldJob, OldRetries
  <2>3. CASE p # Shared
    BY <1>1, <1>5, <2>3 DEF IInv, AnOldJob, OldRetries, Ahead, Pipes
  <2> QED  BY <2>2, <2>3
<1>16. Planned'
  <2>1. old' # None => old # None
    BY <1>1, <1>2 DEF IInv, AnOldJob, Ahead
  <2>2. \A w \in Producers : keys[w] # None => keys'[w] # None
    BY <1>1, <1>2, <1>3, Numbers DEF TypeOK
  <2> QED  BY <1>1, <2>1, <2>2 DEF IInv, Planned, Locked, Missing
<1>17. Reread'
  BY <1>1 DEF Reread, Proved, Locked
<1> QED  BY <1>6, <1>9, <1>11, <1>12, <1>14, <1>15, <1>16, <1>17 DEF IInv

\* A job that is dropped leaves its rows in the sink, or to retention.
LEMMA DropInv ==
  ASSUME IInv, (\E p \in Pipes : GiveUp(p)) \/ Stop
  PROVE  IInv'
<1>1. PICK P \in SUBSET Pipes :
      /\ hand' = [p \in Pipes |-> IF p \in P THEN NoJob ELSE hand[p]]
      /\ given' = given \cup UNION {hand[p].rows \ rows : p \in P}
      /\ daemon' = daemon \/ daemon' = "down"
      /\ UNCHANGED <<sink, keep, store, mig, delivered, migrated, restarts, migrates>>
  <2>1. ASSUME NEW p \in Pipes, GiveUp(p)
        PROVE  {p} \in SUBSET Pipes /\ Drop({p}) /\ daemon' = daemon
               /\ UNCHANGED <<sink, keep, store, mig, delivered, migrated, restarts, migrates>>
    BY <2>1 DEF GiveUp
  <2>2. CASE \E p \in Pipes : GiveUp(p)
    BY <2>1, <2>2 DEF Drop
  <2>3. CASE Stop
    BY <2>3 DEF Stop, Drop
  <2> QED  BY <2>2, <2>3
<1>2. /\ TypeOK /\ UNCHANGED <<stored, rows, owner, old, keys, retries, delivered>>
      /\ given \subseteq given' /\ UNCHANGED <<sink, old, keys>>
  BY <1>1 DEF IInv, sink, store
<1>3. \A p \in Pipes : hand[p].rows \subseteq 1 .. stored
  BY NoJobFields DEF IInv, JobsCover, Covers
<1>4. given' \subseteq 1 .. stored
  BY <1>1, <1>2, <1>3 DEF TypeOK
<1>5. /\ hand' \in [Pipes -> Jobs]
      /\ \A p \in Pipes : hand'[p] = hand[p] \/ hand'[p] = NoJob
  BY <1>1, <1>2, NoJobFields DEF TypeOK
<1>6. TypeOK'
  BY <1>1, <1>2, <1>4, <1>5 DEF TypeOK, sink, store
<1>7. Settled' /\ TrimmedInOrder'
  BY <1>2, QuietKeeps DEF IInv
<1>8. ASSUME NEW i, NEW R, HeldElsewhere(i, R), i \notin rows
      PROVE  HeldElsewhere(i, R)' \/ Done(i)'
  <2>1. CASE \E d \in R : i \in d.rows
    BY <2>1 DEF HeldElsewhere
  <2>2. CASE \E p \in Pipes : i \in hand[p].rows
    BY <1>1, <1>8, <2>2 DEF HeldElsewhere, Done
  <2> QED  BY <1>8, <2>1, <2>2 DEF HeldElsewhere
<1>9. Kept'
  BY <1>2, <1>8 DEF IInv, Kept, Done
<1>10. Reread'
  <2> SUFFICES ASSUME Proved, NEW d \in OldRetries, NEW i \in d.rows, i \notin rows, ~Done(i)'
               PROVE  HeldElsewhere(i, retries \ OldRetries)'
    BY <1>1, <1>2 DEF Reread, Proved, OldRetries
  <2>1. HeldElsewhere(i, retries \ OldRetries)
    BY <1>2 DEF IInv, Reread, Done
  <2>2. (retries \ OldRetries)' = retries \ OldRetries
    BY <1>2 DEF OldRetries
  <2>3. PICK R : R = retries \ OldRetries
    OBVIOUS
  <2> QED  BY <1>8, <2>1, <2>2, <2>3
<1>11. JobsCover'
  <2>1. \A p, u, R : Covers(p, u, R) => Covers(p, u, R)'
    BY <1>2, QuietKeeps
  <2> QED  BY <1>2, <1>5, <2>1 DEF IInv, JobsCover
<1>12. AnOldJob'
  <2>1. Shared \in Pipes /\ OldRetries' = OldRetries
    BY <1>2 DEF OldRetries, Pipes
  <2> QED  BY <1>1, <1>2, <1>5, <2>1 DEF IInv, AnOldJob, Ahead
<1>13. Planned'
  BY <1>1, <1>2 DEF IInv, Planned, Locked, Filled, Missing
<1> QED  BY <1>6, <1>7, <1>9, <1>10, <1>11, <1>12, <1>13 DEF IInv

\* A step that moves records forward, and neither rows nor jobs, leaves what
\* is known of the jobs.
LEMMA RecordsForward ==
  ASSUME TypeOK, TypeOK', UNCHANGED <<sink, retries, hand>>,
         delivered \subseteq delivered', given \subseteq given',
         old <= old', \A w \in Producers : keys[w] <= keys'[w]
  PROVE  /\ JobsCover => JobsCover'
         /\ Kept => Kept'
         /\ TrimmedInOrder => TrimmedInOrder'
<1>1. UNCHANGED <<stored, rows, owner, retries, hand>>
  BY DEF sink
<1>2. \A i : Done(i) => Done(i)'
  BY DEF Done
<1>3. \A p \in Pipes : /\ Record(p) <= Record(p)' /\ Record(p) \in Int /\ Record(p)' \in Int
  BY Numbers, MigrateAssumption DEF Record, Pipes, TypeOK, None
<1>4. ASSUME NEW p \in Pipes, NEW u, NEW R, Covers(p, u, R)
      PROVE  Covers(p, u, R)'
  <2>1. rows \subseteq Int
    BY Numbers
  <2> QED  BY <1>1, <1>2, <1>3, <1>4, <2>1 DEF Covers, Reads
<1>5. \A d \in retries : d.pipe \in Pipes
  BY DEF TypeOK
<1> QED  BY <1>1, <1>2, <1>4, <1>5 DEF JobsCover, Kept, TrimmedInOrder, HeldElsewhere

\* A first start at now gives up what is stored.
LEMMA StartSharedInv ==
  ASSUME IInv, StartShared
  PROVE  IInv'
<1>1. /\ daemon = "down" /\ ~Locked /\ daemon' = "shared" /\ migrated' = FALSE
      /\ restarts < MaxRestarts /\ restarts' = restarts + 1
      /\ old' = IF old = None THEN stored ELSE old
      /\ given' = IF old = None THEN given \cup 1 .. stored ELSE given
      /\ UNCHANGED <<sink, keep, version, keys, superseded, retries, hand, mig,
                     delivered, migrates>>
      /\ TypeOK
  BY DEF IInv, StartShared, Now
<1>2. UNCHANGED <<stored, rows, owner>>
  BY <1>1 DEF sink
<1>3. old' \in None .. stored /\ old' # None /\ old <= old' /\ given' \subseteq 1 .. stored
  BY <1>1, Numbers DEF TypeOK
<1>4. TypeOK'
  <2>1. restarts' \in 0 .. MaxRestarts
    BY <1>1, MigrateAssumption DEF TypeOK
  <2> QED  BY <1>1, <1>2, <1>3, <2>1 DEF TypeOK
<1>5. Settled'
  <2>1. CASE old = None
    BY <1>1, <1>2, <2>1, Numbers DEF Settled, Done
  <2>2. CASE old # None
    BY <1>1, <1>2, <2>2 DEF IInv, Settled, Done
  <2> QED  BY <2>1, <2>2
<1>6. Kept' /\ TrimmedInOrder' /\ JobsCover'
  <2>1. \A w \in Producers : keys[w] <= keys'[w]
    BY <1>1, Numbers
  <2> QED  BY <1>1, <1>3, <1>4, <2>1, RecordsForward DEF IInv
<1>7. AnOldJob'
  BY <1>1, <1>3 DEF IInv, AnOldJob, OldRetries, Ahead
<1>8. Planned' /\ Reread'
  BY <1>1 DEF Planned, Reread, Proved, Locked
<1> QED  BY <1>4, <1>5, <1>6, <1>7, <1>8 DEF IInv

\* The producer pipelines start after a migrate, which filled their records, or
\* where no record ever was.
LEMMA StartProducersInv ==
  ASSUME MigrateFirst, IInv, StartProducers
  PROVE  IInv'
<1>1. /\ daemon = "down" /\ ~Locked /\ daemon' = "producers" /\ migrated
      /\ restarts < MaxRestarts /\ restarts' = restarts + 1
      /\ keys' = [w \in Producers |-> IF keys[w] = None THEN stored ELSE keys[w]]
      /\ given' = IF old = None
                  THEN given \cup {i \in 1 .. stored : keys[owner[i]] = None} ELSE given
      /\ UNCHANGED <<sink, keep, version, old, superseded, retries, hand, mig,
                     delivered, migrated, migrates>>
      /\ TypeOK
  BY DEF IInv, StartProducers, Now
<1>2. UNCHANGED <<stored, rows, owner>>
  BY <1>1 DEF sink
<1>3. /\ keys' \in [Producers -> None .. stored] /\ given' \subseteq 1 .. stored
      /\ \A w \in Producers : keys[w] <= keys'[w] /\ keys'[w] # None
  <2>1. ASSUME NEW w \in Producers
        PROVE  /\ keys'[w] \in None .. stored
               /\ keys[w] <= keys'[w] /\ keys'[w] # None
    BY <1>1, Numbers
  <2>2. given' \subseteq 1 .. stored
    BY <1>1 DEF TypeOK
  <2> QED  BY <1>1, <2>1, <2>2
<1>4. TypeOK'
  <2>1. restarts' \in 0 .. MaxRestarts
    BY <1>1, MigrateAssumption DEF TypeOK
  <2> QED  BY <1>1, <1>2, <1>3, <2>1 DEF TypeOK
<1>5. Settled'
  <2> SUFFICES ASSUME NEW i \in rows, i <= old \/ i <= keys'[owner[i]]
               PROVE  Done(i)'
    BY <1>1, <1>2 DEF Settled
  <2>1. owner[i] \in Producers /\ i \in 1 .. stored
    BY <1>1, Numbers
  <2>2. CASE i <= old \/ i <= keys[owner[i]]
    BY <1>1, <2>2 DEF IInv, Settled, Done
  <2>3. CASE ~(i <= old \/ i <= keys[owner[i]])
    <3>1. keys[owner[i]] = None
      BY <1>1, <2>1, <2>3
    <3>2. old = None
      BY <1>1, <2>1, <3>1 DEF IInv, Planned, Missing
    <3> QED  BY <1>1, <2>1, <3>1, <3>2 DEF Done
  <2> QED  BY <2>2, <2>3
<1>6. Kept' /\ TrimmedInOrder' /\ JobsCover'
  BY <1>1, <1>3, <1>4, Numbers, RecordsForward DEF IInv
<1>7. AnOldJob'
  BY <1>1 DEF IInv, AnOldJob, OldRetries, Ahead
<1>8. Planned' /\ Reread'
  BY <1>1, <1>3 DEF Planned, Reread, Proved, Locked, Missing
<1> QED  BY <1>4, <1>5, <1>6, <1>7, <1>8 DEF IInv
-----------------------------------------------------------------------------
(* migrate *)

\* The old record stands for a key that holds none.
LEMMA FilledType ==
  ASSUME TypeOK
  PROVE  /\ Filled(keys) \in [Producers -> None .. stored]
         /\ Filled(keys) \in [Producers -> Positions]
         /\ Filled(Filled(keys)) = Filled(keys)
<1>1. stored \in Nat /\ MaxId \in Nat /\ stored <= MaxId /\ old \in None .. stored
  BY Numbers DEF TypeOK
<1>2. Filled(keys) \in [Producers -> None .. stored]
  BY <1>1 DEF Filled, TypeOK
<1>3. None .. stored \subseteq Positions
  BY <1>1 DEF Positions, None
<1>4. Filled(keys) \in [Producers -> Positions]
  BY <1>2, <1>3
<1>5. \A w \in Producers : Filled(Filled(keys))[w] = Filled(keys)[w]
  BY DEF Filled
<1>6. Filled(Filled(keys)) = Filled(keys)
  BY <1>5 DEF Filled
<1> QED  BY <1>2, <1>4, <1>6

\* Up to its commit migrate only looks.  A row of the sink at or before the
\* old record proves that retention took no row a retry holds.
LEMMA LookInv ==
  ASSUME IInv, Start \/ NothingToDo \/ Begin \/ Decide \/ MigrateDies
  PROVE  IInv'
<1>1. /\ UNCHANGED <<sink, keep, store, daemon, hand, delivered, given, restarts>>
      /\ UNCHANGED <<stored, rows, owner, version, old, keys, superseded, retries>>
      /\ UNCHANGED <<sink, old, keys>> /\ TypeOK
  BY DEF IInv, Start, NothingToDo, Begin, Decide, MigrateDies, sink, store, history
<1>2. Settled' /\ TrimmedInOrder'
  BY <1>1, QuietKeeps DEF IInv
<1>3. Kept' /\ JobsCover' /\ AnOldJob'
  <2>1. \A p, u, R : Covers(p, u, R) => Covers(p, u, R)'
    BY <1>1, QuietKeeps
  <2> QED  BY <1>1, <2>1 DEF IInv, Kept, Done, HeldElsewhere, JobsCover, AnOldJob, OldRetries, Ahead
<1>4. NoMigrate \in [step : {"idle", "begin", "plan", "commit"}, sink : BOOLEAN,
              keeper : Pipes, version : 0 .. Known, keys : [Producers -> Positions],
              act : {"delete", "move", "stay"}]
  BY MigrateAssumption DEF NoMigrate, Pipes, Known, Positions, None
<1>5. CASE Start
  <2>1. PICK b \in BOOLEAN, k \in Pipes :
          mig' = [NoMigrate EXCEPT !.step = "begin", !.sink = b, !.keeper = k]
    BY <1>5 DEF Start
  <2>2. /\ mig'.step = "begin" /\ migrates' \in 0 .. MaxMigrates /\ migrated' = migrated
        /\ mig' \in [step : {"idle", "begin", "plan", "commit"}, sink : BOOLEAN,
              keeper : Pipes, version : 0 .. Known, keys : [Producers -> Positions],
              act : {"delete", "move", "stay"}]
    <3>1. migrates' \in 0 .. MaxMigrates /\ migrated' = migrated
      <4>1. /\ migrates < MaxMigrates /\ migrates' = migrates + 1 /\ migrated' = migrated
            /\ migrates \in 0 .. MaxMigrates
        BY <1>1, <1>5 DEF Start, TypeOK
      <4> QED  BY <4>1, MigrateAssumption
    <3> QED  BY <1>4, <2>1, <3>1
  <2>3. TypeOK'
    BY <1>1, <2>2 DEF TypeOK
  <2>4. Planned' /\ Reread'
    BY <1>1, <2>2 DEF IInv, Planned, Reread, Proved, Locked, Missing
  <2> QED  BY <1>2, <1>3, <2>3, <2>4 DEF IInv
<1>6. CASE NothingToDo \/ MigrateDies
  <2>1. mig' = NoMigrate /\ mig'.step = "idle" /\ migrates' = migrates /\ migrated' \in BOOLEAN
        /\ (migrated' => migrated \/ ~NeedsWork)
    <3>1. NoMigrate.step = "idle" /\ migrated \in BOOLEAN
      BY <1>1 DEF NoMigrate, TypeOK
    <3>2. CASE NothingToDo
      BY <3>1, <3>2 DEF NothingToDo
    <3>3. CASE MigrateDies
      BY <3>1, <3>3 DEF MigrateDies, history
    <3> QED  BY <1>6, <3>2, <3>3
  <2>2. TypeOK'
    BY <1>1, <1>4, <2>1 DEF TypeOK
  <2>3. ~NeedsWork => old = None \/ Missing = {}
    BY <1>1 DEF NeedsWork, Fills, Known, TypeOK
  <2>4. Planned' /\ Reread'
    BY <1>1, <2>1, <2>3 DEF IInv, Planned, Reread, Proved, Locked, Missing
  <2> QED  BY <1>2, <1>3, <2>2, <2>4 DEF IInv
<1>7. CASE Begin
  <2>1. PICK v, k :
          /\ v = IF version < Known THEN Known ELSE version
          /\ k = IF Fills(v) THEN Filled(Split(version, keys)) ELSE Split(version, keys)
          /\ mig' = [mig EXCEPT !.step = "plan", !.version = v, !.keys = k]
          /\ UNCHANGED history
    BY <1>7 DEF Begin
  <2>2. v = Known /\ k = Filled(keys)
    <3>1. v = Known /\ Fills(v)
      BY <1>1, <2>1 DEF Fills, Known, TypeOK
    <3> QED  BY <1>1, <2>1, <3>1, FilledType DEF Split
  <2>3. /\ mig'.step = "plan" /\ mig'.keys = Filled(keys) /\ mig'.version = Known
        /\ mig' \in [step : {"idle", "begin", "plan", "commit"}, sink : BOOLEAN,
              keeper : Pipes, version : 0 .. Known, keys : [Producers -> Positions],
              act : {"delete", "move", "stay"}]
    <3>1. v \in 0 .. Known /\ k \in [Producers -> Positions]
      BY <1>1, <2>2, FilledType DEF Known
    <3>2. mig \in [step : {"idle", "begin", "plan", "commit"}, sink : BOOLEAN,
              keeper : Pipes, version : 0 .. Known, keys : [Producers -> Positions],
              act : {"delete", "move", "stay"}]
      BY <1>1 DEF TypeOK
    <3> QED  BY <2>1, <2>2, <3>1, <3>2
  <2>4. TypeOK'
    BY <1>1, <2>1, <2>3 DEF TypeOK, history
  <2>5. Planned' /\ Reread'
    <3>1. Filled(keys)' = Filled(keys) /\ Missing' = Missing
      BY <1>1 DEF Filled, Missing
    <3> QED  BY <1>1, <2>1, <2>3, <3>1 DEF IInv, Planned, Reread, Proved, Locked, history
  <2> QED  BY <1>2, <1>3, <2>4, <2>5 DEF IInv
<1>8. CASE Decide
  <2>1. PICK act :
          /\ act = Plan(SinkHolds /\ \A w \in Producers : mig.keys[w] # None)
          /\ mig' = [mig EXCEPT !.step = "commit", !.act = act]
          /\ mig.step = "plan" /\ UNCHANGED history
    BY <1>8 DEF Decide
  <2>2. /\ act \in {"delete", "move", "stay"}
        /\ act = "delete" => SinkHolds
    BY <2>1 DEF Plan
  <2>3. /\ mig'.step = "commit" /\ mig'.keys = mig.keys /\ mig'.version = mig.version
        /\ mig'.act = act
        /\ mig' \in [step : {"idle", "begin", "plan", "commit"}, sink : BOOLEAN,
              keeper : Pipes, version : 0 .. Known, keys : [Producers -> Positions],
              act : {"delete", "move", "stay"}]
    BY <1>1, <2>1, <2>2 DEF TypeOK
  <2>4. TypeOK'
    BY <1>1, <2>1, <2>3 DEF TypeOK, history
  <2>5. Planned'
    <3>1. Filled(keys)' = Filled(keys) /\ Missing' = Missing
      BY <1>1 DEF Filled, Missing
    <3> QED  BY <1>1, <2>1, <2>3, <3>1 DEF IInv, Planned, Locked, history
  <2>6. Reread'
    <3> SUFFICES ASSUME SinkHolds, NEW d \in OldRetries, NEW i \in d.rows
                 PROVE  i \in rows \/ Done(i)
      BY <1>1, <2>2, <2>3 DEF Reread, Proved, OldRetries, Done
    <3>1. PICK j \in rows : j <= old
      BY DEF SinkHolds
    <3>2. i > old /\ i \in 1 .. stored
      BY DEF IInv, AnOldJob, Ahead, JobsCover, Covers, OldRetries
    <3>3. j <= i
      BY <1>1, <3>1, <3>2, Numbers
    <3> QED  BY <3>2, <3>3 DEF IInv, TrimmedInOrder
  <2> QED  BY <1>2, <1>3, <2>4, <2>5, <2>6 DEF IInv
<1> QED  BY <1>5, <1>6, <1>7, <1>8

\* The commit: a key that held none takes the old record, which passed no row;
\* a retry that is deleted was proved, one that is moved fits its keeper.
LEMMA CommitInv ==
  ASSUME IInv, Commit
  PROVE  IInv'
<1>1. /\ mig.step = "commit" /\ version' = mig.version /\ keys' = mig.keys
      /\ retries' = CASE mig.act = "stay" -> retries
                      [] mig.act = "delete" -> retries \ OldRetries
                      [] mig.act = "move" -> (retries \ OldRetries) \cup
                           {[d EXCEPT !.pipe = mig.keeper] : d \in OldRetries}
      /\ mig' = NoMigrate /\ migrated' = TRUE /\ superseded' \subseteq Producers
      /\ UNCHANGED <<stored, rows, owner, sink, keep, old, daemon, hand, delivered, given,
                     restarts, migrates>>
      /\ TypeOK
  BY DEF IInv, Commit, sink, TypeOK
<1>2. /\ keys' = Filled(keys) /\ version' \in 0 .. Known
      /\ keys' \in [Producers -> None .. stored]
  BY <1>1, FilledType DEF IInv, Planned, Locked, Known
<1>3. \A w \in Producers : /\ keys'[w] = IF keys[w] = None THEN old ELSE keys[w]
                           /\ keys[w] <= keys'[w]
  BY <1>1, <1>2, Numbers DEF Filled
<1>4. \A i : Done(i)' = Done(i)
  BY <1>1 DEF Done
\* Where each retry comes from.
<1>5. ASSUME NEW d \in retries'
      PROVE  \/ d \in retries
             \/ /\ mig.act = "move" /\ mig.keeper \in Pipes
                /\ \E e \in OldRetries : d = [e EXCEPT !.pipe = mig.keeper]
  BY <1>1, <1>5 DEF TypeOK
<1>6. retries' \subseteq [pipe : Pipes, upto : 1 .. MaxId, rows : SUBSET (1 .. MaxId)]
  <2>1. retries \subseteq [pipe : Pipes, upto : 1 .. MaxId, rows : SUBSET (1 .. MaxId)]
    BY <1>1 DEF TypeOK
  <2>2. ASSUME NEW e \in retries, mig.keeper \in Pipes
        PROVE  [e EXCEPT !.pipe = mig.keeper]
                 \in [pipe : Pipes, upto : 1 .. MaxId, rows : SUBSET (1 .. MaxId)]
    BY <2>1, <2>2
  <2> QED  BY <1>5, <2>1, <2>2 DEF OldRetries
<1>7. TypeOK'
  <2>1. NoMigrate \in [step : {"idle", "begin", "plan", "commit"}, sink : BOOLEAN,
              keeper : Pipes, version : 0 .. Known, keys : [Producers -> Positions],
              act : {"delete", "move", "stay"}]
    BY MigrateAssumption DEF NoMigrate, Pipes, Known, Positions, None
  <2> QED  BY <1>1, <1>2, <1>6, <2>1 DEF TypeOK
<1>8. Settled'
  BY <1>1, <1>3, <1>4, Numbers DEF IInv, Settled
<1>9. TrimmedInOrder'
  BY <1>1, <1>4 DEF IInv, TrimmedInOrder
<1>10. Kept'
  <2> SUFFICES ASSUME NEW i \in 1 .. stored, i \notin rows, ~Done(i)
               PROVE  HeldElsewhere(i, retries)'
    BY <1>1, <1>4 DEF Kept
  <2>1. HeldElsewhere(i, retries)
    BY DEF IInv, Kept
  <2>2. CASE mig.act = "stay"
    BY <1>1, <2>1, <2>2 DEF HeldElsewhere
  <2>3. CASE mig.act = "delete"
    <3>1. HeldElsewhere(i, retries \ OldRetries)
      BY <1>1, <2>1, <2>3 DEF IInv, Reread, Proved, HeldElsewhere
    <3> QED  BY <1>1, <2>3, <3>1 DEF HeldElsewhere
  <2>4. CASE mig.act = "move"
    <3>1. retries' = (retries \ OldRetries) \cup
                       {[d EXCEPT !.pipe = mig.keeper] : d \in OldRetries}
      BY <1>1, <2>4
    <3>2. CASE \E d \in retries : i \in d.rows
      <4>1. PICK d \in retries : i \in d.rows
        BY <3>2
      <4>2. CASE d \in OldRetries
        <5>1. PICK e \in retries' : e = [d EXCEPT !.pipe = mig.keeper]
          BY <3>1, <4>2
        <5>2. e.rows = d.rows
          BY <1>1, <4>1, <5>1 DEF TypeOK
        <5> QED  BY <4>1, <5>2 DEF HeldElsewhere
      <4>3. CASE d \notin OldRetries
        BY <3>1, <4>1, <4>3 DEF HeldElsewhere
      <4> QED  BY <4>2, <4>3
    <3>3. CASE \E p \in Pipes : i \in hand[p].rows
      BY <1>1, <3>3 DEF HeldElsewhere
    <3> QED  BY <2>1, <3>2, <3>3 DEF HeldElsewhere
  <2> QED  BY <1>1, <2>2, <2>3, <2>4 DEF TypeOK
<1>11. ASSUME NEW p \in Pipes, NEW u, NEW R, Covers(p, u, R)
       PROVE  Covers(p, u, R)'
  <2>1. Record(p) <= Record(p)' /\ Record(p) \in Int /\ Record(p)' \in Int
    BY <1>1, <1>2, <1>3, <1>7, Numbers DEF Record, Pipes
  <2>2. rows \subseteq Int
    BY <1>1, Numbers
  <2> QED  BY <1>1, <1>4, <1>11, <2>1, <2>2 DEF Covers, Reads
\* What the shared pipeline's job covers its keeper's does: the rows at or
\* before the old record are done with.
<1>12. ASSUME NEW p \in Pipes, NEW u, NEW R, Covers(Shared, u, R)
       PROVE  Covers(p, u, R)'
  <2>1. ASSUME NEW i \in rows, i <= u
        PROVE  i \in R \/ Done(i)
    <3>1. i \in Int /\ old \in Int
      BY <1>1, Numbers
    <3>2. CASE i <= old
      BY <3>2 DEF IInv, Settled
    <3>3. CASE old < i
      BY <1>12, <2>1, <3>3 DEF Covers, Record, Reads
    <3> QED  BY <3>1, <3>2, <3>3
  <2> QED  BY <1>1, <1>4, <1>12, <2>1 DEF Covers
<1>13. JobsCover'
  <2>1. \A p \in Pipes : (hand[p] # NoJob => Covers(p, hand[p].upto, hand[p].rows))'
    BY <1>1, <1>11 DEF IInv, JobsCover
  <2>2. ASSUME NEW d \in retries'
        PROVE  Covers(d.pipe, d.upto, d.rows)'
    <3>1. CASE d \in retries
      BY <1>1, <1>11, <3>1 DEF IInv, JobsCover, TypeOK
    <3>2. CASE d \notin retries
      <4>1. PICK e \in OldRetries : d = [e EXCEPT !.pipe = mig.keeper] /\ mig.keeper \in Pipes
        BY <1>5, <3>2
      <4>2. e.pipe = Shared /\ Covers(Shared, e.upto, e.rows)
        BY DEF IInv, JobsCover, OldRetries
      <4>3. d.pipe = mig.keeper /\ d.upto = e.upto /\ d.rows = e.rows
        BY <1>1, <4>1 DEF TypeOK, OldRetries
      <4> QED  BY <1>12, <4>1, <4>2, <4>3
    <3> QED  BY <3>1, <3>2
  <2> QED  BY <2>1, <2>2 DEF JobsCover
<1>14. AnOldJob'
  <2>1. OldRetries' \subseteq OldRetries
    <3>1. ASSUME NEW d \in retries', d.pipe = Shared
          PROVE  d \in OldRetries
      <4>1. CASE d \in retries
        BY <3>1, <4>1 DEF OldRetries
      <4>2. CASE d \notin retries
        <5>1. PICK e \in OldRetries : d = [e EXCEPT !.pipe = mig.keeper] /\ e.pipe = Shared
          BY <1>5, <4>2 DEF OldRetries
        <5>2. d = e
          BY <1>1, <3>1, <5>1 DEF TypeOK, OldRetries
        <5> QED  BY <5>1, <5>2
      <4> QED  BY <4>1, <4>2
    <3> QED  BY <3>1 DEF OldRetries
  <2>2. \A d \in OldRetries' : OldRetries' = {d}
    BY <2>1 DEF IInv, AnOldJob
  <2> QED  BY <1>1, <2>1, <2>2 DEF IInv, AnOldJob, Ahead
<1>15. Planned' /\ Reread'
  <2>1. mig'.step = "idle"
    BY <1>1 DEF NoMigrate
  <2>2. old' # None => Missing' = {}
    BY <1>1, <1>3 DEF Missing
  <2> QED  BY <2>1, <2>2 DEF Planned, Reread, Proved, Locked
<1> QED  BY <1>7, <1>8, <1>9, <1>10, <1>13, <1>14, <1>15 DEF IInv
-----------------------------------------------------------------------------
(* The sink *)

\* A new row is past every record and every job.
LEMMA StoreInv ==
  ASSUME IInv, Store
  PROVE  IInv'
<1>1. PICK w \in Producers :
      /\ stored < MaxId /\ stored' = stored + 1 /\ rows' = rows \cup {stored + 1}
      /\ owner' = Append(owner, w)
      /\ UNCHANGED <<keep, store, daemon, hand, mig, history>>
      /\ UNCHANGED <<version, old, keys, superseded, retries, delivered, given, migrated,
                     restarts, migrates>>
      /\ TypeOK
  BY DEF IInv, Store, store, history
<1>2. /\ owner' \in [1 .. stored' -> Producers]
      /\ \A i \in 1 .. stored : owner'[i] = owner[i]
      /\ stored \in Nat /\ MaxId \in Nat
  BY <1>1, OwnerGrows, Numbers
<1>3. /\ stored' \in 0 .. MaxId /\ 1 .. stored \subseteq 1 .. stored'
      /\ None .. stored \subseteq None .. stored'
  BY <1>1, <1>2 DEF None
<1>4. TypeOK'
  <2>1. rows' \subseteq 1 .. stored' /\ delivered' \subseteq 1 .. stored'
        /\ given' \subseteq 1 .. stored'
    BY <1>1, <1>2, <1>3 DEF TypeOK
  <2>2. old' \in None .. stored' /\ keys' \in [Producers -> None .. stored']
    BY <1>1, <1>3 DEF TypeOK
  <2> QED  BY <1>1, <1>2, <1>3, <2>1, <2>2 DEF TypeOK
<1>5. \A i : (Done(i)' <=> Done(i)) /\ \A R : HeldElsewhere(i, R) => HeldElsewhere(i, R)'
  BY <1>1 DEF Done, HeldElsewhere
<1>6. Settled'
  <2> SUFFICES ASSUME NEW i \in rows', i <= old' \/ i <= keys'[owner'[i]]
               PROVE  Done(i)'
    BY DEF Settled
  <2>1. CASE i \in rows
    <3>1. i \in 1 .. stored
      BY <1>1, <2>1, Numbers
    <3> QED  BY <1>1, <1>2, <1>5, <2>1, <3>1 DEF IInv, Settled
  <2>2. CASE i = stored + 1
    <3>1. PICK q \in Producers : q = owner'[i]
      BY <1>1, <1>2, <2>2
    <3>2. stored \in Nat /\ old \in None .. stored /\ keys[q] \in None .. stored /\ None = -1
      BY <1>1, Numbers
    <3>3. ~(i <= old) /\ ~(i <= keys[q])
      BY <2>2, <3>2
    <3>4. old' = old /\ keys'[owner'[i]] = keys[q]
      BY <1>1, <3>1
    <3> QED  BY <3>3, <3>4
  <2> QED  BY <1>1, <2>1, <2>2
<1>7. Kept'
  BY <1>1, <1>2, <1>5 DEF IInv, Kept, HeldElsewhere
<1>8. TrimmedInOrder'
  <2> SUFFICES ASSUME NEW j \in rows', NEW i \in 1 .. stored', j <= i, i \notin rows'
               PROVE  Done(i)
    BY <1>5 DEF TrimmedInOrder
  <2>1. i \in 1 .. stored
    BY <1>1, <1>2
  <2>2. j \in rows
    BY <1>1, <1>2, <2>1
  <2> QED  BY <1>1, <2>1, <2>2 DEF IInv, TrimmedInOrder
<1>9. ASSUME NEW p \in Pipes, NEW u, NEW R, Covers(p, u, R)
      PROVE  Covers(p, u, R)'
  <2>1. u \in 1 .. stored' /\ R \subseteq 1 .. stored'
    BY <1>3, <1>9 DEF Covers
  <2>2. ASSUME NEW i \in rows', Reads(p, i)', Record(p)' < i, i <= u
        PROVE  i \in R \/ Done(i)'
    <3>1. u <= stored /\ u \in Nat
      BY <1>2, <1>9 DEF Covers
    <3>2. i \in rows /\ i \in 1 .. stored
      BY <1>1, <1>2, <2>2, <3>1, Numbers
    <3>3. Reads(p, i) /\ Record(p)' = Record(p)
      BY <1>1, <1>2, <2>2, <3>2 DEF Reads, Record
    <3> QED  BY <1>5, <1>9, <2>2, <3>2, <3>3 DEF Covers
  <2> QED  BY <2>1, <2>2 DEF Covers
<1>10. JobsCover'
  BY <1>1, <1>9 DEF IInv, JobsCover, TypeOK
<1>11. AnOldJob' /\ Planned'
  BY <1>1 DEF IInv, AnOldJob, OldRetries, Ahead, Planned, Locked, Missing, Filled
<1>12. Reread'
  BY <1>1, <1>5 DEF IInv, Reread, Proved, OldRetries, HeldElsewhere
<1> QED  BY <1>4, <1>6, <1>7, <1>8, <1>10, <1>11, <1>12 DEF IInv

\* Retention takes the oldest row, and gives it up when no job has it.
LEMMA TrimInv ==
  ASSUME ~TrimBetween, IInv, Trim
  PROVE  IInv'
<1>1. PICK o \in rows :
      /\ \A j \in rows : o <= j
      /\ rows' = rows \ {o}
      /\ given' = IF HeldElsewhere(o, retries) THEN given ELSE given \cup {o}
      /\ UNCHANGED <<stored, owner, keep, store, daemon, hand, mig, delivered, migrated,
                     restarts, migrates>>
      /\ UNCHANGED <<version, old, keys, superseded, retries>>
      /\ TypeOK /\ ~Proved
  BY DEF IInv, Trim, store
<1>2. o \in 1 .. stored /\ given' \subseteq 1 .. stored /\ rows \subseteq Nat
  BY <1>1, Numbers DEF TypeOK
<1>3. TypeOK'
  BY <1>1, <1>2 DEF TypeOK
<1>4. \A i : (Done(i) => Done(i)') /\ \A R : HeldElsewhere(i, R) => HeldElsewhere(i, R)'
  BY <1>1 DEF Done, HeldElsewhere
<1>5. Settled'
  BY <1>1, <1>4 DEF IInv, Settled
<1>6. HeldElsewhere(o, retries)' \/ Done(o)'
  BY <1>1 DEF HeldElsewhere, Done
<1>7. Kept'
  BY <1>1, <1>4, <1>6 DEF IInv, Kept, HeldElsewhere
<1>8. TrimmedInOrder'
  <2> SUFFICES ASSUME NEW j \in rows', NEW i \in 1 .. stored, j <= i, i \notin rows'
               PROVE  Done(i)'
    BY <1>1 DEF TrimmedInOrder
  <2>1. j \in rows /\ j # o /\ o <= j /\ j \in Nat /\ o \in Nat
    BY <1>1, <1>2
  <2>2. i # o
    BY <2>1
  <2> QED  BY <1>1, <1>4, <2>1, <2>2 DEF IInv, TrimmedInOrder
<1>9. ASSUME NEW p \in Pipes, NEW u, NEW R, Covers(p, u, R)
      PROVE  Covers(p, u, R)'
  BY <1>1, <1>4, <1>9 DEF Covers, Reads, Record
<1>10. JobsCover'
  BY <1>1, <1>9 DEF IInv, JobsCover, TypeOK
<1>11. AnOldJob' /\ Planned'
  BY <1>1 DEF IInv, AnOldJob, OldRetries, Ahead, Planned, Locked, Missing, Filled
<1>12. Reread'
  BY <1>1 DEF Reread, Proved
<1> QED  BY <1>3, <1>5, <1>7, <1>8, <1>10, <1>11, <1>12 DEF IInv
-----------------------------------------------------------------------------
(* The theorems *)

\* Every step of the pipelines, of migrate and of the sink keeps the inductive
\* invariant.
LEMMA NextInv ==
  ASSUME MigrateFirst, ~TrimBetween, IInv, [Next]_vars
  PROVE  IInv'
<1>1. CASE \E p \in Pipes : PipeStep(p)
  BY <1>1, ReadInv, PopQueueInv, AckInv, DropInv DEF PipeStep
<1>2. CASE Stop
  BY <1>2, DropInv
<1>3. CASE StartShared \/ StartProducers
  BY <1>3, StartSharedInv, StartProducersInv
<1>4. CASE MigrateStep
  BY <1>4, LookInv, CommitInv DEF MigrateStep
<1>5. CASE Store \/ Trim
  BY <1>5, StoreInv, TrimInv
<1>6. CASE UNCHANGED vars
  BY <1>6 DEF vars, sink, store, history, IInv, TypeOK, Settled, Kept, TrimmedInOrder,
              JobsCover, Covers, Record, Reads, AnOldJob, OldRetries, Ahead, Planned, Locked,
              Missing, Filled, Reread, Proved, HeldElsewhere, Done
<1> QED  BY <1>1, <1>2, <1>3, <1>4, <1>5, <1>6 DEF Next

\* The inductive invariant holds in every reachable state.
THEOREM Invariance ==
  ASSUME MigrateFirst, ~TrimBetween
  PROVE  Spec => []IInv
<1> QED  BY InitInv, NextInv, PTL DEF Spec

\* Every variable keeps its type: a record is a position the sink has had, a
\* transaction holds what it will write.
THEOREM TypeCorrect ==
  ASSUME MigrateFirst, ~TrimBetween
  PROVE  Spec => []TypeOK
<1>1. IInv => TypeOK
  BY DEF IInv
<1> QED  BY Invariance, <1>1, PTL

\* No row is skipped by the split, its retries, its rollback, or its repeats,
\* wherever the daemon and migrate stop each other; retention takes rows at any
\* time but between migrate's look into the sink and its commit.
THEOREM NoRowIsSkipped ==
  ASSUME MigrateFirst, ~TrimBetween
  PROVE  Spec => []NoRowSkipped
<1>1. IInv => NoRowSkipped
  <2> SUFFICES ASSUME IInv, NEW i \in 1 .. stored, ~Done(i), ~HeldElsewhere(i, retries)
               PROVE  i \in rows /\ i > Successor(owner[i])
    BY DEF NoRowSkipped, Done
  <2>1. i \in rows /\ TypeOK
    BY DEF IInv, Kept
  <2>2. ~(i <= old) /\ ~(i <= keys[owner[i]])
    BY <2>1 DEF IInv, Settled
  <2>3. i \in Int /\ old \in Int /\ keys[owner[i]] \in Int
    BY <2>1, Numbers
  <2> QED  BY <2>1, <2>2, <2>3 DEF Successor
<1> QED  BY Invariance, <1>1, PTL

\* A retry that migrate deletes can be reread: each of its rows is in the sink
\* past its producer's new record, or done with, or another job has it, if
\* retention takes none between migrate's look into the sink and its commit.
THEOREM DeletedRetriesAreReread ==
  ASSUME MigrateFirst, ~TrimBetween
  PROVE  Spec => DeletedRetryIsReread
<1> DEFINE A == Commit /\ mig.act = "delete" =>
                  \A d \in OldRetries : \A i \in d.rows :
                    \/ i \in delivered \/ i \in given \/ HeldElsewhere(i, retries')
                    \/ i \in rows /\ i > keys'[owner[i]]
<1>1. IInv /\ IInv' /\ [Next]_vars => [A]_vars
  <2> SUFFICES ASSUME IInv, IInv', Commit, mig.act = "delete",
                      NEW d \in OldRetries, NEW i \in d.rows, ~Done(i),
                      ~HeldElsewhere(i, retries')
               PROVE  i \in rows /\ i > keys'[owner[i]]
    BY DEF Done
  <2>1. retries' = retries \ OldRetries /\ UNCHANGED <<sink, rows, owner, delivered, given>>
    BY DEF Commit, sink
  <2>2. i \in rows
    BY <2>1 DEF IInv, Reread, Proved, Commit
  <2>3. ~(i <= keys'[owner[i]])
    BY <2>1, <2>2 DEF IInv, Settled, Done
  <2>4. i \in Int /\ owner[i] \in Producers /\ TypeOK'
    BY <2>2, Numbers DEF IInv
  <2>5. keys'[owner[i]] \in Int
    BY <2>4, MigrateAssumption DEF TypeOK, None
  <2> QED  BY <2>2, <2>3, <2>4, <2>5
<1> QED  BY Invariance, <1>1, PTL DEF Spec, DeletedRetryIsReread

\* A record that exists is moved by its own pipeline's acknowledgements alone,
\* and forward: migrate fills, and never overwrites.
THEOREM RecordsStandStill ==
  ASSUME MigrateFirst, ~TrimBetween
  PROVE  Spec => RecordsStand
<1> DEFINE A == /\ \A w \in Producers : keys[w] # None =>
                     /\ keys'[w] >= keys[w]
                     /\ keys'[w] # keys[w] => hand[w] # hand'[w]
                /\ old # None => old' >= old
<1>1. IInv /\ [Next]_vars => [A]_vars
  <2> SUFFICES ASSUME IInv, Next
               PROVE  A
    OBVIOUS
  <2>1. /\ TypeOK /\ old \in Int /\ \A w \in Producers : keys[w] \in Int
        /\ keys \in [Producers -> None .. stored]
    BY Numbers DEF IInv, TypeOK
  <2>2. ASSUME NEW p \in Pipes, Ack(p)
        PROVE  A
    <3>1. /\ hand[p].upto \in Int /\ hand \in [Pipes -> Jobs]
          /\ hand[p] # NoJob /\ hand' = [hand EXCEPT ![p] = NoJob]
      BY <2>1, <2>2 DEF Ack, IInv, JobsCover, Covers, TypeOK
    <3>2. CASE p = Shared
      BY <2>1, <2>2, <3>1, <3>2 DEF Ack
    <3>3. CASE p # Shared
      BY <2>1, <2>2, <3>1, <3>3 DEF Ack, Pipes
    <3> QED  BY <3>2, <3>3
  <2>3. CASE Commit
    <3>1. keys' = Filled(keys) /\ old' = old
      BY <2>3 DEF Commit, IInv, Planned, Locked
    <3> QED  BY <2>1, <3>1 DEF Filled
  <2>4. CASE StartShared \/ StartProducers
    BY <2>1, <2>4 DEF StartShared, StartProducers
  <2>5. CASE \/ \E p \in Pipes : Read(p) \/ Pop(p) \/ Queue(p) \/ GiveUp(p)
             \/ Stop \/ Start \/ NothingToDo \/ Begin \/ Decide \/ MigrateDies \/ Store \/ Trim
    <3>1. UNCHANGED <<old, keys>>
      BY <2>5 DEF Read, Pop, Queue, GiveUp, Stop, Start, NothingToDo, Begin, Decide, MigrateDies,
                  Store, Trim, store
    <3> QED  BY <2>1, <3>1
  <2> QED  BY <2>2, <2>3, <2>4, <2>5 DEF Next, PipeStep, MigrateStep
<1> QED  BY Invariance, <1>1, PTL DEF Spec, RecordsStand
=============================================================================
