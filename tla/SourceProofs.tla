---------------------------- MODULE SourceProofs ----------------------------
(***************************************************************************)
(* Proofs about module SqliteSource, for any pipelines, rows, limit and    *)
(* number of restarts.                                                     *)
(*                                                                         *)
(* Where every sink has the local column from the start, a connection's    *)
(* probe is never an old one (NewOnly), and a batch holds rows meant for   *)
(* its pipeline only, its record at its last row before anything is        *)
(* deleted (InHand).  RowsKeepToTheirOwner follows.                        *)
(*                                                                         *)
(* NothingSkipped holds where no other deleting pipeline owns a row of a   *)
(* pipeline without a ceiling (Apart).  OneStart: before the first ack the *)
(* anchor of a pipeline that starts at now is where it started.  Whole: a  *)
(* batch has every row still to be sent up to its last one.                *)
(*                                                                         *)
(* EachSpotOnce holds of a dedup pipeline whose rows nobody deletes: every *)
(* row it sent and recorded (Kept) stays in the query's sight behind the   *)
(* record, so no rival of one wins again (SpotInv).                        *)
(***************************************************************************)
EXTENDS SqliteSource, SequenceTheorems, FiniteSetTheorems, WellFoundedInduction, TLAPS

\* No other pipeline that deletes owns a row of this one, and no ceiling
\* holds its rows back.
Apart ==
  \A q \in Pipes : ~Conf[q].dedup =>
    /\ ~Conf[q].ceiled
    /\ \A r \in Pipes \ {q} : Conf[r].deletes =>
         Conf[q].producer # Conf[r].producer /\ Unscoped \notin {Conf[q].producer, Conf[r].producer}

\* No position is ahead of the queue.
Bounded ==
  \A q \in Pipes : /\ record[q] <= Len(log) /\ anchor[q] <= Len(log) /\ start[q] <= Len(log)
                   /\ batch[q].upto <= Len(log) /\ batch[q].ids \subseteq Ids

\* Every connection has seen the columns of v3.70.
NewOnly ==
  /\ schema # "old"
  /\ \A q \in Pipes : probe[q] # "old" /\ (batch[q].step # "none" => probe[q] = "new")

\* What a batch holds, and where the record is when rows may go.
InHand ==
  \A q \in Pipes : /\ \A i \in batch[q].ids : Meant(q, i)
                   /\ batch[q].step = "advanced" => batch[q].upto <= record[q]

\* The invariant of OwnersKeepTheirRows.
OwnerInv == TypeOK /\ Bounded /\ NewOnly /\ InHand /\ RowsKeepToTheirOwner

\* The pipelines NothingSkipped speaks of.
Promised(q) == ~Conf[q].dedup /\ (Conf[q].anchored => restarts = 0)

\* Before the first ack of a promised pipeline its anchor is its start.
OneStart ==
  \A q \in Pipes : Promised(q) =>
    /\ ~Conf[q].anchored => start[q] = 0 /\ anchor[q] = None
    /\ record[q] # None \/ batch[q] # NoBatch => start[q] # None
    /\ anchor[q] # None => start[q] # None
    /\ record[q] = None /\ anchor[q] = None /\ Conf[q].anchored => start[q] = None

\* A promised pipeline's batch has every row still to be sent up to its end.
Whole ==
  \A q \in Pipes : Promised(q) =>
    \A i \in Ids : Meant(q, i) /\ i > start[q] /\ i <= batch[q].upto =>
      i \in sent[q] \/ (batch[q].step = "read" /\ i \in batch[q].ids)

\* The invariant of NoRowIsSkipped.
SkipInv == OwnerInv /\ OneStart /\ Whole /\ NothingSkipped
-----------------------------------------------------------------------------
(* Facts about the operators *)

\* A set of naturals has a least member.
LEMMA LeastExists ==
  ASSUME NEW S \in SUBSET Nat, S # {}
  PROVE  \E x \in S : \A y \in S : x <= y
<1> DEFINE R == OpToRel(<, Nat)
<1>1. IsWellFoundedOn(R, Nat)
  BY NatLessThanWellFounded
<1>2. \E x \in S : \A y \in S : ~(<<y, x>> \in R)
  <2> HIDE DEF R
  <2> QED  BY <1>1, WFMin, Zenon
<1>3. PICK x \in S : \A y \in S : ~(<<y, x>> \in R)
  BY <1>2
<1>4. ASSUME NEW y \in S
      PROVE  x <= y
  <2>1. ~(<<y, x>> \in {ss \in Nat \X Nat : ss[1] < ss[2]})
    BY <1>3 DEF OpToRel
  <2>2. ~(y < x)
    BY <2>1
  <2> QED  BY <2>2
<1> QED  BY <1>4

\* A set of naturals up to a bound has a greatest member.
LEMMA GreatestExists ==
  ASSUME NEW n \in Nat, NEW S \in SUBSET (0 .. n), S # {}
  PROVE  \E x \in S : \A y \in S : y <= x
<1> DEFINE T == {n - s : s \in S}
<1>1. T \in SUBSET Nat
  <2>1. ASSUME NEW s \in S
        PROVE  n - s \in Nat
    <3>1. s \in 0 .. n
      OBVIOUS
    <3> QED  BY <3>1
  <2> QED  BY <2>1
<1>4. T # {}
  OBVIOUS
<1>2. PICK t \in T : \A u \in T : t <= u
  BY <1>1, <1>4, LeastExists
<1>3. PICK x \in S : t = n - x
  OBVIOUS
<1>5. ASSUME NEW y \in S
      PROVE  y <= x
  <2>1. n - x <= n - y
    BY <1>2, <1>3
  <2>2. x \in 0 .. n /\ y \in 0 .. n
    OBVIOUS
  <2> QED  BY <2>1, <2>2
<1> QED  BY <1>5

\* The highest id of some.
LEMMA MaxOK ==
  ASSUME NEW n \in Nat, NEW S \in SUBSET (0 .. n), S # {}
  PROVE  Max(S) \in S /\ \A i \in S : i <= Max(S)
<1>1. PICK x \in S : \A y \in S : x >= y
  <2>1. \A y \in S : y \in Int
    OBVIOUS
  <2> QED  BY <2>1, GreatestExists
<1>2. Max(S) \in S /\ \A y \in S : Max(S) >= y
  BY <1>1 DEF Max
<1> QED  BY <1>2

\* ORDER BY id LIMIT leaves no row out before one it takes.
LEMMA FirstOfOK ==
  ASSUME NEW n \in Nat, NEW S \in SUBSET (0 .. n), NEW i \in S \ FirstOf(S), NEW j \in FirstOf(S)
  PROVE  j < i
<1> DEFINE upTo(k) == {m \in S : m <= k}
<1>1. SUFFICES ASSUME i <= j
               PROVE  FALSE
  <2>1. i \in Int /\ j \in Int
    BY DEF FirstOf
  <2> QED  BY <2>1
<1>2. IsFiniteSet(0 .. n)
  BY FS_Interval
<1>3. upTo(j) \in SUBSET (0 .. n) /\ upTo(i) \in SUBSET upTo(j)
  <2>1. \A m \in S : m \in Int
    OBVIOUS
  <2>2. j \in Int /\ i \in Int
    BY <2>1 DEF FirstOf
  <2>3. \A m \in S : m <= i => m <= j
    BY <1>1, <2>1, <2>2
  <2> QED  BY <2>3
<1>4. IsFiniteSet(upTo(j)) /\ IsFiniteSet(upTo(i))
      /\ Cardinality(upTo(i)) <= Cardinality(upTo(j))
  <2> HIDE DEF upTo
  <2> QED  BY <1>2, <1>3, FS_Subset
<1>5. Cardinality(upTo(i)) \in Nat /\ Cardinality(upTo(j)) \in Nat
  <2> HIDE DEF upTo
  <2> QED  BY <1>4, FS_CardinalityType
<1>6. Cardinality(upTo(j)) <= Limit
  BY DEF FirstOf
<1>7. Cardinality(upTo(i)) <= Limit
  BY <1>4, <1>5, <1>6, SourceAssumption
<1> QED  BY <1>7 DEF FirstOf

\* The highest id in scope is at or after every row in scope.
LEMMA PositionOK ==
  ASSUME TypeOK, NEW q, NEW seen
  PROVE  /\ PresentPosition(q, seen) \in 0 .. Len(log)
         /\ \A i \in present : MayTouch(q, log[i], seen) => i <= PresentPosition(q, seen)
<1> DEFINE S == {0} \cup {i \in present : MayTouch(q, log[i], seen)}
<1>1. Len(log) \in Nat
  BY LenProperties DEF TypeOK
<1>3. S \in SUBSET (0 .. Len(log)) /\ S # {}
  <2>1. \A i \in 1 .. Len(log) : i \in 0 .. Len(log)
    BY <1>1
  <2>2. 0 \in 0 .. Len(log)
    BY <1>1
  <2> QED  BY <2>1, <2>2 DEF TypeOK, Ids
<1>2. Max(S) \in S /\ \A i \in S : i <= Max(S)
  <2> HIDE DEF S
  <2> QED  BY <1>1, <1>3, MaxOK
<1> QED  BY <1>3, <1>2 DEF PresentPosition

\* What one read does: b is the batch it leaves.
ReadsAs(q, seen, after, b) ==
  /\ seen \in {"old", "new"} /\ seen = IF probe[q] = "none" THEN schema ELSE probe[q]
  /\ after = After(q, seen) /\ after \in None .. MaxRows
  /\ b \in Batches /\ b.step = (IF b = NoBatch THEN "none" ELSE "read")
  /\ b.upto = 0 \/ b.upto \in b.ids
  /\ b.ids \subseteq Selected(q, after, seen) /\ \A i \in b.ids : i <= b.upto
  /\ \A i \in Selected(q, after, seen) : i <= b.upto => i \in b.ids
  /\ batch[q] = NoBatch /\ batch' = [batch EXCEPT ![q] = b]
  /\ probe' = [probe EXCEPT ![q] = seen]
  /\ anchor' = [anchor EXCEPT ![q] = IF record[q] = None /\ Conf[q].anchored THEN after ELSE @]
  /\ start' = [start EXCEPT ![q] = IF @ = None THEN after ELSE @]
  /\ UNCHANGED <<queue, record, ceiling, sent, restarts, lost>>

\* ReadsAs is what Read does.
LEMMA ReadDoes ==
  ASSUME TypeOK, NEW q \in Pipes, Read(q)
  PROVE  \E seen, after, b : ReadsAs(q, seen, after, b)
<1>1. PICK seen : seen = IF probe[q] = "none" THEN schema ELSE probe[q]
  OBVIOUS
<1>2. PICK after : after = After(q, seen)
  OBVIOUS
<1>3. PICK S : S = Selected(q, after, seen)
  OBVIOUS
<1>4. PICK ids : ids = FirstOf(S)
  OBVIOUS
<1>5. PICK b : b = IF ids = {} THEN NoBatch ELSE [step |-> "read", upto |-> Max(ids), ids |-> ids]
  OBVIOUS
<1>6. /\ batch[q] = NoBatch /\ batch' = [batch EXCEPT ![q] = b]
      /\ probe' = [probe EXCEPT ![q] = seen] /\ schema # "absent"
      /\ anchor' = [anchor EXCEPT ![q] = IF record[q] = None /\ Conf[q].anchored THEN after ELSE @]
      /\ start' = [start EXCEPT ![q] = IF @ = None THEN after ELSE @]
      /\ UNCHANGED <<queue, record, ceiling, sent, restarts, lost>>
  BY <1>1, <1>2, <1>3, <1>4, <1>5 DEF Read, Ready
<1>7. seen \in {"old", "new"}
  BY <1>1, <1>6 DEF TypeOK
<1>8. Len(log) \in Nat /\ MaxRows \in Nat /\ Len(log) <= MaxRows /\ None = -1
  BY LenProperties, SourceAssumption DEF TypeOK, None
<1>9. after \in None .. MaxRows
  BY <1>2, <1>8, PositionOK DEF After, TypeOK
<1>10. S \in SUBSET (1 .. Len(log)) /\ ids \subseteq S
  BY <1>3, <1>4 DEF TypeOK, Ids, Selected, Winners, Visible, FirstOf
<1>11. S \in SUBSET (0 .. Len(log)) /\ ids \in SUBSET (0 .. Len(log))
  BY <1>8, <1>10
<1>12. CASE ids = {}
  <2>1. b = NoBatch /\ b.upto = 0 /\ b.ids = {} /\ b.step = "none" /\ b \in Batches
    BY <1>5, <1>8, <1>12 DEF NoBatch, Batches
  <2>2. \A i \in S : ~(i <= 0)
    BY <1>10
  <2> QED  BY <1>1, <1>2, <1>3, <1>6, <1>7, <1>9, <2>1, <2>2 DEF ReadsAs
<1>13. CASE ids # {}
  <2>1. Max(ids) \in ids /\ \A i \in ids : i <= Max(ids)
    BY <1>8, <1>11, <1>13, MaxOK
  <2>2. b.step = "read" /\ b.upto = Max(ids) /\ b.ids = ids /\ b # NoBatch
    BY <1>5, <1>13 DEF NoBatch
  <2>3. Max(ids) \in 0 .. MaxRows /\ ids \in SUBSET (1 .. MaxRows)
    <3>1. \A i \in 1 .. Len(log) : i \in 0 .. MaxRows /\ i \in 1 .. MaxRows
      BY <1>8
    <3> QED  BY <1>10, <2>1, <3>1
  <2>4. b \in Batches
    BY <1>5, <1>13, <2>3 DEF Batches
  <2>5. ASSUME NEW i \in S, i <= Max(ids)
        PROVE  i \in ids
    <3>1. i \notin ids => Max(ids) < i
      BY <1>4, <1>8, <1>11, <2>1, FirstOfOK
    <3>2. i \in Int /\ Max(ids) \in Int
      <4>1. \A m \in 0 .. Len(log) : m \in Int
        OBVIOUS
      <4> QED  BY <1>11, <2>1, <4>1
    <3> QED  BY <2>5, <3>1, <3>2
  <2> QED  BY <1>1, <1>2, <1>3, <1>6, <1>7, <1>9, <1>10, <2>1, <2>2, <2>4, <2>5 DEF ReadsAs
<1> QED  BY <1>12, <1>13

\* A row stored is the last of the log, and the others stay.
LEMMA FlushAppends ==
  ASSUME TypeOK, NEW k \in Kinds, Flush(k)
  PROVE  /\ log' \in Seq(Kinds) /\ Len(log) \in Nat /\ Len(log') = Len(log) + 1
         /\ \A i \in Ids : log'[i] = log[i]
         /\ present' = present \cup {Len(log) + 1} /\ Ids' = Ids \cup {Len(log) + 1}
<1>1. log \in Seq(Kinds) /\ Len(log) \in Nat /\ log' = Append(log, k)
  BY LenProperties DEF TypeOK, Flush
<1>2. /\ log' \in Seq(Kinds) /\ Len(log') = Len(log) + 1
      /\ \A i \in 1 .. Len(log) : log'[i] = log[i]
  BY <1>1, AppendProperties
<1>3. Ids' = 1 .. Len(log) + 1
  BY <1>2 DEF Ids
<1>4. Ids' = Ids \cup {Len(log) + 1}
  BY <1>1, <1>3 DEF Ids
<1> QED  BY <1>1, <1>2, <1>4 DEF Flush, Ids
\* Positions and sizes are integers.
LEMMA Numbers ==
  ASSUME TypeOK
  PROVE  /\ Len(log) \in Nat /\ MaxRows \in Nat /\ Len(log) <= MaxRows /\ None = -1
         /\ \A q \in Pipes : /\ record[q] \in Int /\ anchor[q] \in Int /\ start[q] \in Int
                             /\ record[q] >= -1 /\ anchor[q] >= -1 /\ start[q] >= -1
                             /\ batch[q] \in Batches /\ batch[q].upto \in Nat
BY LenProperties, SourceAssumption DEF TypeOK, None, Batches

\* With the columns of v3.70 the clauses of the query and the delete select
\* the rows the pipeline owns.
LEMMA ScopeIsOwnership ==
  ASSUME NEW q \in Pipes, NEW i
  PROVE  MayTouch(q, log[i], "new") <=> Owns(q, i)
BY DEF MayTouch, InScope, Owns, Unscoped

\* A batch that moves on keeps its rows.
LEMMA BatchMoves ==
  ASSUME NEW b \in Batches, NEW step \in {"acked", "advanced"}
  PROVE  LET c == [b EXCEPT !.step = step]
         IN c \in Batches /\ c.step = step /\ c.upto = b.upto /\ c.ids = b.ids
BY DEF Batches

\* The batch of a pipeline that has read nothing.
LEMMA NoBatchIsEmpty ==
  /\ NoBatch \in Batches /\ NoBatch.step = "none" /\ NoBatch.upto = 0 /\ NoBatch.ids = {}
BY SourceAssumption DEF NoBatch, Batches

\* What the steps after a read do to the batch.
LEMMA BatchDoes ==
  ASSUME TypeOK, NEW q \in Pipes, Ship(q) \/ Advance(q) \/ Commit(q) \/ Abort(q)
  PROVE  /\ batch' \in [Pipes -> Batches] /\ \A p \in Pipes \ {q} : batch'[p] = batch[p]
         /\ \/ batch'[q] = NoBatch
            \/ batch[q].step = "read" /\ batch'[q].step = "acked"
            \/ batch[q].step = "acked" /\ batch'[q].step = "advanced"
         /\ batch'[q] # NoBatch => batch'[q].upto = batch[q].upto /\ batch'[q].ids = batch[q].ids
<1>1. PICK c : /\ batch' = [batch EXCEPT ![q] = c]
               /\ \/ c = NoBatch
                  \/ batch[q].step = "read" /\ c = [batch[q] EXCEPT !.step = "acked"]
                  \/ batch[q].step = "acked" /\ c = [batch[q] EXCEPT !.step = "advanced"]
  BY DEF Ship, Advance, Commit, Abort
<1>2. batch[q] \in Batches
  BY DEF TypeOK
<1>3. c \in Batches /\ (c # NoBatch => c.upto = batch[q].upto /\ c.ids = batch[q].ids)
      /\ \/ c = NoBatch
         \/ batch[q].step = "read" /\ c.step = "acked"
         \/ batch[q].step = "acked" /\ c.step = "advanced"
  <2>1. CASE c = NoBatch
    BY <2>1, NoBatchIsEmpty
  <2>2. ASSUME NEW step \in {"acked", "advanced"}, c = [batch[q] EXCEPT !.step = step]
        PROVE  c \in Batches /\ c.step = step /\ c.upto = batch[q].upto /\ c.ids = batch[q].ids
    BY <1>2, <2>2, BatchMoves
  <2> QED  BY <1>1, <2>1, <2>2
<1> QED  BY <1>1, <1>3 DEF TypeOK

\* The types.
LEMMA TypeInv ==
  ASSUME TypeOK, Bounded, [Next]_vars
  PROVE  TypeOK'
<1>1. ASSUME NEW q \in Pipes, Read(q)
      PROVE  TypeOK'
  <2>1. PICK seen, after, b : ReadsAs(q, seen, after, b)
    BY <1>1, ReadDoes
  <2>2. /\ anchor' \in [Pipes -> None .. MaxRows] /\ start' \in [Pipes -> None .. MaxRows]
        /\ probe' \in [Pipes -> {"none", "old", "new"}] /\ batch' \in [Pipes -> Batches]
    BY <2>1 DEF ReadsAs, TypeOK
  <2>3. UNCHANGED <<queue, record, ceiling, sent, restarts, lost>>
    BY <2>1 DEF ReadsAs
  <2> QED  BY <2>2, <2>3 DEF TypeOK, Ids, queue
<1>2. ASSUME NEW q \in Pipes, Ship(q)
      PROVE  TypeOK'
  <2>1. batch' \in [Pipes -> Batches]
    BY <1>2, BatchDoes
  <2>2. sent' \in [Pipes -> SUBSET Ids] /\ lost' \in [Pipes -> SUBSET Ids]
    BY <1>2 DEF Ship, TypeOK, Bounded
  <2> QED  BY <1>2, <2>1, <2>2 DEF Ship, TypeOK, queue, Ids
<1>3. ASSUME NEW q \in Pipes, Advance(q)
      PROVE  TypeOK'
  <2>1. batch[q].upto \in None .. MaxRows
    <3>1. batch[q].upto \in 0 .. MaxRows
      BY DEF Batches, TypeOK
    <3> QED  BY <3>1, SourceAssumption DEF None
  <2>2. batch' \in [Pipes -> Batches] /\ record' \in [Pipes -> None .. MaxRows]
    BY <1>3, <2>1, BatchDoes DEF Advance, TypeOK
  <2> QED  BY <1>3, <2>2 DEF Advance, TypeOK, queue, history, Ids
<1>4. ASSUME NEW q \in Pipes, Commit(q)
      PROVE  TypeOK'
  <2>1. batch' \in [Pipes -> Batches] /\ present' \subseteq Ids
    BY <1>4, BatchDoes DEF Commit, TypeOK
  <2> QED  BY <1>4, <2>1 DEF Commit, TypeOK, history, Ids
<1>5. ASSUME NEW k \in Kinds, Flush(k)
      PROVE  TypeOK'
  <2>1. log' \in Seq(Kinds) /\ present' \subseteq Ids' /\ Len(log') <= MaxRows
    <3>1. Len(log') = Len(log) + 1 /\ Len(log) < MaxRows /\ Len(log) \in Nat /\ MaxRows \in Nat
      BY <1>5, FlushAppends, Numbers DEF Flush
    <3>2. Len(log') <= MaxRows
      BY <3>1
    <3> QED  BY <1>5, <3>2, FlushAppends DEF TypeOK
  <2>3. schema' \in {"absent", "old", "new"}
    BY <1>5 DEF Flush, TypeOK
  <2>2. sent' \in [Pipes -> SUBSET Ids'] /\ lost' \in [Pipes -> SUBSET Ids']
    BY <1>5, FlushAppends DEF Flush, TypeOK, history
  <2> QED  BY <1>5, <2>1, <2>2, <2>3 DEF Flush, TypeOK, memory, history
<1>6. CASE RaiseCeiling
  BY <1>6, SourceAssumption DEF RaiseCeiling, TypeOK, queue, memory, history, Ids
<1>7. CASE Restart
  <2>1. NoBatch \in Batches /\ None \in None .. MaxRows
    BY SourceAssumption DEF NoBatch, Batches, None
  <2>2. lost' \in [Pipes -> SUBSET Ids]
    BY <1>7 DEF Restart, Forgotten, TypeOK, Bounded
  <2> QED  BY <1>7, <2>1, <2>2, SourceAssumption DEF Restart, TypeOK, queue, Ids
<1>8. CASE UNCHANGED vars
  BY <1>8 DEF vars, TypeOK, queue, memory, history, Ids
<1>9. ASSUME NEW q \in Pipes, Abort(q)
      PROVE  TypeOK'
  <2>1. batch' \in [Pipes -> Batches]
    BY <1>9, BatchDoes
  <2>2. lost' \in [Pipes -> SUBSET Ids]
    BY <1>9 DEF Abort, Forgotten, TypeOK, Bounded
  <2> QED  BY <1>9, <2>1, <2>2 DEF Abort, TypeOK, queue, Ids
<1> QED  BY <1>1, <1>2, <1>3, <1>4, <1>5, <1>6, <1>7, <1>8, <1>9 DEF Next, Pump

\* No position passes the queue's end: Bounded is kept.
LEMMA BoundedInv ==
  ASSUME TypeOK, Bounded, [Next]_vars
  PROVE  Bounded'
<1>1. ASSUME NEW q \in Pipes, Read(q)
      PROVE  Bounded'
  <2>1. PICK seen, after, b : ReadsAs(q, seen, after, b)
    BY <1>1, ReadDoes
  <2>2. Len(log') = Len(log) /\ Ids' = Ids /\ record' = record /\ Len(log) \in Nat
    BY <2>1, Numbers DEF ReadsAs, queue, Ids
  <2>3. after <= Len(log)
    BY <2>1, PositionOK, Numbers DEF ReadsAs, After, Bounded
  <2>4. b.ids \subseteq Ids /\ b.upto <= Len(log)
    <3>1. b.ids \subseteq present
      BY <2>1 DEF ReadsAs, Selected, Winners, Visible
    <3>2. \A i \in Ids : i <= Len(log)
      BY <2>2 DEF Ids
    <3> QED  BY <2>1, <2>2, <3>1, <3>2 DEF ReadsAs, TypeOK
  <2>5. \A p \in Pipes : /\ anchor'[p] = anchor[p] \/ anchor'[p] = after
                         /\ start'[p] = start[p] \/ start'[p] = after
                         /\ batch'[p] = batch[p] \/ batch'[p] = b
    BY <2>1 DEF ReadsAs, TypeOK
  <2> QED  BY <2>2, <2>3, <2>4, <2>5 DEF Bounded
<1>2. ASSUME NEW q \in Pipes, Ship(q)
      PROVE  Bounded'
  <2>1. \A p \in Pipes : /\ batch'[p].upto = batch[p].upto \/ batch'[p].upto = 0
                         /\ batch'[p].ids \subseteq batch[p].ids
    BY <1>2, BatchDoes, NoBatchIsEmpty
  <2> QED  BY <1>2, <2>1, Numbers DEF Ship, Bounded, Ids, queue
<1>3. ASSUME NEW q \in Pipes, Advance(q)
      PROVE  Bounded'
  <2>1. \A p \in Pipes : /\ batch'[p].upto = batch[p].upto /\ batch'[p].ids = batch[p].ids
                         /\ record'[p] = record[p] \/ record'[p] = batch[p].upto
    <3>1. batch'[q].upto = batch[q].upto /\ batch'[q].ids = batch[q].ids
      BY <1>3, BatchMoves DEF Advance, TypeOK
    <3> QED  BY <1>3, <3>1 DEF Advance, TypeOK
  <2> QED  BY <1>3, <2>1 DEF Advance, Bounded, Ids, queue, history
<1>4. ASSUME NEW q \in Pipes, Commit(q)
      PROVE  Bounded'
  <2>1. \A p \in Pipes : /\ batch'[p].upto = batch[p].upto \/ batch'[p].upto = 0
                         /\ batch'[p].ids \subseteq batch[p].ids
    BY <1>4, BatchDoes, NoBatchIsEmpty
  <2> QED  BY <1>4, <2>1, Numbers DEF Commit, Bounded, Ids, history
<1>5. ASSUME NEW k \in Kinds, Flush(k)
      PROVE  Bounded'
  <2>1. Len(log) \in Nat /\ Len(log') = Len(log) + 1 /\ Ids \subseteq Ids'
    BY <1>5, FlushAppends
  <2>2. UNCHANGED <<record, anchor, start, batch>>
    BY <1>5 DEF Flush, memory, history
  <2> QED  BY <2>1, <2>2, Numbers DEF Bounded
<1>6. CASE RaiseCeiling
  BY <1>6 DEF RaiseCeiling, Bounded, Ids, queue, memory, history
<1>7. CASE Restart
  BY <1>7, Numbers DEF Restart, Bounded, Ids, queue, NoBatch
<1>8. CASE UNCHANGED vars
  BY <1>8 DEF vars, Bounded, Ids, queue, memory, history
<1>9. ASSUME NEW q \in Pipes, Abort(q)
      PROVE  Bounded'
  <2>1. \A p \in Pipes : /\ batch'[p].upto = batch[p].upto \/ batch'[p].upto = 0
                         /\ batch'[p].ids \subseteq batch[p].ids
    BY <1>9, BatchDoes, NoBatchIsEmpty
  <2> QED  BY <1>9, <2>1, Numbers DEF Abort, Bounded, Ids, queue
<1> QED  BY <1>1, <1>2, <1>3, <1>4, <1>5, <1>6, <1>7, <1>8, <1>9 DEF Next, Pump
-----------------------------------------------------------------------------
(* A row and its owner *)

\* Every connection sees the columns, when no sink is without them.
LEMMA NewOnlyInv ==
  ASSUME ~OldSinks, TypeOK, NewOnly, [Next]_vars
  PROVE  NewOnly'
<1>1. ASSUME NEW q \in Pipes, Read(q)
      PROVE  NewOnly'
  <2>1. PICK seen, after, b : ReadsAs(q, seen, after, b)
    BY <1>1, ReadDoes
  <2>2. seen = "new" /\ schema' = schema
    BY <2>1 DEF ReadsAs, NewOnly, queue
  <2>3. \A p \in Pipes : /\ probe'[p] = IF p = q THEN seen ELSE probe[p]
                         /\ p # q => batch'[p] = batch[p]
    BY <2>1 DEF ReadsAs, TypeOK
  <2> QED  BY <2>2, <2>3 DEF NewOnly
<1>2. ASSUME NEW q \in Pipes, Ship(q) \/ Advance(q) \/ Commit(q)
      PROVE  NewOnly'
  <2>1. batch[q].step # "none" /\ probe' = probe /\ schema' = schema
    BY <1>2 DEF Ship, Advance, Commit, queue
  <2>2. \A p \in Pipes \ {q} : batch'[p] = batch[p]
    BY <1>2 DEF Ship, Advance, Commit, TypeOK
  <2> QED  BY <2>1, <2>2 DEF NewOnly
<1>3. ASSUME NEW k \in Kinds, Flush(k)
      PROVE  NewOnly'
  BY <1>3 DEF Flush, NewOnly, memory
<1>4. CASE RaiseCeiling
  BY <1>4 DEF RaiseCeiling, NewOnly, queue, memory
<1>5. CASE Restart
  BY <1>5 DEF Restart, NewOnly, queue, NoBatch
<1>6. CASE UNCHANGED vars
  BY <1>6 DEF vars, NewOnly, queue, memory
<1>7. ASSUME NEW q \in Pipes, Abort(q)
      PROVE  NewOnly'
  <2>1. \A p \in Pipes : batch'[p] = batch[p] \/ batch'[p] = NoBatch
    BY <1>7 DEF Abort, TypeOK
  <2> QED  BY <1>7, <2>1, NoBatchIsEmpty DEF Abort, NewOnly, queue
<1> QED  BY <1>1, <1>2, <1>3, <1>4, <1>5, <1>6, <1>7 DEF Next, Pump

\* A batch is made of rows meant for its pipeline; the record comes to its
\* end before anything goes.
LEMMA InHandInv ==
  ASSUME TypeOK, Bounded, NewOnly, InHand, [Next]_vars
  PROVE  InHand'
<1>1. ASSUME NEW q \in Pipes, Read(q)
      PROVE  InHand'
  <2>1. PICK seen, after, b : ReadsAs(q, seen, after, b)
    BY <1>1, ReadDoes
  <2>2. seen = "new" /\ log' = log /\ record' = record
    BY <2>1 DEF ReadsAs, NewOnly, queue, TypeOK
  <2>3. \A i \in b.ids : MayTouch(q, log[i], "new") /\ log[i].accepted
    BY <2>1, <2>2 DEF ReadsAs, Selected, Winners, Visible
  <2>4. \A i \in b.ids : Meant(q, i)
    BY <2>3, ScopeIsOwnership DEF Meant
  <2>5. b.step # "advanced" /\ \A p \in Pipes : batch'[p] = IF p = q THEN b ELSE batch[p]
    BY <2>1 DEF ReadsAs, TypeOK
  <2> QED  BY <2>2, <2>4, <2>5 DEF InHand, Meant, Owns
<1>2. ASSUME NEW q \in Pipes, Ship(q)
      PROVE  InHand'
  <2>1. \A p \in Pipes : /\ batch'[p].ids \subseteq batch[p].ids
                         /\ batch'[p] = batch[p] \/ batch'[p].step # "advanced"
    <3>1. batch[q].step = "read"
      BY <1>2 DEF Ship
    <3> QED  BY <1>2, <3>1, BatchDoes, NoBatchIsEmpty
  <2>2. log' = log /\ record' = record
    BY <1>2 DEF Ship, queue
  <2> QED  BY <2>1, <2>2 DEF InHand, Meant, Owns
<1>3. ASSUME NEW q \in Pipes, Advance(q)
      PROVE  InHand'
  <2>1. \A p \in Pipes : batch'[p].upto = batch[p].upto /\ batch'[p].ids = batch[p].ids
    <3>1. batch'[q].upto = batch[q].upto /\ batch'[q].ids = batch[q].ids
      BY <1>3, BatchMoves DEF Advance, TypeOK
    <3> QED  BY <1>3, <3>1, BatchDoes
  <2>2. \A p \in Pipes \ {q} : batch'[p] = batch[p] /\ record'[p] = record[p]
    BY <1>3 DEF Advance, TypeOK
  <2>3. batch'[q].upto <= record'[q]
    BY <1>3, <2>1, Numbers DEF Advance, TypeOK
  <2>4. log' = log
    BY <1>3 DEF Advance, queue
  <2> QED  BY <2>1, <2>2, <2>3, <2>4 DEF InHand, Meant, Owns
<1>4. ASSUME NEW q \in Pipes, Commit(q) \/ Abort(q)
      PROVE  InHand'
  <2>1. \A p \in Pipes : batch'[p] = batch[p] \/ batch'[p] = NoBatch
    BY <1>4 DEF Commit, Abort, TypeOK
  <2>2. log' = log /\ record' = record
    BY <1>4 DEF Commit, Abort, queue
  <2> QED  BY <2>1, <2>2, NoBatchIsEmpty DEF InHand, Meant, Owns
<1>5. ASSUME NEW k \in Kinds, Flush(k)
      PROVE  InHand'
  <2>1. UNCHANGED <<record, batch>> /\ \A i \in Ids : log'[i] = log[i]
    BY <1>5, FlushAppends DEF Flush, memory
  <2>2. \A p \in Pipes : \A i \in batch[p].ids : i \in Ids
    BY DEF Bounded
  <2>3. ASSUME NEW p \in Pipes, NEW i \in batch[p].ids
        PROVE  Meant(p, i)'
    BY <2>1, <2>2 DEF InHand, Meant, Owns
  <2> QED  BY <2>1, <2>3 DEF InHand
<1>6. CASE RaiseCeiling
  BY <1>6 DEF RaiseCeiling, InHand, Meant, Owns, queue, memory
<1>7. CASE Restart
  BY <1>7 DEF Restart, InHand, Meant, Owns, NoBatch
<1>8. CASE UNCHANGED vars
  BY <1>8 DEF vars, InHand, Meant, Owns, queue, memory
<1> QED  BY <1>1, <1>2, <1>3, <1>4, <1>5, <1>6, <1>7, <1>8 DEF Next, Pump

\* Rows go to, and leave by, the pipeline that owns them.
LEMMA OwnerStep ==
  ASSUME OwnerInv, [Next]_vars
  PROVE  RowsKeepToTheirOwner'
<1>1. ASSUME UNCHANGED <<queue, sent>>, \A p \in Pipes : record'[p] >= record[p]
      PROVE  RowsKeepToTheirOwner'
  <2>1. \A p \in Pipes, i \in Ids : i <= record[p] => i <= record'[p]
    <3>1. \A p \in Pipes : record'[p] \in Int
      BY TypeInv DEF OwnerInv, TypeOK, None
    <3> QED  BY <1>1, <3>1, Numbers DEF OwnerInv, Ids
  <2> QED  BY <1>1, <2>1 DEF OwnerInv, RowsKeepToTheirOwner, Ids, Meant, Owns, queue
<1>2. ASSUME UNCHANGED <<queue, sent, record>>
      PROVE  RowsKeepToTheirOwner'
  BY <1>2 DEF OwnerInv, RowsKeepToTheirOwner, Ids, Meant, Owns, queue
<1>3. ASSUME NEW q \in Pipes, Ship(q)
      PROVE  RowsKeepToTheirOwner'
  <2>1. \A p \in Pipes : sent'[p] \subseteq sent[p] \cup batch[p].ids
    BY <1>3 DEF Ship, OwnerInv, TypeOK
  <2>2. \A p \in Pipes : \A i \in sent'[p] : Meant(p, i)
    BY <2>1 DEF OwnerInv, InHand, RowsKeepToTheirOwner
  <2> QED  BY <1>3, <2>2 DEF Ship, OwnerInv, RowsKeepToTheirOwner, Ids, Meant, Owns, queue
<1>4. ASSUME NEW q \in Pipes, Advance(q)
      PROVE  RowsKeepToTheirOwner'
  <2>1. \A p \in Pipes : record'[p] >= record[p]
    BY <1>4, Numbers DEF Advance, OwnerInv, TypeOK
  <2> QED  BY <1>1, <1>4, <2>1 DEF Advance, history
<1>5. ASSUME NEW q \in Pipes, Commit(q)
      PROVE  RowsKeepToTheirOwner'
  <2>1. batch[q].step = "advanced" /\ UNCHANGED <<log, record, sent>>
    BY <1>5 DEF Commit, history
  <2>2. ASSUME NEW i \in Ids \ present', i \in present
        PROVE  Conf[q].deletes /\ Owns(q, i) /\ i <= record[q]
    <3>1. Conf[q].deletes /\ i <= batch[q].upto /\ MayTouch(q, log[i], probe[q])
      BY <1>5, <2>2 DEF Commit, Deleted
    <3>2. probe[q] = "new" /\ batch[q].upto <= record[q]
      BY <2>1 DEF OwnerInv, NewOnly, InHand
    <3>3. i <= record[q]
      <4>1. i \in Int
        BY Numbers DEF OwnerInv, Ids
      <4> QED  BY <3>1, <3>2, <4>1, Numbers DEF OwnerInv
    <3> QED  BY <3>1, <3>2, <3>3, ScopeIsOwnership
  <2> QED  BY <2>1, <2>2 DEF OwnerInv, RowsKeepToTheirOwner, Ids, Meant, Owns
<1>6. ASSUME NEW k \in Kinds, Flush(k)
      PROVE  RowsKeepToTheirOwner'
  <2>1. /\ UNCHANGED <<sent, record>> /\ \A i \in Ids : log'[i] = log[i]
        /\ Ids' \ present' \subseteq Ids \ present
    BY <1>6, FlushAppends DEF Flush, history, OwnerInv
  <2>2. \A p \in Pipes : sent[p] \subseteq Ids
    BY DEF OwnerInv, TypeOK
  <2>3. ASSUME NEW p \in Pipes, NEW i \in Ids
        PROVE  (Owns(p, i) => Owns(p, i)') /\ (Meant(p, i) => Meant(p, i)')
    BY <2>1 DEF Owns, Meant
  <2>4. RowsKeepToTheirOwner
    BY DEF OwnerInv
  <2>5. ASSUME NEW p \in Pipes, NEW i \in sent'[p]
        PROVE  Meant(p, i)'
    BY <2>1, <2>2, <2>3, <2>4 DEF RowsKeepToTheirOwner
  <2>6. ASSUME NEW i \in Ids' \ present'
        PROVE  \E p \in Pipes : Conf[p].deletes /\ Owns(p, i)' /\ i <= record'[p]
    BY <2>1, <2>3, <2>4 DEF RowsKeepToTheirOwner
  <2> QED  BY <2>5, <2>6 DEF RowsKeepToTheirOwner
<1>7. ASSUME NEW q \in Pipes, Read(q)
      PROVE  RowsKeepToTheirOwner'
  BY <1>2, <1>7 DEF Read
<1>8. CASE RaiseCeiling \/ Restart \/ UNCHANGED vars \/ \E q \in Pipes : Abort(q)
  BY <1>2, <1>8 DEF RaiseCeiling, Restart, Abort, vars, history
<1> QED  BY <1>3, <1>4, <1>5, <1>6, <1>7, <1>8 DEF Next, Pump
-----------------------------------------------------------------------------
(* No row is skipped *)

\* Under Apart no other deleting pipeline owns a row of this one.
LEMMA OwnersAreApart ==
  ASSUME Apart, NEW q \in Pipes, NEW r \in Pipes, q # r, ~Conf[q].dedup, Conf[r].deletes,
         NEW i, Owns(q, i)
  PROVE  ~Owns(r, i)
BY DEF Apart, Owns, Unscoped

\* Where a promised pipeline reads on: behind nothing it still owes.
LEMMA ReadsFrom ==
  ASSUME Apart, SkipInv, NEW q \in Pipes, Promised(q), NEW seen, NEW after, NEW b,
         ReadsAs(q, seen, after, b)
  PROVE  /\ after >= 0 /\ after \in Int
         /\ start[q] # None =>
              /\ anchor'[q] = anchor[q] /\ start'[q] = start[q]
              /\ \A i \in Ids : i > record[q] /\ i > anchor[q] => i > after
         /\ start[q] = None =>
              /\ anchor'[q] = after /\ start'[q] = after
              /\ \A i \in Ids : Meant(q, i) => i <= after
<1>1. TypeOK /\ NewOnly /\ OneStart /\ RowsKeepToTheirOwner
  BY DEF SkipInv, OwnerInv
<1>2. /\ None = -1 /\ Len(log) \in Nat /\ record[q] \in Int /\ anchor[q] \in Int /\ start[q] \in Int
      /\ record[q] >= -1 /\ anchor[q] >= -1
  BY <1>1, Numbers
<1>3. seen = "new" /\ after = After(q, seen)
  BY <1>1 DEF ReadsAs, NewOnly
<1>4. /\ PresentPosition(q, seen) \in 0 .. Len(log)
      /\ \A i \in present : MayTouch(q, log[i], seen) => i <= PresentPosition(q, seen)
  BY <1>1, PositionOK
<1>5. after >= 0 /\ after \in Int
  BY <1>2, <1>3, <1>4 DEF After
<1>6. /\ anchor'[q] = IF record[q] = None /\ Conf[q].anchored THEN after ELSE anchor[q]
      /\ start'[q] = IF start[q] = None THEN after ELSE start[q]
  BY <1>1 DEF ReadsAs, TypeOK
<1>7. ASSUME start[q] # None
      PROVE  /\ anchor'[q] = anchor[q] /\ start'[q] = start[q]
             /\ \A i \in Ids : i > record[q] /\ i > anchor[q] => i > after
  <2>1. after = record[q] \/ after = 0 \/ after = anchor[q]
    BY <1>1, <1>3, <1>7 DEF After, OneStart
  <2>2. anchor'[q] = anchor[q]
    BY <1>1, <1>3, <1>6, <1>7 DEF After, OneStart
  <2>3. \A i \in Ids : i > 0
    BY <1>2 DEF Ids
  <2> QED  BY <1>6, <1>7, <2>1, <2>2, <2>3
<1>8. ASSUME start[q] = None
      PROVE  /\ anchor'[q] = after /\ start'[q] = after
             /\ \A i \in Ids : Meant(q, i) => i <= after
  <2>1. Conf[q].anchored /\ record[q] = None /\ anchor[q] = None
    BY <1>1, <1>2, <1>8 DEF OneStart
  <2>2. after = PresentPosition(q, seen)
    BY <1>3, <2>1 DEF After
  <2>3. ASSUME NEW i \in Ids, Meant(q, i)
        PROVE  i \in present
    <3>1. SUFFICES ASSUME i \notin present
                   PROVE  FALSE
      OBVIOUS
    <3>2. PICK r \in Pipes : Conf[r].deletes /\ Owns(r, i) /\ i <= record[r]
      BY <1>1, <3>1 DEF RowsKeepToTheirOwner
    <3>3. r = q
      BY <2>3, <3>2, OwnersAreApart DEF Meant, Promised
    <3> QED  BY <1>2, <2>1, <3>2, <3>3 DEF Ids
  <2>4. ASSUME NEW i \in Ids, Meant(q, i)
        PROVE  i <= after
    BY <1>3, <1>4, <2>2, <2>3, <2>4, ScopeIsOwnership DEF Meant
  <2> QED  BY <1>6, <1>8, <2>1, <2>4
<1> QED  BY <1>5, <1>7, <1>8

\* Before its first ack a pipeline's anchor is where it started.
LEMMA OneStartInv ==
  ASSUME Apart, SkipInv, [Next]_vars
  PROVE  OneStart'
<1>1. OneStart /\ TypeOK
  BY DEF SkipInv, OwnerInv
<1>2. ASSUME UNCHANGED <<record, anchor, start, restarts>>,
             \A p \in Pipes : batch[p] = NoBatch => batch'[p] = NoBatch
      PROVE  OneStart'
  BY <1>1, <1>2 DEF OneStart, Promised
<1>3. ASSUME NEW q \in Pipes, Read(q)
      PROVE  OneStart'
  <2>1. PICK seen, after, b : ReadsAs(q, seen, after, b)
    BY <1>1, <1>3, ReadDoes
  <2>2. \A p \in Pipes \ {q} : /\ anchor'[p] = anchor[p] /\ start'[p] = start[p]
                               /\ batch'[p] = batch[p]
    BY <2>1 DEF ReadsAs
  <2>3. record' = record /\ restarts' = restarts
    BY <2>1 DEF ReadsAs
  <2>4. ASSUME Promised(q)
        PROVE  /\ start'[q] # None /\ (~Conf[q].anchored => start'[q] = 0 /\ anchor'[q] = None)
               /\ record[q] = None /\ Conf[q].anchored => anchor'[q] # None
    <3>1. after # None
      BY <2>1, <2>4, ReadsFrom DEF None
    <3>2. /\ anchor'[q] = IF record[q] = None /\ Conf[q].anchored THEN after ELSE anchor[q]
          /\ start'[q] = IF start[q] = None THEN after ELSE start[q]
      BY <1>1, <2>1 DEF ReadsAs, TypeOK
    <3> QED  BY <1>1, <2>4, <3>1, <3>2 DEF OneStart, None
  <2> QED  BY <1>1, <2>2, <2>3, <2>4 DEF OneStart, Promised
<1>4. ASSUME NEW q \in Pipes, Ship(q) \/ Commit(q) \/ Abort(q)
      PROVE  OneStart'
  <2>1. \A p \in Pipes : batch[p] = NoBatch => batch'[p] = NoBatch
    BY <1>1, <1>4, BatchDoes, NoBatchIsEmpty
  <2> QED  BY <1>2, <1>4, <2>1 DEF Ship, Commit, Abort, history
<1>5. ASSUME NEW q \in Pipes, Advance(q)
      PROVE  OneStart'
  <2>1. batch[q] # NoBatch /\ \A p \in Pipes \ {q} : batch'[p] = batch[p] /\ record'[p] = record[p]
    BY <1>1, <1>5, NoBatchIsEmpty DEF Advance
  <2>2. UNCHANGED <<anchor, start, restarts>>
    BY <1>5 DEF Advance, history
  <2>3. Promised(q) => start[q] # None
    BY <1>1, <2>1 DEF OneStart
  <2>4. record'[q] # None
    <3>1. record'[q] = IF batch[q].upto > record[q] THEN batch[q].upto ELSE record[q]
      BY <1>1, <1>5 DEF Advance, TypeOK
    <3> QED  BY <1>1, <3>1, Numbers
  <2> QED  BY <1>1, <2>1, <2>2, <2>3, <2>4 DEF OneStart, Promised
<1>6. CASE Restart
  <2>1. \A p \in Pipes : Promised(p)' => Promised(p) /\ ~Conf[p].anchored
    BY <1>1, <1>6 DEF Restart, Promised, TypeOK
  <2> QED  BY <1>1, <1>6, <2>1 DEF Restart, OneStart
<1>7. ASSUME NEW k \in Kinds, Flush(k)
      PROVE  OneStart'
  BY <1>2, <1>7 DEF Flush, memory, history
<1>8. CASE RaiseCeiling \/ UNCHANGED vars
  BY <1>2, <1>8 DEF RaiseCeiling, vars, memory, history
<1> QED  BY <1>3, <1>4, <1>5, <1>6, <1>7, <1>8 DEF Next, Pump

\* Reaching is kept when rows, records and sent rows stay and no anchor rises.
LEMMA ReachesKept ==
  ASSUME SkipInv, NEW q \in Pipes, Promised(q), log' = log, start'[q] = start[q],
         sent[q] \subseteq sent'[q],
         \A i \in Ids : Meant(q, i) /\ i > start[q] /\ i \in present /\ i \notin sent'[q]
                          /\ i > record[q] /\ i > anchor[q]
                        => i \in present' /\ i > record'[q] /\ i > anchor'[q]
  PROVE  Reaches(q)'
<1>1. Reaches(q)
  BY DEF SkipInv, NothingSkipped, Promised
<1>2. Ids' = Ids /\ \A i : Meant(q, i)' = Meant(q, i)
  BY DEF Ids, Meant, Owns
<1> QED  BY <1>1, <1>2 DEF Reaches

\* Completeness is kept when a batch in hand stays.
LEMMA WholeKept ==
  ASSUME SkipInv, NEW q \in Pipes, Promised(q), log' = log, start'[q] = start[q],
         sent[q] \subseteq sent'[q], batch'[q] = batch[q] \/ batch'[q] = NoBatch
  PROVE  \A i \in Ids' : Meant(q, i)' /\ i > start'[q] /\ i <= batch'[q].upto =>
           i \in sent'[q] \/ (batch'[q].step = "read" /\ i \in batch'[q].ids)
<1>1. Whole /\ Ids' = Ids /\ \A i : Meant(q, i)' = Meant(q, i)
  BY DEF SkipInv, Ids, Meant, Owns
<1>2. \A i \in Ids : ~(i <= 0)
  BY Numbers DEF SkipInv, OwnerInv, Ids
<1> QED  BY <1>1, <1>2, NoBatchIsEmpty DEF Whole

\* What the two parts say of one pipeline.
Complete(q) ==
  \A i \in Ids : Meant(q, i) /\ i > start[q] /\ i <= batch[q].upto =>
    i \in sent[q] \/ (batch[q].step = "read" /\ i \in batch[q].ids)

\* No step skips a row: Whole and NothingSkipped are kept.
LEMMA SkippedStep ==
  ASSUME ~OldSinks, Apart, SkipInv, [Next]_vars
  PROVE  Whole' /\ NothingSkipped'
<1>1. TypeOK /\ Bounded /\ NewOnly /\ InHand /\ Whole /\ NothingSkipped
  BY DEF SkipInv, OwnerInv
<1>2. Len(log) \in Nat /\ \A i \in Ids : i \in Int /\ i > 0
  BY <1>1, Numbers DEF Ids
<1>3. SUFFICES ASSUME NEW q \in Pipes, Promised(q)'
               PROVE  Complete(q)' /\ Reaches(q)'
  BY DEF Whole, NothingSkipped, Promised, Complete
<1>4. ASSUME restarts' = restarts \/ Restart
      PROVE  Promised(q)
  BY <1>1, <1>3, <1>4 DEF Promised, Restart, TypeOK
<1>5. ASSUME Promised(q), UNCHANGED <<log, sent, start, record, anchor>>, present \subseteq present',
             batch'[q] = batch[q] \/ batch'[q] = NoBatch
      PROVE  Complete(q)' /\ Reaches(q)'
  <2>1. Complete(q)'
    BY <1>5, WholeKept DEF Complete
  <2>2. Reaches(q)'
    BY <1>5, ReachesKept
  <2> QED  BY <2>1, <2>2
<1>6. ASSUME NEW r \in Pipes, Read(r)
      PROVE  Complete(q)' /\ Reaches(q)'
  <2>1. PICK seen, after, b : ReadsAs(r, seen, after, b)
    BY <1>1, <1>6, ReadDoes
  <2>2. UNCHANGED <<log, present, schema, sent, record, restarts>> /\ Promised(q)
    BY <1>4, <2>1 DEF ReadsAs, queue
  <2>3. CASE r # q
    <3>1. start'[q] = start[q] /\ anchor'[q] = anchor[q] /\ batch'[q] = batch[q]
      BY <2>1, <2>3 DEF ReadsAs
    <3>2. Complete(q)'
      BY <2>2, <3>1, WholeKept DEF Complete
    <3>3. Reaches(q)'
      BY <2>2, <3>1, ReachesKept
    <3> QED  BY <3>2, <3>3
  <2>4. CASE r = q
    <3>1. /\ start[q] # None =>
               /\ anchor'[q] = anchor[q] /\ start'[q] = start[q]
               /\ \A i \in Ids : i > record[q] /\ i > anchor[q] => i > after
          /\ start[q] = None =>
               /\ anchor'[q] = after /\ start'[q] = after
               /\ \A i \in Ids : Meant(q, i) => i <= after
          /\ after \in Int
      BY <2>1, <2>2, <2>4, ReadsFrom
    <3>2. Ids' = Ids /\ \A i : Meant(q, i)' = Meant(q, i)
      BY <2>2 DEF Ids, Meant, Owns
    <3>3. CASE start[q] = None
      <4>1. \A i \in Ids : ~(Meant(q, i) /\ i > start'[q])
        BY <1>2, <3>1, <3>3
      <4> QED  BY <3>2, <4>1 DEF Complete, Reaches
    <3>4. CASE start[q] # None
      <4>1. Reaches(q)'
        BY <2>2, <3>1, <3>4, ReachesKept
      <4>2. ASSUME NEW i \in Ids, Meant(q, i), i > start[q], i <= b.upto, i \notin sent[q]
            PROVE  i \in b.ids /\ b.step = "read"
        <5>1. i \in present /\ i > record[q] /\ i > anchor[q]
          BY <1>1, <2>2, <3>4, <4>2 DEF NothingSkipped, Promised, Reaches
        <5>2. i > after
          BY <3>1, <3>4, <5>1
        <5>3. seen = "new"
          BY <1>1, <2>1, <2>4 DEF ReadsAs, NewOnly
        <5>4. i \in Visible(q, seen)
          BY <2>2, <4>2, <5>1, <5>3, ScopeIsOwnership DEF Visible, Meant, Apart, Promised
        <5>5. i \in Selected(q, after, seen)
          BY <2>2, <5>2, <5>4 DEF Selected, Promised
        <5>6. i \in b.ids /\ b # NoBatch
          BY <2>1, <2>4, <4>2, <5>5, NoBatchIsEmpty DEF ReadsAs
        <5> QED  BY <2>1, <5>6 DEF ReadsAs
      <4>3. batch'[q] = b
        BY <1>1, <2>1, <2>4 DEF ReadsAs, TypeOK
      <4>4. Complete(q)'
        BY <2>2, <3>1, <3>2, <3>4, <4>2, <4>3 DEF Complete
      <4> QED  BY <4>1, <4>4
    <3> QED  BY <3>3, <3>4
  <2> QED  BY <2>3, <2>4
<1>7. ASSUME NEW r \in Pipes, Ship(r)
      PROVE  Complete(q)' /\ Reaches(q)'
  <2>1. UNCHANGED <<log, present, start, record, anchor, restarts>> /\ Promised(q)
    BY <1>4, <1>7 DEF Ship, queue
  <2>2. sent[q] \subseteq sent'[q]
    BY <1>1, <1>7 DEF Ship, TypeOK
  <2>3. Reaches(q)'
    BY <2>1, <2>2, ReachesKept
  <2>4. CASE batch'[q] = batch[q] \/ batch'[q] = NoBatch
    BY <2>1, <2>2, <2>4, <2>3, WholeKept DEF Complete
  <2>5. CASE r = q /\ batch'[q] # NoBatch
    <3>1. sent'[q] = sent[q] \cup batch[q].ids /\ batch'[q].upto = batch[q].upto
      BY <1>1, <1>7, <2>5, BatchDoes DEF Ship, TypeOK
    <3>2. Ids' = Ids /\ \A i : Meant(q, i)' = Meant(q, i)
      BY <2>1 DEF Ids, Meant, Owns
    <3>3. Complete(q)'
      BY <1>1, <2>1, <3>1, <3>2 DEF Complete, Whole
    <3> QED  BY <2>3, <3>3
  <2> QED  BY <1>1, <1>7, <2>4, <2>5, BatchDoes
<1>8. ASSUME NEW r \in Pipes, Advance(r)
      PROVE  Complete(q)' /\ Reaches(q)'
  <2>1. UNCHANGED <<log, present, start, sent, anchor, restarts>> /\ Promised(q)
    BY <1>4, <1>8 DEF Advance, queue, history
  <2>2. CASE r # q
    <3>1. batch'[q] = batch[q] /\ record'[q] = record[q]
      BY <1>8, <2>2 DEF Advance
    <3>2. Complete(q)'
      BY <2>1, <3>1, WholeKept DEF Complete
    <3>3. Reaches(q)'
      BY <2>1, <3>1, ReachesKept
    <3> QED  BY <3>2, <3>3
  <2>3. CASE r = q
    <3>1. /\ batch[q].step = "acked" /\ batch'[q].upto = batch[q].upto
          /\ record'[q] = IF batch[q].upto > record[q] THEN batch[q].upto ELSE record[q]
      BY <1>1, <1>8, <2>3, BatchMoves DEF Advance, TypeOK
    <3>2. \A i \in Ids : Meant(q, i) /\ i > start[q] /\ i <= batch[q].upto => i \in sent[q]
      BY <1>1, <2>1, <3>1 DEF Whole
    <3>3. Ids' = Ids /\ \A i : Meant(q, i)' = Meant(q, i)
      BY <2>1 DEF Ids, Meant, Owns
    <3>4. Complete(q)'
      BY <2>1, <3>1, <3>2, <3>3 DEF Complete
    <3>5. ASSUME NEW i \in Ids, Meant(q, i), i > start[q], i \notin sent[q], i > record[q]
          PROVE  i > record'[q]
      <4>1. ~(i <= batch[q].upto)
        BY <3>2, <3>5
      <4>2. batch[q].upto \in Nat
        BY <1>1, Numbers
      <4> QED  BY <1>2, <3>1, <3>5, <4>1, <4>2
    <3>6. Reaches(q)'
      BY <2>1, <3>5, ReachesKept
    <3> QED  BY <3>4, <3>6
  <2> QED  BY <2>2, <2>3
<1>9. ASSUME NEW r \in Pipes, Commit(r)
      PROVE  Complete(q)' /\ Reaches(q)'
  <2>1. UNCHANGED <<log, record, start, sent, anchor, restarts>> /\ Promised(q)
    BY <1>4, <1>9 DEF Commit, history
  <2>2. batch'[q] = batch[q] \/ batch'[q] = NoBatch
    BY <1>1, <1>9 DEF Commit, TypeOK
  <2>3. Complete(q)'
    BY <2>1, <2>2, WholeKept DEF Complete
  <2>4. ASSUME NEW i \in Ids, Meant(q, i), i > start[q], i \in present, i \notin present'
        PROVE  i \in sent[q]
    <3>1. /\ batch[r].step = "advanced" /\ Conf[r].deletes
          /\ i <= batch[r].upto /\ MayTouch(r, log[i], probe[r])
      BY <1>9, <2>4 DEF Commit, Deleted
    <3>2. Owns(r, i)
      BY <1>1, <3>1, ScopeIsOwnership DEF NewOnly
    <3>3. r = q
      BY <2>1, <2>4, <3>1, <3>2, OwnersAreApart DEF Meant, Promised
    <3> QED  BY <1>1, <2>1, <2>4, <3>1, <3>3 DEF Whole
  <2>5. Reaches(q)'
    BY <2>1, <2>4, ReachesKept
  <2> QED  BY <2>3, <2>5
<1>10. ASSUME NEW k \in Kinds, Flush(k)
       PROVE  Complete(q)' /\ Reaches(q)'
  <2>1. UNCHANGED <<record, start, sent, anchor, batch, restarts>> /\ Promised(q)
    BY <1>4, <1>10 DEF Flush, memory, history
  <2>2. /\ \A i \in Ids : log'[i] = log[i]
        /\ present' = present \cup {Len(log) + 1} /\ Ids' = Ids \cup {Len(log) + 1}
    BY <1>1, <1>10, FlushAppends
  <2>3. \A i \in Ids : Meant(q, i)' = Meant(q, i)
    BY <2>2 DEF Meant, Owns
  <2>4. /\ Len(log) + 1 > record[q] /\ Len(log) + 1 > anchor[q]
        /\ ~(Len(log) + 1 <= batch[q].upto)
    BY <1>1, Numbers DEF Bounded
  <2>5. Complete(q)'
    BY <1>1, <2>1, <2>2, <2>3, <2>4 DEF Complete, Whole
  <2>6. Reaches(q)
    BY <1>1, <2>1 DEF NothingSkipped, Promised
  <2>7. Reaches(q)'
    BY <2>1, <2>2, <2>3, <2>4, <2>6 DEF Reaches
  <2> QED  BY <2>5, <2>7
<1>11. CASE Restart
  <2>1. Promised(q) /\ UNCHANGED <<log, present, start, sent, record>>
    BY <1>4, <1>11 DEF Restart, queue
  <2>2. batch'[q] = NoBatch /\ anchor'[q] = -1
    BY <1>11 DEF Restart, None
  <2>3. Complete(q)'
    BY <2>1, <2>2, WholeKept DEF Complete
  <2>4. \A i \in Ids : i > -1
    BY <1>2
  <2>5. Reaches(q)'
    BY <2>1, <2>2, <2>4, ReachesKept
  <2> QED  BY <2>3, <2>5
<1>12. CASE RaiseCeiling \/ UNCHANGED vars
  BY <1>4, <1>5, <1>12 DEF RaiseCeiling, vars, queue, memory, history
<1>13. ASSUME NEW r \in Pipes, Abort(r)
       PROVE  Complete(q)' /\ Reaches(q)'
  <2>1. batch'[q] = batch[q] \/ batch'[q] = NoBatch
    BY <1>1, <1>13 DEF Abort, TypeOK
  <2> QED  BY <1>4, <1>5, <1>13, <2>1 DEF Abort, queue
<1> QED  BY <1>6, <1>7, <1>8, <1>9, <1>10, <1>11, <1>12, <1>13 DEF Next, Pump
-----------------------------------------------------------------------------
(* One row of each partition *)

\* No pipeline that deletes owns a row of a dedup one that leaves them.
KeptForDedup ==
  \A q \in Pipes : Conf[q].dedup /\ ~Conf[q].deletes =>
    \A r \in Pipes : Conf[r].deletes =>
      Conf[q].producer # Conf[r].producer /\ Unscoped \notin {Conf[q].producer, Conf[r].producer}

\* The pipelines EachSpotOnce speaks of.
SpotOnly(q) == Conf[q].dedup /\ ~Conf[q].deletes

\* The rows whose last delivery was recorded, or still may be.
Kept(q) == sent[q] \ lost[q]

\* What such a pipeline keeps, or holds, is in the queue and in the query's
\* sight for good; it is behind the record, or acked and in hand.
InSight(q) == \A i \in Kept(q) \cup batch[q].ids : i \in Visible(q, "new")
Behind(q) == \A i \in Kept(q) : i <= record[q] \/ (batch[q].step = "acked" /\ i \in batch[q].ids)
OneEach(q) == \A i, j \in Kept(q) \cup batch[q].ids : Rival(i, j) => i = j

\* The invariant of EachSpotIsSentOnce.
SpotInv ==
  /\ OwnerInv
  /\ \A q \in Pipes : \A i \in batch[q].ids : i <= batch[q].upto
  /\ \A q \in Pipes : SpotOnly(q) => InSight(q) /\ Behind(q) /\ OneEach(q)

\* A winner has no rival behind the cursor, and is the only one.
LEMMA WinnersAreAlone ==
  ASSUME TypeOK, NEW S \in SUBSET Ids, NEW after \in Int, NEW i \in Winners(S, after)
  PROVE  /\ \A j \in S : Rival(i, j) => j > after
         /\ \A j \in Winners(S, after) : Rival(i, j) => i = j
<1>1. ASSUME NEW j \in Winners(S, after), Rival(i, j), i # j
      PROVE  FALSE
  <2>1. Beats(i, j) /\ Beats(j, i)
    BY <1>1 DEF Winners, Rival
  <2>2. \A k \in Ids : k \in Int /\ log[k] \in Kinds
    BY Numbers, ElementOfSeq DEF TypeOK, Ids
  <2>3. i \in Ids /\ j \in Ids
    BY DEF Winners
  <2>4. log[i].snr \in Int /\ log[j].snr \in Int /\ i \in Int /\ j \in Int
    BY <2>2, <2>3, SourceAssumption
  <2> QED  BY <2>1, <2>4 DEF Beats
<1> QED  BY <1>1 DEF Winners

\* A read takes no rival of a row sent before, and no two of one partition.
LEMMA SpotRead ==
  ASSUME SpotInv, OwnerInv', NEW q \in Pipes, Read(q)
  PROVE  SpotInv'
<1>1. PICK seen, after, b : ReadsAs(q, seen, after, b)
  BY ReadDoes DEF SpotInv, OwnerInv
<1>2. TypeOK /\ NewOnly
  BY DEF SpotInv, OwnerInv
<1>3. seen = "new" /\ UNCHANGED <<log, present, record, ceiling, sent, lost>>
  BY <1>1, <1>2 DEF ReadsAs, NewOnly, queue
<1>4. \A p \in Pipes : batch'[p] = IF p = q THEN b ELSE batch[p]
  BY <1>1, <1>2 DEF ReadsAs, TypeOK
<1>10. \A p \in Pipes : Kept(p)' = Kept(p)
  BY <1>3 DEF Kept
<1>5. \A p \in Pipes : \A i : i \in Visible(p, "new") <=> i \in Visible(p, "new")'
  BY <1>3 DEF Visible, MayTouch, InScope
<1>6. ASSUME SpotOnly(q)
      PROVE  (InSight(q) /\ Behind(q) /\ OneEach(q))'
  <2> DEFINE S == Visible(q, "new")
  <2>1. S \in SUBSET Ids /\ after \in Int
    BY <1>1, <1>2, SourceAssumption DEF Visible, TypeOK, ReadsAs, None
  <2>2. b.ids \subseteq Winners(S, after)
    BY <1>1, <1>3, <1>6 DEF ReadsAs, Selected, SpotOnly
  <2>3. batch[q] = NoBatch /\ batch[q].ids = {} /\ batch[q].step = "none"
    BY <1>1, NoBatchIsEmpty DEF ReadsAs
  <2>4. \A i \in Kept(q) : i \in S /\ i <= record[q]
    BY <1>6, <2>3 DEF SpotInv, InSight, Behind
  <2>5. \A i \in Kept(q) : i <= after
    <3>1. ASSUME NEW i \in Kept(q)
          PROVE  record[q] # None
      <4>1. i \in Ids /\ i <= record[q]
        BY <1>2, <2>4, <3>1 DEF TypeOK, Kept
      <4>2. i > 0 /\ i \in Int
        BY <1>2, <4>1, Numbers DEF Ids
      <4> QED  BY <4>1, <4>2 DEF None
    <3> QED  BY <1>1, <2>4, <3>1 DEF ReadsAs, After
  <2>6. b.ids \subseteq S
    BY <2>2 DEF Winners
  <2>7. InSight(q)'
    BY <1>10, <1>3, <1>4, <1>5, <2>4, <2>6 DEF InSight
  <2>8. Behind(q)'
    BY <1>10, <1>3, <2>4 DEF Behind
  <2>9. ASSUME NEW i \in b.ids, NEW j \in Kept(q) \cup b.ids, Rival(i, j)
        PROVE  i = j
    <3>1. CASE j \in b.ids
      <4>1. i \in Winners(S, after) /\ j \in Winners(S, after)
        BY <2>2, <3>1
      <4> HIDE DEF S
      <4> QED  BY <1>2, <2>1, <2>9, <4>1, WinnersAreAlone
    <3>2. CASE j \in Kept(q)
      <4>1. i \in Winners(S, after) /\ j \in S /\ j <= after /\ j \in Int
        <5>1. j \in Ids /\ \A k \in Ids : k \in Int
          BY <1>2, <3>2, Numbers DEF TypeOK, Ids, Kept
        <5> QED  BY <2>2, <2>4, <2>5, <3>2, <5>1
      <4>2. j > after
        <5> HIDE DEF S
        <5> QED  BY <1>2, <2>1, <2>9, <4>1, WinnersAreAlone
      <4> QED  BY <2>1, <4>1, <4>2
    <3> QED  BY <3>1, <3>2
  <2>10. OneEach(q)'
    <3>1. ASSUME NEW i \in Kept(q) \cup b.ids, NEW j \in Kept(q) \cup b.ids, Rival(i, j)
          PROVE  i = j
      <4>1. Rival(j, i)
        BY <3>1 DEF Rival
      <4>2. i \in Kept(q) /\ j \in Kept(q) => i = j
        BY <1>6, <3>1 DEF SpotInv, OneEach
      <4> QED  BY <2>9, <3>1, <4>1, <4>2
    <3> QED  BY <1>10, <1>3, <1>4, <3>1 DEF OneEach, Rival
  <2> QED  BY <2>7, <2>8, <2>10
<1>7. ASSUME NEW p \in Pipes, p # q, SpotOnly(p)
      PROVE  (InSight(p) /\ Behind(p) /\ OneEach(p))'
  <2>1. InSight(p) /\ Behind(p) /\ OneEach(p)
    BY <1>7 DEF SpotInv
  <2>2. InSight(p)'
    BY <1>10, <1>3, <1>4, <1>5, <1>7, <2>1 DEF InSight
  <2> QED  BY <1>10, <1>3, <1>4, <1>7, <2>1, <2>2 DEF Behind, OneEach, Rival
<1>8. \A p \in Pipes : SpotOnly(p)' => SpotOnly(p)
  BY DEF SpotOnly
<1>9. \A p \in Pipes : \A i \in batch'[p].ids : i <= batch'[p].upto
  BY <1>1, <1>4 DEF ReadsAs, SpotInv
<1> QED  BY <1>6, <1>7, <1>8, <1>9 DEF SpotInv

\* Sending, recording, deleting and raising keep a row of each partition the only one.
LEMMA SpotPump ==
  ASSUME KeptForDedup, SpotInv, OwnerInv', NEW q \in Pipes, Ship(q) \/ Advance(q) \/ Commit(q) \/ Abort(q)
  PROVE  SpotInv'
<1>1. TypeOK /\ NewOnly
  BY DEF SpotInv, OwnerInv
<1>2. /\ UNCHANGED <<log, ceiling>> /\ (Commit(q) => batch[q].step # "none")
      /\ \A p \in Pipes \ {q} : batch'[p] = batch[p] /\ Kept(p)' = Kept(p) /\ record'[p] = record[p]
  <2>1. CASE Ship(q) \/ Advance(q) \/ Commit(q)
    BY <1>1, <2>1, BatchDoes DEF Ship, Advance, Commit, queue, history, TypeOK, Kept
  <2>2. CASE Abort(q)
    <3>1. \A p \in Pipes \ {q} : lost'[p] = lost[p]
      BY <2>2 DEF Abort, Forgotten
    <3> QED  BY <1>1, <2>2, <3>1, BatchDoes DEF Abort, Commit, queue, TypeOK, Kept
  <2> QED  BY <2>1, <2>2
<1>3. /\ batch'[q].ids \subseteq batch[q].ids
      /\ batch'[q] = NoBatch \/ batch'[q].upto = batch[q].upto
      /\ Kept(q)' \cup batch'[q].ids \subseteq Kept(q) \cup batch[q].ids
  <2>1. Kept(q)' \subseteq Kept(q) \cup batch[q].ids
    BY <1>1 DEF Ship, Advance, Commit, Abort, Forgotten, history, TypeOK, Kept
  <2> QED  BY <1>1, <2>1, BatchDoes, NoBatchIsEmpty
<1>4. ASSUME NEW p \in Pipes, SpotOnly(p), NEW i \in present, Owns(p, i)
      PROVE  i \in present'
  <2>1. CASE ~Commit(q)
    BY <1>4, <2>1 DEF Ship, Advance, Abort, queue
  <2>2. CASE Commit(q)
    <3>1. ASSUME Conf[q].deletes, i \in Deleted(q)
          PROVE  FALSE
      <4>1. probe[q] = "new"
        BY <1>1, <1>2, <2>2 DEF NewOnly
      <4>2. Owns(q, i)
        BY <3>1, <4>1, ScopeIsOwnership DEF Deleted
      <4> QED  BY <1>4, <3>1, <4>2 DEF KeptForDedup, SpotOnly, Owns, Unscoped
    <3> QED  BY <1>4, <2>2, <3>1 DEF Commit
  <2> QED  BY <2>1, <2>2
<1>5. ASSUME NEW p \in Pipes, SpotOnly(p)
      PROVE  (InSight(p) /\ Behind(p) /\ OneEach(p))'
  <2>1. InSight(p) /\ Behind(p) /\ OneEach(p)
    BY <1>5 DEF SpotInv
  <2>2. Kept(p)' \cup batch'[p].ids \subseteq Kept(p) \cup batch[p].ids
    BY <1>2, <1>3
  <2>3. ASSUME NEW i \in Visible(p, "new")
        PROVE  i \in Visible(p, "new")'
    <3>1. i \in present /\ Owns(p, i)
      BY <2>3, ScopeIsOwnership DEF Visible
    <3> QED  BY <1>2, <1>4, <1>5, <2>3, <3>1 DEF Visible, MayTouch, InScope
  <2>4. InSight(p)'
    BY <2>1, <2>2, <2>3 DEF InSight
  <2>5. OneEach(p)'
    BY <1>2, <2>1, <2>2 DEF OneEach, Rival
  <2>6. Behind(p)'
    <3>1. CASE p # q
      BY <1>2, <2>1, <3>1 DEF Behind
    <3>2. CASE p = q /\ Ship(q)
      <4>1. record' = record /\ batch[q].step = "read"
        BY <3>2 DEF Ship
      <4>3. batch'[q] = [batch[q] EXCEPT !.step = "acked"] =>
              batch'[q].step = "acked" /\ batch'[q].ids = batch[q].ids
        BY <1>1, BatchMoves DEF TypeOK
      <4>2. \/ Kept(q)' \subseteq Kept(q)
            \/ /\ Kept(q)' \subseteq Kept(q) \cup batch[q].ids
               /\ batch'[q] = [batch[q] EXCEPT !.step = "acked"]
        <5>1. batch'[q] = [batch[q] EXCEPT !.step = "acked"] \/ (batch'[q] = NoBatch /\
                (UNCHANGED <<sent, lost>> \/
                   (/\ sent'[q] = sent[q] \cup batch[q].ids
                    /\ lost'[q] = lost[q] \cup batch[q].ids)))
          BY <1>1, <3>2 DEF Ship, TypeOK
        <5>2. batch'[q] = NoBatch => Kept(q)' \subseteq Kept(q)
          BY <4>3, <5>1, NoBatchIsEmpty DEF Kept
        <5> QED  BY <1>3, <5>1, <5>2
      <4>4. \A i \in Kept(q) : i <= record[q]
        BY <2>1, <3>2, <4>1 DEF Behind
      <4> QED  BY <3>2, <4>1, <4>2, <4>3, <4>4 DEF Behind
    <3>3. CASE p = q /\ Advance(q)
      <4>1. /\ Kept(q)' = Kept(q)
            /\ record'[q] = IF batch[q].upto > record[q] THEN batch[q].upto ELSE record[q]
        BY <1>1, <3>3 DEF Advance, history, TypeOK, Kept
      <4>2. \A i \in Kept(q) : i \in Int /\ (i <= record[q] \/ i <= batch[q].upto)
        <5>1. \A i \in Ids : i \in Int
          BY <1>1, Numbers DEF Ids
        <5> QED  BY <1>1, <2>1, <3>3, <5>1 DEF Behind, SpotInv, TypeOK, Kept
      <4>3. record[q] \in Int /\ batch[q].upto \in Int
        BY <1>1, Numbers
      <4> QED  BY <3>3, <4>1, <4>2, <4>3 DEF Behind
    <3>4. CASE p = q /\ Commit(q)
      <4>1. Kept(q)' = Kept(q) /\ record' = record /\ batch[q].step = "advanced"
        BY <3>4 DEF Commit, history, Kept
      <4> QED  BY <2>1, <3>4, <4>1 DEF Behind
    <3>5. CASE p = q /\ Abort(q)
      <4>1. record' = record /\ sent' = sent
        BY <3>5 DEF Abort
      <4>2. lost'[q] = lost[q] \cup (IF batch[q].step = "acked" THEN batch[q].ids ELSE {})
        BY <3>5 DEF Abort, Forgotten
      <4>3. Kept(q)' \subseteq Kept(q) /\ (batch[q].step = "acked" => Kept(q)' \cap batch[q].ids = {})
        BY <4>1, <4>2 DEF Kept
      <4> QED  BY <2>1, <3>5, <4>1, <4>3 DEF Behind
    <3> QED  BY <3>1, <3>2, <3>3, <3>4, <3>5
  <2> QED  BY <2>4, <2>5, <2>6
<1>6. \A p \in Pipes : SpotOnly(p)' => SpotOnly(p)
  BY DEF SpotOnly
<1>7. \A p \in Pipes : \A i \in batch'[p].ids : i <= batch'[p].upto
  BY <1>2, <1>3, NoBatchIsEmpty DEF SpotInv
<1> QED  BY <1>5, <1>6, <1>7 DEF SpotInv

\* A new row, a higher ceiling and a restart leave what was sent as it was.
LEMMA SpotOthers ==
  ASSUME SpotInv, OwnerInv', (\E k \in Kinds : Flush(k)) \/ RaiseCeiling \/ Restart \/ UNCHANGED vars
  PROVE  SpotInv'
<1>1. TypeOK /\ Bounded
  BY DEF SpotInv, OwnerInv
<1>2. /\ \A i \in Ids : log'[i] = log[i]
      /\ present \subseteq present' /\ UNCHANGED <<sent, record>>
  BY <1>1, FlushAppends DEF Flush, RaiseCeiling, Restart, vars, queue, history
<1>8. \A p \in Pipes : Kept(p)' \subseteq Kept(p)
                       /\ (Restart /\ batch[p].step = "acked" => Kept(p)' \cap batch[p].ids = {})
  <2>1. CASE Restart
    <3>1. \A p \in Pipes :
            lost'[p] = lost[p] \cup (IF batch[p].step = "acked" THEN batch[p].ids ELSE {})
      BY <2>1 DEF Restart, Forgotten
    <3> QED  BY <1>2, <3>1 DEF Kept
  <2>2. CASE ~Restart
    BY <2>2 DEF Flush, RaiseCeiling, vars, history, Kept
  <2> QED  BY <2>1, <2>2
<1>3. \A p \in Pipes : batch'[p] = batch[p] \/ (batch'[p] = NoBatch /\ Restart)
  BY DEF Flush, RaiseCeiling, Restart, vars, memory
<1>4. ASSUME NEW p \in Pipes, NEW i \in Visible(p, "new")
      PROVE  i \in Visible(p, "new")'
  <2>1. i \in present /\ i \in Ids
    BY <1>1 DEF Visible, TypeOK
  <2>2. Conf[p].ceiled => log[i].cycle <= ceiling'
    <3>1. log[i].cycle \in Int
      BY <1>1, <2>1, Numbers, ElementOfSeq, SourceAssumption DEF TypeOK, Ids
    <3>2. ceiling' = ceiling \/ ceiling' = ceiling + 1
      BY DEF Flush, RaiseCeiling, Restart, vars
    <3>3. ceiling \in Int
      BY <1>1, SourceAssumption DEF TypeOK
    <3> QED  BY <1>4, <3>1, <3>2, <3>3 DEF Visible
  <2> QED  BY <1>2, <1>4, <2>1, <2>2 DEF Visible, MayTouch, InScope
<1>5. \A p \in Pipes : SpotOnly(p)' => SpotOnly(p)
  BY DEF SpotOnly
<1>6. ASSUME NEW p \in Pipes, SpotOnly(p)'
      PROVE  (InSight(p) /\ Behind(p) /\ OneEach(p))'
  <2>1. InSight(p) /\ Behind(p) /\ OneEach(p)
    BY <1>5, <1>6 DEF SpotInv
  <2>2. Kept(p)' \cup batch'[p].ids \subseteq Kept(p) \cup batch[p].ids
    BY <1>3, <1>8, NoBatchIsEmpty
  <2>3. Kept(p) \cup batch[p].ids \subseteq Ids
    BY <1>1 DEF TypeOK, Bounded, Kept
  <2>4. InSight(p)'
    BY <1>4, <2>1, <2>2 DEF InSight
  <2>5. OneEach(p)'
    BY <1>2, <2>1, <2>2, <2>3 DEF OneEach, Rival
  <2>6. Behind(p)'
    BY <1>2, <1>3, <1>8, <2>1 DEF Behind
  <2> QED  BY <2>4, <2>5, <2>6
<1>7. \A p \in Pipes : \A i \in batch'[p].ids : i <= batch'[p].upto
  BY <1>3, NoBatchIsEmpty DEF SpotInv
<1> QED  BY <1>6, <1>7 DEF SpotInv
-----------------------------------------------------------------------------
(* Theorems *)

\* The queue is empty and nothing is sent.
LEMMA InitInv == Init => SkipInv
<1> SUFFICES ASSUME Init
             PROVE  SkipInv
  OBVIOUS
<1>1. Ids = {} /\ Len(log) = 0 /\ log \in Seq(Kinds)
  BY EmptySeq DEF Init, Ids
<1>2. TypeOK
  <2>1. /\ 0 \in 0 .. MaxCycle /\ 0 \in 0 .. MaxRestarts /\ None \in None .. MaxRows
        /\ 0 \in None .. MaxRows /\ 0 <= MaxRows
    BY SourceAssumption DEF None
  <2> QED  BY <1>1, <2>1, NoBatchIsEmpty DEF Init, TypeOK
<1>3. Bounded /\ NewOnly /\ InHand
  BY <1>1, NoBatchIsEmpty DEF Init, Bounded, NewOnly, InHand, None
<1>4. RowsKeepToTheirOwner /\ OneStart /\ Whole /\ NothingSkipped
  BY <1>1, NoBatchIsEmpty
  DEF Init, RowsKeepToTheirOwner, OneStart, Whole, NothingSkipped, Reaches, None
<1> QED  BY <1>2, <1>3, <1>4 DEF SkipInv, OwnerInv

\* The queue, the store and the sources' memory keep their types.
THEOREM TypeCorrect == Spec => []TypeOK
<1>1. Init => TypeOK /\ Bounded
  BY InitInv DEF SkipInv, OwnerInv
<1>2. TypeOK /\ Bounded /\ [Next]_vars => (TypeOK /\ Bounded)'
  BY TypeInv, BoundedInv
<1> QED  BY <1>1, <1>2, PTL DEF Spec

\* Where every sink has the columns of v3.70, no pipeline ships a local row, a
\* row of another producer or of another version, and none is deleted but by
\* its owner behind the owner's record.
THEOREM OwnersKeepTheirRows ==
  ASSUME ~OldSinks
  PROVE  Spec => []RowsKeepToTheirOwner
<1>1. Init => OwnerInv
  BY InitInv DEF SkipInv
<1>2. OwnerInv /\ [Next]_vars => OwnerInv'
  BY ~OldSinks, TypeInv, BoundedInv, NewOnlyInv, InHandInv, OwnerStep DEF OwnerInv
<1>3. OwnerInv => RowsKeepToTheirOwner
  BY DEF OwnerInv
<1> QED  BY <1>1, <1>2, <1>3, PTL DEF Spec

\* Producers that share a table and each delete behind their own record skip
\* no row of one another, nor does a start at now that reads an empty table.
THEOREM NoRowIsSkipped ==
  ASSUME ~OldSinks, Apart
  PROVE  Spec => []NothingSkipped
<1>1. SkipInv /\ [Next]_vars => SkipInv'
  BY ~OldSinks, Apart, TypeInv, BoundedInv, NewOnlyInv, InHandInv, OwnerStep, OneStartInv,
     SkippedStep DEF SkipInv, OwnerInv
<1>2. SkipInv => NothingSkipped
  BY DEF SkipInv
<1> QED  BY InitInv, <1>1, <1>2, PTL DEF Spec

\* Where every sink has the columns of v3.70 and no deleting pipeline shares its
\* rows, a dedup sender sends one row of each partition among those whose last
\* delivery was recorded: no later row, higher ceiling, restart or pump that
\* raises makes a second one win.
THEOREM EachSpotIsSentOnce ==
  ASSUME ~OldSinks, KeptForDedup
  PROVE  Spec => []EachSpotOnce
<1>1. Init => SpotInv
  <2> SUFFICES ASSUME Init
               PROVE  SpotInv
    OBVIOUS
  <2>1. OwnerInv
    BY InitInv DEF SkipInv
  <2> QED  BY <2>1, NoBatchIsEmpty DEF Init, SpotInv, InSight, Behind, OneEach, Kept
<1>2. SpotInv /\ [Next]_vars => SpotInv'
  <2> SUFFICES ASSUME SpotInv, [Next]_vars
               PROVE  SpotInv'
    OBVIOUS
  <2>1. OwnerInv'
    BY ~OldSinks, TypeInv, BoundedInv, NewOnlyInv, InHandInv, OwnerStep DEF OwnerInv, SpotInv
  <2> QED  BY <2>1, KeptForDedup, SpotRead, SpotPump, SpotOthers DEF Next, Pump
<1>3. SpotInv => EachSpotOnce
  BY DEF SpotInv, SpotOnly, OneEach, Rival, Kept, EachSpotOnce
<1> QED  BY <1>1, <1>2, <1>3, PTL DEF Spec
=============================================================================
