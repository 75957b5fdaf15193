----------------------------- MODULE WsprProofs -----------------------------
(***************************************************************************)
(* Proofs about module WsprCycle, for every number of cycles, every set of *)
(* receivers and of bands and every backstop, when a receiver stores the   *)
(* noise of all its bands at once.                                         *)
(*                                                                         *)
(* NoRowMissed speaks of the send record only; what makes the next record  *)
(* safe is what is known of the batch in hand and of the retry that waits. *)
(* Covered: up to the cycle of a batch every row is taken, or in the       *)
(* batch, or late for good.  Settled: no row up to that cycle is still to  *)
(* come, unless the cycle was forced.  The ceiling a pump found must stay  *)
(* good until the batch is built (CeilingStands), although receivers go on *)
(* writing in between.                                                     *)
(***************************************************************************)
EXTENDS WsprCycle, WellFoundedInduction, TLAPS

\* The rows the promise is about, and those it excuses.
Meant(i) ==
  /\ i \in sink \cap WsprRows /\ i.from \in Expected
  /\ anchor # NoAnchor => i.cycle > anchor
Late(i) == Forced(i.cycle) /\ \E c \in forced : i.cycle <= c

Covered(c, R) == \A i \in sink : Meant(i) /\ i.cycle <= c => i \in taken \cup R \/ Late(i)
AllPast(c) == \A r \in Expected : at[r] > c
Settled(c) == AllPast(c) \/ (Forced(c) /\ \E d \in forced : c <= d)

\* A receiver reports its cycles one after the other.
ReportedIsPast == \A i \in sink : i.kind \in Bands => at[i.from] > i.cycle

CeilingStands ==
  pump.step = "list" =>
    /\ pump.ceiling \in Cycles
    /\ record = None => anchor # NoAnchor
    /\ \E c \in Cycles : Stored(c) # {} /\ Cursor < c /\ c <= pump.ceiling
    /\ AllPast(pump.ceiling) \/ Forced(pump.ceiling)

InHand ==
  /\ Covered(record, {}) /\ Settled(record)
  /\ Covered(pump.batch.cycle, pump.batch.rows) /\ Settled(pump.batch.cycle)
  /\ Covered(retry.cycle, retry.rows) /\ Settled(retry.cycle)

\* A batch keeps its riders out from the moment it is judged.
HeldInv ==
  /\ pump.step = "judge" /\ pump.held => Marked /\ switch # "upload"
  /\ HeldRiderStaysOut

IInv == TypeOK /\ ReportedIsPast /\ CeilingStands /\ InHand /\ HeldInv
-----------------------------------------------------------------------------
(* Facts about the operators *)

\* The cycle in progress lies within time.
LEMMA FloorType ==
  ASSUME TypeOK
  PROVE  Floor \in 0 .. MaxClock
BY WsprAssumption DEF TypeOK, Floor

\* What a row of the sink holds.
LEMMA RowFields ==
  /\ \A i \in WsprRows : /\ i.kind \in Kinds /\ i.kind # "psk" /\ i.from \in Receivers
                         /\ i.cycle \in Cycles
  /\ \A i \in Rows : i.cycle \in Cycles
  /\ \A k \in Kinds, r \in Receivers, c \in Cycles :
       /\ Row(k, r, c) \in WsprRows /\ Row(k, r, c).kind = k
       /\ Row(k, r, c).from = r /\ Row(k, r, c).cycle = c
<1>1. ASSUME NEW i \in WsprRows
      PROVE  i.kind \in Kinds /\ i.from \in Receivers /\ i.cycle \in Cycles
  <2>1. PICK k \in Kinds, r \in Receivers, c \in Cycles : i = Row(k, r, c)
    BY DEF WsprRows
  <2> QED  BY <2>1 DEF Row
<1>2. \A i \in Riders : i.cycle \in Cycles
  BY WsprAssumption
<1>3. ASSUME NEW k \in Kinds, NEW r \in Receivers, NEW c \in Cycles
      PROVE  /\ Row(k, r, c) \in WsprRows /\ Row(k, r, c).kind = k
             /\ Row(k, r, c).from = r /\ Row(k, r, c).cycle = c
  <2>1. Row(k, r, c) \in WsprRows
    BY DEF WsprRows
  <2> QED  BY <2>1 DEF Row
<1>4. "psk" \notin Kinds
  BY WsprAssumption DEF Kinds
<1> QED  BY <1>1, <1>2, <1>3, <1>4 DEF Rows

\* A cycle is an integer; so are positions and times.
LEMMA Numbers ==
  ASSUME TypeOK
  PROVE  /\ Cycles \subseteq Nat /\ clock \in Nat /\ Length \in Nat /\ Backstop \in Nat
         /\ record \in Int /\ pump.batch.cycle \in Int /\ retry.cycle \in Int
         /\ \A r \in Receivers : at[r] \in Int
BY WsprAssumption DEF TypeOK, None, Batches

\* A set of naturals has a least member.
LEMMA LeastExists ==
  ASSUME NEW S \in SUBSET Nat, S # {}
  PROVE  \E x \in S : \A y \in S : x <= y
<1> DEFINE R == OpToRel(<, Nat)
<1>1. IsWellFoundedOn(R, Nat)
  BY NatLessThanWellFounded
<1>2. \E x \in S : \A y \in S : ~(<<y, x>> \in R)
  <2> HIDE DEF R
  <2> QED  BY <1>1, WFMin, Zenon
<1>3. PICK x \in S : \A y \in S : ~(<<y, x>> \in R)
  BY <1>2
<1>4. ASSUME NEW y \in S
      PROVE  x <= y
  <2>1. ~(<<y, x>> \in {ss \in Nat \X Nat : ss[1] < ss[2]})
    BY <1>3 DEF OpToRel
  <2>2. ~(y < x)
    BY <2>1
  <2> QED  BY <2>2
<1> QED  BY <1>4

\* A set of naturals up to a bound has a greatest member.
LEMMA GreatestExists ==
  ASSUME NEW n \in Nat, NEW S \in SUBSET (0 .. n), S # {}
  PROVE  \E x \in S : \A y \in S : y <= x
<1> DEFINE T == {n - s : s \in S}
<1>1. T \in SUBSET Nat
  <2>1. ASSUME NEW s \in S
        PROVE  n - s \in Nat
    <3>1. s \in 0 .. n
      OBVIOUS
    <3> QED  BY <3>1
  <2> QED  BY <2>1
<1>4. T # {}
  OBVIOUS
<1>2. PICK t \in T : \A u \in T : t <= u
  BY <1>1, <1>4, LeastExists
<1>3. PICK x \in S : t = n - x
  OBVIOUS
<1>5. ASSUME NEW y \in S
      PROVE  y <= x
  <2>1. n - x <= n - y
    BY <1>2, <1>3
  <2>2. x \in 0 .. n /\ y \in 0 .. n
    OBVIOUS
  <2> QED  BY <2>1, <2>2
<1> QED  BY <1>5

\* The first cycle of a set of cycles.
LEMMA MinOfOK ==
  ASSUME NEW S \in SUBSET Cycles, S # {}
  PROVE  MinOf(S) \in S /\ \A d \in S : MinOf(S) <= d
<1>1. S \in SUBSET Nat
  BY WsprAssumption
<1> QED  BY <1>1, LeastExists DEF MinOf

\* The last cycle of a set of cycles.
LEMMA MaxOfOK ==
  ASSUME NEW S \in SUBSET Cycles, S # {}
  PROVE  MaxOf(S) \in S /\ \A d \in S : d <= MaxOf(S)
<1>1. LastCycle \in Nat /\ S \in SUBSET (0 .. LastCycle)
  BY WsprAssumption
<1> QED  BY <1>1, GreatestExists DEF MaxOf

\* A cycle before an overdue one is overdue.
LEMMA ForcedIsDownward ==
  ASSUME TypeOK, NEW c \in Int, NEW d \in Int, d <= c, Forced(c)
  PROVE  Forced(d)
<1>1. Length \in Nat /\ clock \in Nat /\ Backstop \in Nat
  BY Numbers
<1>2. d * Length <= c * Length
  BY <1>1
<1> QED  BY <1>1, <1>2 DEF Forced

\* An overdue cycle stays overdue.
LEMMA ForcedStays ==
  ASSUME TypeOK, clock' \in Nat, clock <= clock', NEW c \in Int, Forced(c)
  PROVE  Forced(c)'
BY Numbers DEF Forced
-----------------------------------------------------------------------------
(* Steps that leave the pump's facts alone *)

\* What a step must keep of the world for the facts about batches to stand:
\* no row taken or forced cycle is forgotten, time does not go back, and a row
\* that is new is late for every settled batch.
LEMMA CoveredStays ==
  ASSUME TypeOK, TypeOK', NEW c \in Int, NEW R, Covered(c, R),
         clock <= clock', taken \subseteq taken', forced \subseteq forced',
         anchor' = anchor \/ anchor = NoAnchor, sink' = sink
  PROVE  Covered(c, R)'
<1> SUFFICES ASSUME NEW i \in sink, Meant(i), i.cycle <= c, ~(i \in taken' \cup R)
             PROVE  Late(i)'
  BY DEF Covered, Meant
<1>1. Late(i)
  BY DEF Covered
<1>2. i.cycle \in Int /\ clock' \in Nat
  BY RowFields, Numbers, WsprAssumption DEF TypeOK, Meant
<1> QED  BY <1>1, <1>2, ForcedStays DEF Late

\* Nothing a step does brings back a cycle that is past, or forgets one
\* that was forced.
LEMMA SettledStays ==
  ASSUME TypeOK, TypeOK', NEW c \in Int, Settled(c), clock <= clock',
         forced \subseteq forced', \A r \in Receivers : at[r] <= at'[r]
  PROVE  Settled(c)'
<1>1. clock' \in Nat /\ Expected \subseteq Receivers
  BY WsprAssumption DEF TypeOK
<1>2. CASE AllPast(c)
  <2>1. \A r \in Receivers : at[r] \in Int /\ at'[r] \in Int
    BY WsprAssumption DEF TypeOK
  <2> QED  BY <1>1, <1>2, <2>1 DEF AllPast, Settled
<1>3. CASE Forced(c) /\ \E d \in forced : c <= d
  BY <1>1, <1>3, ForcedStays DEF Settled
<1> QED  BY <1>2, <1>3 DEF Settled

\* A receiver writes rows of its next cycle: a settled batch that has passed
\* that cycle was forced, and the rows are late.
LEMMA CoveredByNewRow ==
  ASSUME TypeOK, NEW c \in Int, NEW R, Covered(c, R), Settled(c),
         NEW r \in Receivers, NEW K \in SUBSET Kinds, at[r] \in Cycles,
         sink' = sink \cup {Row(k, r, at[r]) : k \in K},
         UNCHANGED <<clock, taken, forced, anchor>>
  PROVE  Covered(c, R)'
<1> SUFFICES ASSUME NEW i \in sink', Meant(i)', i.cycle <= c, ~(i \in taken \cup R)
             PROVE  Late(i)'
  BY DEF Covered
<1>1. CASE i \in sink
  BY <1>1 DEF Covered, Meant, Late, Forced
<1>2. CASE \E k \in K : i = Row(k, r, at[r])
  <2>1. r \in Expected /\ at[r] <= c /\ i.cycle = at[r] /\ at[r] \in Int
    BY <1>2, RowFields, Numbers DEF Meant
  <2>2. Forced(c) /\ \E d \in forced : c <= d
    BY <2>1 DEF Settled, AllPast
  <2>3. Forced(at[r])
    BY <2>1, <2>2, ForcedIsDownward
  <2>4. PICK d \in forced : c <= d
    BY <2>2
  <2>5. d \in Int /\ at[r] <= d
    BY <2>1, <2>4, Numbers DEF TypeOK
  <2> QED  BY <2>1, <2>3, <2>4, <2>5 DEF Late, Forced
<1> QED  BY <1>1, <1>2

\* What a pump found below its ceiling is still there, and still settled,
\* however the receivers went on.
LEMMA CeilingStays ==
  ASSUME TypeOK, TypeOK', CeilingStands, pump'.step = pump.step,
         pump'.ceiling = pump.ceiling, UNCHANGED <<record, anchor>>,
         sink \subseteq sink', clock <= clock', \A r \in Receivers : at[r] <= at'[r]
  PROVE  CeilingStands'
<1> SUFFICES ASSUME pump.step = "list"
             PROVE  /\ pump.ceiling \in Cycles
                    /\ record = None => anchor # NoAnchor
                    /\ \E c \in Cycles : Stored(c)' # {} /\ Cursor' < c /\ c <= pump.ceiling
                    /\ AllPast(pump.ceiling)' \/ Forced(pump.ceiling)'
  BY DEF CeilingStands
<1>1. /\ pump.ceiling \in Cycles
      /\ record = None => anchor # NoAnchor
  BY DEF CeilingStands
<1>2. Cursor' = Cursor
  BY <1>1 DEF Cursor, Anchor
<1>3. \E c \in Cycles : Stored(c)' # {} /\ Cursor' < c /\ c <= pump.ceiling
  <2>1. PICK c \in Cycles : Stored(c) # {} /\ Cursor < c /\ c <= pump.ceiling
    BY DEF CeilingStands
  <2>2. Stored(c)' # {}
    BY <2>1 DEF Stored
  <2> QED  BY <1>2, <2>1, <2>2
<1>4. pump.ceiling \in Int /\ clock' \in Nat /\ Expected \subseteq Receivers
  BY <1>1, Numbers, WsprAssumption DEF TypeOK
<1>5. CASE AllPast(pump.ceiling)
  <2>1. \A r \in Receivers : at[r] \in Int /\ at'[r] \in Int
    BY WsprAssumption DEF TypeOK
  <2> QED  BY <1>1, <1>3, <1>4, <1>5, <2>1 DEF AllPast
<1>6. CASE Forced(pump.ceiling)
  BY <1>1, <1>3, <1>4, <1>6, ForcedStays
<1> QED  BY <1>5, <1>6 DEF CeilingStands
-----------------------------------------------------------------------------
(* The world *)

\* At the start nothing is stored but psk rows, and no cycle is past.
LEMMA InitInv == Init => IInv
<1> SUFFICES ASSUME Init
             PROVE  IInv
  OBVIOUS
<1>1. Idle.batch \in Batches /\ NoBatch \in Batches /\ NoBatch.cycle = -1
      /\ Idle.step = "idle" /\ Idle.batch = NoBatch
  BY DEF Idle, NoBatch, Batches, None
<1>2. TypeOK
  BY <1>1, WsprAssumption DEF Init, TypeOK, Idle, None, Rows
<1>3. ReportedIsPast
  BY WsprAssumption DEF Init, ReportedIsPast
<1>4. ASSUME NEW R
      PROVE  Covered(-1, R) /\ Settled(-1)
  <2>1. \A i \in sink : i.cycle \in Nat
    BY <1>2, RowFields, Numbers DEF TypeOK
  <2>2. AllPast(-1)
    BY WsprAssumption DEF Init, AllPast
  <2> QED  BY <2>1, <2>2 DEF Covered, Settled
<1>5. InHand
  BY <1>1, <1>4 DEF Init, InHand, None
<1>6. CeilingStands /\ HeldInv
  BY <1>1 DEF Init, CeilingStands, HeldInv, HeldRiderStaysOut
<1> QED  BY <1>2, <1>3, <1>5, <1>6 DEF IInv

\* Time passes: what was overdue stays so.
LEMMA TickInv ==
  ASSUME IInv, Tick
  PROVE  IInv'
<1>1. TypeOK'
  BY WsprAssumption DEF IInv, TypeOK, Tick, pipe
<1>2. /\ clock <= clock'
      /\ UNCHANGED <<sink, at, switch, moves, record, anchor, retry, pump, taken, forced>>
      /\ TypeOK /\ CeilingStands /\ InHand
  BY WsprAssumption DEF IInv, TypeOK, Tick, pipe
<1>3. \A r \in Receivers : at[r] <= at'[r]
  BY <1>2, Numbers
<1>4. /\ record \in Int /\ pump.batch.cycle \in Int /\ retry.cycle \in Int
  BY <1>2, Numbers
<1>5. CeilingStands'
  BY <1>1, <1>2, <1>3, CeilingStays
<1>6. InHand'
  <2>1. Covered(record, {})' /\ Settled(record)'
    BY <1>1, <1>2, <1>3, <1>4, CoveredStays, SettledStays DEF InHand
  <2>2. Covered(pump.batch.cycle, pump.batch.rows)' /\ Settled(pump.batch.cycle)'
    BY <1>1, <1>2, <1>3, <1>4, CoveredStays, SettledStays DEF InHand
  <2>3. Covered(retry.cycle, retry.rows)' /\ Settled(retry.cycle)'
    BY <1>1, <1>2, <1>3, <1>4, CoveredStays, SettledStays DEF InHand
  <2> QED  BY <1>2, <2>1, <2>2, <2>3 DEF InHand
<1>7. ReportedIsPast' /\ HeldInv'
  BY <1>2 DEF IInv, ReportedIsPast, HeldInv, HeldRiderStaysOut
<1> QED  BY <1>1, <1>5, <1>6, <1>7 DEF IInv

\* A receiver skips a cycle: it is only further on.
LEMMA MissInv ==
  ASSUME IInv, NEW q \in Receivers, MissCycle(q)
  PROVE  IInv'
<1>1. TypeOK'
  BY WsprAssumption DEF IInv, TypeOK, MissCycle, pipe
<1>2. /\ UNCHANGED <<clock, sink, switch, moves, record, anchor, retry, pump, taken, forced>>
      /\ TypeOK /\ CeilingStands /\ InHand
  BY DEF IInv, MissCycle, pipe
<1>3. /\ \A r \in Receivers : at[r] <= at'[r] /\ at[r] \in Int /\ at'[r] \in Int
      /\ clock <= clock'
  BY <1>2, Numbers, WsprAssumption DEF MissCycle, TypeOK
<1>4. /\ record \in Int /\ pump.batch.cycle \in Int /\ retry.cycle \in Int
  BY <1>2, Numbers
<1>5. CeilingStands'
  BY <1>1, <1>2, <1>3, CeilingStays
<1>6. InHand'
  <2>1. Covered(record, {})' /\ Settled(record)'
    BY <1>1, <1>2, <1>3, <1>4, CoveredStays, SettledStays DEF InHand
  <2>2. Covered(pump.batch.cycle, pump.batch.rows)' /\ Settled(pump.batch.cycle)'
    BY <1>1, <1>2, <1>3, <1>4, CoveredStays, SettledStays DEF InHand
  <2>3. Covered(retry.cycle, retry.rows)' /\ Settled(retry.cycle)'
    BY <1>1, <1>2, <1>3, <1>4, CoveredStays, SettledStays DEF InHand
  <2> QED  BY <1>2, <2>1, <2>2, <2>3 DEF InHand
<1>7. ReportedIsPast'
  <2>1. ASSUME NEW i \in sink, i.kind \in Bands
        PROVE  at'[i.from] > i.cycle
    <3>1. i \in Rows /\ at[i.from] > i.cycle /\ i.cycle \in Int
      BY <1>2, <2>1, RowFields, Numbers DEF IInv, ReportedIsPast, TypeOK
    <3>2. i.from \in Receivers
      BY <2>1, <3>1, RowFields, WsprAssumption DEF Rows
    <3> QED  BY <1>3, <3>1, <3>2
  <2> QED  BY <1>2, <2>1 DEF ReportedIsPast
<1>8. HeldInv'
  BY <1>2 DEF IInv, HeldInv, HeldRiderStaysOut
<1> QED  BY <1>1, <1>5, <1>6, <1>7, <1>8 DEF IInv

\* A receiver writes a row of the cycle it is at.
LEMMA WriteInv ==
  ASSUME Together, IInv, NEW q \in Receivers, WriteSpots(q) \/ WriteNoise(q)
  PROVE  IInv'
<1>1. PICK K \in SUBSET Kinds :
        /\ sink' = sink \cup {Row(k, q, at[q]) : k \in K}
        /\ \/ K = Bands /\ at' = [at EXCEPT ![q] = @ + 1]
           \/ K = {"spots"} /\ at' = at
  <2>1. CASE WriteSpots(q)
    <3>1. {Row(k, q, at[q]) : k \in {"spots"}} = {Row("spots", q, at[q])}
      OBVIOUS
    <3> QED  BY <2>1, <3>1 DEF WriteSpots, Kinds
  <2>2. CASE WriteNoise(q)
    <3>1. sink' = sink \cup {Row(b, q, at[q]) : b \in Bands}
      BY <2>2 DEF WriteNoise
    <3>2. \A b \in Bands : Row(b, q, at[q]) \in sink'
      BY <3>1
    <3>3. at' = [at EXCEPT ![q] = @ + 1]
      BY <2>2, <3>2 DEF WriteNoise
    <3> QED  BY <3>1, <3>3 DEF Kinds
  <2> QED  BY <2>1, <2>2
<1>2. /\ UNCHANGED <<clock, switch, moves, record, anchor, retry, pump, taken, forced, faults>>
      /\ TypeOK /\ CeilingStands /\ InHand
  BY DEF IInv, WriteSpots, WriteNoise, pipe
<1>3. at[q] \in Cycles
  <2>1. CASE WriteSpots(q)
    BY <1>2, <2>1, WsprAssumption DEF WriteSpots, TypeOK
  <2>2. CASE WriteNoise(q)
    <3>1. Row("spots", q, at[q]) \in Rows
      BY <1>2, <2>2 DEF WriteNoise, TypeOK
    <3>2. Row("spots", q, at[q]).cycle = at[q]
      BY DEF Row
    <3> QED  BY <3>1, <3>2, RowFields
  <2> QED  BY <2>1, <2>2
<1>4. \A k \in K : /\ Row(k, q, at[q]) \in WsprRows /\ Row(k, q, at[q]).kind = k
                  /\ Row(k, q, at[q]).from = q /\ Row(k, q, at[q]).cycle = at[q]
  BY <1>3, RowFields
<1>5. TypeOK'
  BY <1>1, <1>2, <1>3, <1>4, WsprAssumption DEF TypeOK, Rows
<1>6. /\ \A r \in Receivers : at[r] <= at'[r] /\ at[r] \in Int /\ at'[r] \in Int
      /\ clock <= clock' /\ sink \subseteq sink'
  BY <1>1, <1>2, Numbers, WsprAssumption DEF TypeOK
<1>7. /\ record \in Int /\ pump.batch.cycle \in Int /\ retry.cycle \in Int
  BY <1>2, Numbers
<1>8. CeilingStands'
  BY <1>2, <1>5, <1>6, CeilingStays
<1>9. InHand'
  <2>1. Covered(record, {})' /\ Settled(record)'
    BY <1>1, <1>2, <1>3, <1>5, <1>6, <1>7, CoveredByNewRow, SettledStays DEF InHand
  <2>2. Covered(pump.batch.cycle, pump.batch.rows)' /\ Settled(pump.batch.cycle)'
    BY <1>1, <1>2, <1>3, <1>5, <1>6, <1>7, CoveredByNewRow, SettledStays DEF InHand
  <2>3. Covered(retry.cycle, retry.rows)' /\ Settled(retry.cycle)'
    BY <1>1, <1>2, <1>3, <1>5, <1>6, <1>7, CoveredByNewRow, SettledStays DEF InHand
  <2> QED  BY <1>2, <2>1, <2>2, <2>3 DEF InHand
<1>10. ReportedIsPast'
  <2>1. ASSUME NEW i \in sink, i.kind \in Bands
        PROVE  at'[i.from] > i.cycle
    <3>1. i \in Rows /\ at[i.from] > i.cycle /\ i.cycle \in Int
      BY <1>2, <2>1, RowFields, Numbers DEF IInv, ReportedIsPast, TypeOK
    <3>2. i.from \in Receivers
      BY <2>1, <3>1, RowFields, WsprAssumption DEF Rows
    <3> QED  BY <1>6, <3>1, <3>2
  <2>2. ASSUME NEW k \in K, k \in Bands
        PROVE  at'[q] > at[q]
    <3>1. at' = [at EXCEPT ![q] = @ + 1]
      BY <1>1, <2>2, WsprAssumption
    <3> QED  BY <1>2, <1>6, <3>1 DEF TypeOK
  <2>3. ASSUME NEW i \in sink', i.kind \in Bands, i \notin sink
        PROVE  at'[i.from] > i.cycle
    <3>1. PICK k \in K : i = Row(k, q, at[q])
      BY <1>1, <2>3
    <3> QED  BY <1>4, <2>2, <2>3, <3>1
  <2> QED  BY <2>1, <2>3 DEF ReportedIsPast
<1>11. HeldInv'
  BY <1>2 DEF IInv, HeldInv, HeldRiderStaysOut
<1> QED  BY <1>5, <1>8, <1>9, <1>10, <1>11 DEF IInv

\* The switch moves: only a batch that is being judged takes note.
LEMMA MoveInv ==
  ASSUME IInv, MoveSwitch
  PROVE  IInv'
<1>1. /\ pump' = IF pump.step = "judge"
                  THEN [pump EXCEPT !.held = pump.held /\ switch' # "upload"] ELSE pump
      /\ switch' \in {"upload", "hold"} /\ moves' \in 0 .. MaxMoves
      /\ UNCHANGED <<clock, sink, at, record, anchor, retry, taken, forced, faults>>
      /\ TypeOK /\ CeilingStands /\ InHand
  BY WsprAssumption DEF IInv, TypeOK, MoveSwitch
<1>2. /\ pump' \in [step : {"idle", "list", "judge", "ship", "replay"},
                     ceiling : Cycles \cup {None}, batch : Batches, held : BOOLEAN]
      /\ pump'.step = pump.step /\ pump'.ceiling = pump.ceiling /\ pump'.batch = pump.batch
  BY <1>1 DEF TypeOK
<1>3. TypeOK'
  BY <1>1, <1>2 DEF TypeOK
<1>4. CeilingStands' /\ InHand' /\ ReportedIsPast'
  BY <1>1, <1>2 DEF IInv, CeilingStands, InHand, ReportedIsPast, Covered, Settled, AllPast,
                    Forced, Late, Meant, Stored, Cursor, Anchor, Floor
<1>5. HeldInv'
  BY <1>1, <1>2 DEF IInv, HeldInv, HeldRiderStaysOut, TypeOK
<1> QED  BY <1>3, <1>4, <1>5 DEF IInv
-----------------------------------------------------------------------------
(* The pump *)

\* What a read may do to the anchor.
LEMMA AnchorType ==
  ASSUME TypeOK
  PROVE  /\ Floor - 1 \in {None} \cup 0 .. MaxClock
         /\ Anchor \in {NoAnchor, None} \cup 0 .. MaxClock
         /\ Anchor \in Int /\ Anchor # NoAnchor
         /\ Cursor \in Int
<1>1. Floor \in Nat /\ Floor - 1 \in {None} \cup 0 .. MaxClock /\ MaxClock \in Nat
  BY FloorType, WsprAssumption DEF None
<1>2. Anchor \in {NoAnchor, None} \cup 0 .. MaxClock /\ Anchor \in Int /\ Anchor # NoAnchor
  BY <1>1 DEF Anchor, TypeOK, None, NoAnchor
<1> QED  BY <1>1, <1>2, Numbers DEF Cursor

\* The facts about batches, when only the anchor is fixed.
LEMMA InHandStays ==
  ASSUME TypeOK, TypeOK', InHand, anchor' = anchor \/ anchor = NoAnchor,
         UNCHANGED <<world, taken, forced>>, NEW c \in Int, NEW R
  PROVE  /\ Covered(c, R) => Covered(c, R)'
         /\ Settled(c) => Settled(c)'
<1>1. /\ clock <= clock' /\ sink' = sink
      /\ \A r \in Receivers : at[r] <= at'[r]
  BY Numbers DEF world
<1> QED  BY <1>1, CoveredStays, SettledStays

\* No cycle is before the first.
LEMMA NothingBefore ==
  ASSUME TypeOK'
  PROVE  Covered(-1, {})' /\ Settled(-1)'
<1>1. \A i \in sink' : i.cycle \in Nat
  BY RowFields, WsprAssumption DEF TypeOK
<1>2. AllPast(-1)'
  BY WsprAssumption DEF TypeOK, AllPast
<1> QED  BY <1>1, <1>2 DEF Covered, Settled

\* A pump between two batches has none in hand.
LEMMA IdleFields ==
  /\ Idle.step = "idle" /\ Idle.held = FALSE
  /\ Idle.batch.cycle = -1 /\ Idle.batch.rows = {}
  /\ Idle \in [step : {"idle", "list", "judge", "ship", "replay"},
               ceiling : Cycles \cup {None}, batch : Batches, held : BOOLEAN]
BY DEF Idle, NoBatch, Batches, None

\* A first read that ships nothing fixes where reading starts.
LEMMA FixAnchorInv ==
  ASSUME IInv, FixAnchor
  PROVE  IInv'
<1>1. /\ UNCHANGED <<world, record, retry, pump, taken, forced, faults>>
      /\ anchor = NoAnchor /\ anchor' = Anchor /\ pump.step = "idle"
      /\ TypeOK /\ InHand
  BY DEF IInv, FixAnchor
<1>2. TypeOK'
  BY <1>1, AnchorType DEF TypeOK, world
<1>3. /\ record \in Int /\ pump.batch.cycle \in Int /\ retry.cycle \in Int
  BY <1>1, Numbers
<1>4. InHand'
  <2>1. Covered(record, {})' /\ Settled(record)'
    BY <1>1, <1>2, <1>3, InHandStays DEF InHand
  <2>2. Covered(pump.batch.cycle, pump.batch.rows)' /\ Settled(pump.batch.cycle)'
    BY <1>1, <1>2, <1>3, InHandStays DEF InHand
  <2>3. Covered(retry.cycle, retry.rows)' /\ Settled(retry.cycle)'
    BY <1>1, <1>2, <1>3, InHandStays DEF InHand
  <2> QED  BY <1>1, <2>1, <2>2, <2>3 DEF InHand
<1>5. CeilingStands' /\ ReportedIsPast' /\ HeldInv'
  BY <1>1 DEF IInv, CeilingStands, ReportedIsPast, HeldInv, HeldRiderStaysOut, world
<1> QED  BY <1>2, <1>4, <1>5 DEF IInv

\* A cycle every expected receiver reported is past for each of them.
LEMMA CompleteIsPast ==
  ASSUME ReportedIsPast, NEW c, Complete(c)
  PROVE  AllPast(c)
BY DEF Complete, Stored, AllPast, ReportedIsPast

\* A read finds a ceiling: a cycle past the cursor that has rows.
LEMMA ReadCeilingInv ==
  ASSUME IInv, ReadCeiling
  PROVE  IInv'
<1> DEFINE run == IF Expected = {} THEN Past(Cursor) ELSE Ceiling(Cursor)
<1>1. /\ UNCHANGED <<world, record, retry, taken, forced, faults>>
      /\ anchor' = IF record = None THEN Anchor ELSE anchor
      /\ run # {} /\ pump' = [Idle EXCEPT !.step = "list", !.ceiling = MaxOf(run)]
      /\ TypeOK /\ InHand /\ ReportedIsPast
  BY DEF IInv, ReadCeiling
<1>2. PICK top : /\ run \subseteq Past(Cursor) /\ run \subseteq Cycles
                 /\ top = MaxOf(run) /\ top \in run
                 /\ pump' = [Idle EXCEPT !.step = "list", !.ceiling = top]
  <2>1. run \subseteq Past(Cursor) /\ run \subseteq Cycles
    BY DEF Ceiling, Past
  <2> QED  BY <1>1, <2>1, MaxOfOK
<1>3. /\ pump'.step = "list" /\ pump'.ceiling = top
      /\ pump'.batch = NoBatch /\ pump'.held = FALSE
      /\ NoBatch \in Batches /\ NoBatch.cycle = -1 /\ NoBatch.rows = {}
  BY <1>2 DEF Idle, NoBatch, Batches, None
<1>4. pump' \in [step : {"idle", "list", "judge", "ship", "replay"},
                 ceiling : Cycles \cup {None}, batch : Batches, held : BOOLEAN]
  BY <1>1, <1>2, <1>3 DEF Idle
<1>5. TypeOK'
  BY <1>1, <1>4, AnchorType DEF TypeOK, world
<1>6. /\ record \in Int /\ retry.cycle \in Int
      /\ anchor' = anchor \/ anchor = NoAnchor
  BY <1>1, Numbers DEF Anchor
<1>7. InHand'
  <2>1. Covered(record, {})' /\ Settled(record)'
    BY <1>1, <1>5, <1>6, InHandStays DEF InHand
  <2>2. Covered(retry.cycle, retry.rows)' /\ Settled(retry.cycle)'
    BY <1>1, <1>5, <1>6, InHandStays DEF InHand
  <2>3. Covered(-1, {})' /\ Settled(-1)'
    BY <1>5, NothingBefore
  <2> QED  BY <1>1, <1>3, <2>1, <2>2, <2>3 DEF InHand
<1>8. CeilingStands'
  <2>1. AllPast(top) \/ Forced(top)
    <3>1. CASE Expected = {}
      BY <3>1 DEF AllPast
    <3>2. CASE Expected # {}
      <4>1. top \in Ceiling(Cursor) /\ top \in Int
        BY <1>1, <1>2, <3>2, Numbers
      <4>2. Complete(top) \/ Forced(top)
        BY <4>1 DEF Ceiling
      <4> QED  BY <1>1, <4>2, CompleteIsPast
    <3> QED  BY <3>1, <3>2
  <2>2. record = None => anchor' # NoAnchor
    BY <1>1, AnchorType
  <2>3. Cursor' = Cursor
    BY <1>1, <2>2 DEF Cursor, Anchor
  <2>4. top \in Cycles /\ Stored(top) # {} /\ Cursor < top
        /\ top <= top
    <3>1. top \in Past(Cursor) /\ top \in Int
      BY <1>1, <1>2, Numbers
    <3> QED  BY <3>1 DEF Past
  <2>5. \E c \in Cycles : Stored(c)' # {} /\ Cursor' < c /\ c <= top
    BY <1>1, <2>3, <2>4 DEF Stored, world
  <2>6. AllPast(top)' \/ Forced(top)'
    BY <1>1, <2>1 DEF AllPast, Forced, world
  <2> QED  BY <1>1, <1>3, <2>2, <2>4, <2>5, <2>6 DEF CeilingStands
<1>9. ReportedIsPast' /\ HeldInv'
  BY <1>1, <1>3 DEF ReportedIsPast, HeldInv, HeldRiderStaysOut, world
<1> QED  BY <1>5, <1>7, <1>8, <1>9 DEF IInv

\* The batch is the first cycle below the ceiling: what is older is taken or
\* late, by the record, and the ceiling says nothing older is still to come.
LEMMA BuildBatchInv ==
  ASSUME IInv, BuildBatch
  PROVE  IInv'
<1> DEFINE ready == {d \in Cycles : Stored(d) # {} /\ Cursor < d /\ d <= pump.ceiling}
<1>1. PICK c, rows :
      /\ c = MinOf(ready)
      /\ rows = Stored(c) \cup {i \in sink : i.kind = "psk" /\ i.cycle = c}
      /\ UNCHANGED <<world, record, anchor, retry, taken, faults>>
      /\ pump.step = "list"
      /\ pump' = [Idle EXCEPT !.step = "judge", !.batch = [cycle |-> c, rows |-> rows],
                              !.held = Marked /\ switch # "upload"]
      /\ forced' = IF Complete(c) THEN forced ELSE forced \cup {c}
      /\ TypeOK /\ InHand /\ ReportedIsPast /\ CeilingStands
  BY DEF IInv, BuildBatch
<1>2. /\ pump.ceiling \in Cycles
      /\ record = None => anchor # NoAnchor
      /\ ready # {} /\ ready \subseteq Cycles
      /\ AllPast(pump.ceiling) \/ Forced(pump.ceiling)
  BY <1>1 DEF CeilingStands
<1>3. c \in Cycles /\ Cursor < c /\ c <= pump.ceiling /\ \A d \in ready : c <= d
  BY <1>1, <1>2, MinOfOK
<1>4. /\ pump'.step = "judge" /\ pump'.batch = [cycle |-> c, rows |-> rows]
      /\ pump'.held = (Marked /\ switch # "upload")
      /\ pump' \in [step : {"idle", "list", "judge", "ship", "replay"},
                    ceiling : Cycles \cup {None}, batch : Batches, held : BOOLEAN]
  BY <1>1, <1>3 DEF Idle, Batches, TypeOK, Stored
<1>5. TypeOK'
  BY <1>1, <1>3, <1>4 DEF TypeOK, world
<1>6. /\ record \in Int /\ retry.cycle \in Int /\ c \in Int /\ pump.ceiling \in Int
      /\ Cursor \in Int
  BY <1>1, <1>2, <1>3, Numbers, AnchorType
<1>7. /\ clock <= clock' /\ \A r \in Receivers : at[r] <= at'[r]
      /\ taken \subseteq taken' /\ forced \subseteq forced' /\ sink' = sink
  BY <1>1, Numbers DEF world
<1>8. Covered(c, rows)
  <2> SUFFICES ASSUME NEW i \in sink, Meant(i), i.cycle <= c
               PROVE  i \in taken \cup rows \/ Late(i)
    BY DEF Covered
  <2>1. i \in WsprRows /\ i.kind # "psk" /\ i.cycle \in Cycles /\ i.cycle \in Int
    BY <1>1, RowFields, Numbers DEF Meant
  <2>2. CASE i.cycle = c
    BY <1>1, <2>1, <2>2 DEF Stored
  <2>3. CASE i.cycle # c
    <3>1. Stored(i.cycle) # {} /\ i.cycle < c
      BY <1>6, <2>1, <2>3 DEF Stored
    <3>2. i.cycle <= Cursor
      <4>1. i.cycle \notin ready
        BY <1>3, <1>6, <2>1, <3>1
      <4>2. i.cycle <= pump.ceiling
        BY <1>3, <1>6, <2>1, <3>1
      <4> QED  BY <1>6, <2>1, <3>1, <4>1, <4>2
    <3>3. CASE record # None
      BY <1>1, <3>2, <3>3 DEF Cursor, InHand, Covered
    <3>4. CASE record = None
      <4>1. anchor # NoAnchor /\ Cursor = anchor /\ i.cycle > anchor
        BY <1>2, <3>4 DEF Cursor, Anchor, Meant
      <4> QED  BY <1>6, <2>1, <3>2, <4>1
    <3> QED  BY <3>3, <3>4
  <2> QED  BY <2>2, <2>3
<1>9. Settled(c)'
  <2>1. AllPast(c) \/ Forced(c)
    <3>1. CASE AllPast(pump.ceiling)
      <4>1. \A r \in Expected : at[r] \in Int
        BY <1>1, Numbers, WsprAssumption
      <4> QED  BY <1>3, <1>6, <3>1, <4>1 DEF AllPast
    <3>2. CASE Forced(pump.ceiling)
      BY <1>1, <1>3, <1>6, <3>2, ForcedIsDownward
    <3> QED  BY <1>2, <3>1, <3>2
  <2>2. CASE AllPast(c)
    BY <1>1, <2>2 DEF AllPast, Settled, world
  <2>3. CASE Complete(c)
    BY <1>1, <2>3, CompleteIsPast DEF AllPast, Settled, world
  <2>4. CASE Forced(c) /\ ~Complete(c)
    <3>1. c \in forced' /\ c <= c
      BY <1>1, <1>6, <2>4
    <3>2. Forced(c)'
      BY <1>1, <2>4 DEF Forced, world
    <3> QED  BY <3>1, <3>2 DEF Settled
  <2> QED  BY <2>1, <2>2, <2>3, <2>4
<1>10. InHand'
  <2>1. Covered(record, {})' /\ Settled(record)'
    BY <1>1, <1>5, <1>6, <1>7, CoveredStays, SettledStays DEF InHand
  <2>2. Covered(retry.cycle, retry.rows)' /\ Settled(retry.cycle)'
    BY <1>1, <1>5, <1>6, <1>7, CoveredStays, SettledStays DEF InHand
  <2>3. Covered(c, rows)'
    BY <1>1, <1>5, <1>6, <1>7, <1>8, CoveredStays
  <2> QED  BY <1>1, <1>3, <1>4, <1>9, <2>1, <2>2, <2>3 DEF InHand
<1>11. CeilingStands' /\ ReportedIsPast' /\ HeldInv'
  BY <1>1, <1>4 DEF CeilingStands, ReportedIsPast, HeldInv, HeldRiderStaysOut, world
<1> QED  BY <1>5, <1>10, <1>11 DEF IInv

\* A batch that is judged loses psk rows at most.
LEMMA JudgeRidersInv ==
  ASSUME IInv, JudgeRiders
  PROVE  IInv'
<1>1. PICK kept, c :
      /\ c = pump.batch.cycle /\ kept = {i \in pump.batch.rows : Rides(i)}
      /\ pump' = [pump EXCEPT !.step = "ship", !.batch.rows = kept]
      /\ UNCHANGED <<world, record, anchor, retry, taken, forced, faults>>
      /\ pump.step = "judge" /\ TypeOK /\ InHand /\ HeldInv
  BY DEF IInv, JudgeRiders
<1>2. /\ pump'.step = "ship" /\ pump'.held = pump.held
      /\ pump'.batch.cycle = c /\ pump'.batch.rows = kept
      /\ pump' \in [step : {"idle", "list", "judge", "ship", "replay"},
                    ceiling : Cycles \cup {None}, batch : Batches, held : BOOLEAN]
  BY <1>1 DEF TypeOK, Batches
<1>3. TypeOK'
  BY <1>1, <1>2 DEF TypeOK, world
<1>4. /\ record \in Int /\ c \in Int /\ retry.cycle \in Int
  BY <1>1, Numbers
<1>5. Covered(c, kept) /\ Settled(c)
  <2>1. \A i \in WsprRows : Rides(i)
    BY RowFields DEF Rides
  <2> QED  BY <1>1, <2>1 DEF InHand, Covered, Meant
<1>6. InHand'
  <2>1. Covered(record, {})' /\ Settled(record)'
    BY <1>1, <1>3, <1>4, InHandStays DEF InHand
  <2>2. Covered(c, kept)' /\ Settled(c)'
    BY <1>1, <1>3, <1>4, <1>5, InHandStays
  <2>3. Covered(retry.cycle, retry.rows)' /\ Settled(retry.cycle)'
    BY <1>1, <1>3, <1>4, InHandStays DEF InHand
  <2> QED  BY <1>2, <2>1, <2>2, <2>3 DEF InHand
<1>7. HeldInv'
  BY <1>1, <1>2 DEF HeldInv, HeldRiderStaysOut, Rides
<1>8. CeilingStands' /\ ReportedIsPast'
  BY <1>1, <1>2 DEF IInv, CeilingStands, ReportedIsPast, world
<1> QED  BY <1>3, <1>6, <1>7, <1>8 DEF IInv

\* The retry moves into the pump's hand as it is.
LEMMA ReplayInv ==
  ASSUME IInv, Replay
  PROVE  IInv'
<1>1. /\ pump' = [Idle EXCEPT !.step = "replay", !.batch = retry]
      /\ retry' = NoBatch
      /\ UNCHANGED <<world, record, anchor, taken, forced, faults>>
      /\ TypeOK /\ InHand
  BY DEF IInv, Replay
<1>2. /\ NoBatch \in Batches /\ NoBatch.cycle = -1 /\ NoBatch.rows = {}
      /\ pump'.step = "replay" /\ pump'.batch = retry /\ pump'.held = FALSE
      /\ pump' \in [step : {"idle", "list", "judge", "ship", "replay"},
                    ceiling : Cycles \cup {None}, batch : Batches, held : BOOLEAN]
  BY <1>1 DEF Idle, NoBatch, Batches, None, TypeOK
<1>3. TypeOK'
  BY <1>1, <1>2 DEF TypeOK, world
<1>4. /\ record \in Int /\ retry.cycle \in Int
  BY <1>1, Numbers
<1>5. InHand'
  <2>1. Covered(record, {})' /\ Settled(record)'
    BY <1>1, <1>3, <1>4, InHandStays DEF InHand
  <2>2. Covered(retry.cycle, retry.rows) /\ Settled(retry.cycle)
    BY <1>1 DEF InHand
  <2>3. Covered(pump.batch.cycle, pump.batch.rows)' /\ Settled(pump.batch.cycle)'
    BY <1>1, <1>2, <2>2 DEF Covered, Settled, Meant, Late, Forced, AllPast, world
  <2>4. Covered(-1, {})' /\ Settled(-1)'
    BY <1>3, NothingBefore
  <2> QED  BY <1>1, <1>2, <2>1, <2>3, <2>4 DEF InHand
<1>6. CeilingStands' /\ ReportedIsPast' /\ HeldInv'
  BY <1>1, <1>2 DEF IInv, CeilingStands, ReportedIsPast, HeldInv, HeldRiderStaysOut, world
<1> QED  BY <1>3, <1>5, <1>6 DEF IInv

\* The rows are with a gateway before the record says so.
LEMMA DeliverInv ==
  ASSUME IInv, Deliver
  PROVE  IInv'
<1>1. /\ taken' = taken \cup pump.batch.rows /\ pump' = Idle
      /\ record' = IF pump.batch.cycle > record THEN pump.batch.cycle ELSE record
      /\ UNCHANGED <<world, anchor, retry, forced, faults>>
      /\ TypeOK /\ InHand
  BY DEF IInv, Deliver, Commit
<1>2. /\ record \in Int /\ pump.batch.cycle \in Int /\ retry.cycle \in Int
      /\ pump.batch \in Batches
  BY <1>1, Numbers DEF TypeOK
<1>3. TypeOK'
  BY <1>1, <1>2, IdleFields DEF TypeOK, Batches, world
<1>4. ASSUME NEW c \in Int, NEW R, Covered(c, R), Settled(c)
      PROVE  Covered(c, R)' /\ Settled(c)'
  BY <1>1, <1>4 DEF Covered, Settled, Meant, Late, Forced, AllPast, world
<1>5. InHand'
  <2>1. Covered(record, {})' /\ Settled(record)'
    <3>1. /\ Covered(record, {}) /\ Settled(record)
          /\ Covered(pump.batch.cycle, pump.batch.rows) /\ Settled(pump.batch.cycle)
      BY <1>1 DEF InHand
    <3>2. CASE pump.batch.cycle > record
      BY <1>1, <3>1, <3>2
         DEF Covered, Settled, Meant, Late, Forced, AllPast, world
    <3>3. CASE ~(pump.batch.cycle > record)
      BY <1>1, <3>1, <3>3
         DEF Covered, Settled, Meant, Late, Forced, AllPast, world
    <3> QED  BY <3>2, <3>3
  <2>2. Covered(retry.cycle, retry.rows)' /\ Settled(retry.cycle)'
    BY <1>1, <1>2, <1>4 DEF InHand, Covered, Settled, Meant, Late, Forced, AllPast, world
  <2>3. Covered(-1, {})' /\ Settled(-1)'
    BY <1>3, NothingBefore
  <2> QED  BY <1>1, <2>1, <2>2, <2>3, IdleFields DEF InHand
<1>6. CeilingStands' /\ ReportedIsPast' /\ HeldInv'
  BY <1>1, IdleFields DEF IInv, CeilingStands, ReportedIsPast, HeldInv, HeldRiderStaysOut, world
<1> QED  BY <1>3, <1>5, <1>6 DEF IInv

\* A batch that failed waits as it is; what a gateway took of it stays taken.
LEMMA FailInv ==
  ASSUME IInv, Fail
  PROVE  IInv'
<1>1. /\ taken' = taken \/ taken' = taken \cup pump.batch.rows
      /\ faults' = faults \/ (faults < MaxFaults /\ faults' = faults + 1)
      /\ retry' = pump.batch /\ pump' = Idle
      /\ UNCHANGED <<world, record, anchor, forced>>
      /\ TypeOK /\ InHand
  BY DEF IInv, Fail, Fault
<1>2. /\ record \in Int /\ pump.batch.cycle \in Int
      /\ pump.batch \in Batches /\ faults' \in 0 .. MaxFaults
  BY <1>1, Numbers, WsprAssumption DEF TypeOK
<1>3. TypeOK'
  BY <1>1, <1>2, IdleFields DEF TypeOK, Batches, world
<1>4. InHand'
  <2>1. Covered(record, {})' /\ Settled(record)'
    BY <1>1 DEF InHand, Covered, Settled, Meant, Late, Forced, AllPast, world
  <2>2. Covered(retry.cycle, retry.rows)' /\ Settled(retry.cycle)'
    BY <1>1 DEF InHand, Covered, Settled, Meant, Late, Forced, AllPast, world
  <2>3. Covered(-1, {})' /\ Settled(-1)'
    BY <1>3, NothingBefore
  <2> QED  BY <1>1, <2>1, <2>2, <2>3, IdleFields DEF InHand
<1>5. CeilingStands' /\ ReportedIsPast' /\ HeldInv'
  BY <1>1, IdleFields DEF IInv, CeilingStands, ReportedIsPast, HeldInv, HeldRiderStaysOut, world
<1> QED  BY <1>3, <1>4, <1>5 DEF IInv

\* A batch that is dropped was not counted: the record is where it was.
LEMMA AbortInv ==
  ASSUME IInv, Abort
  PROVE  IInv'
<1>1. /\ faults < MaxFaults /\ faults' = faults + 1 /\ pump' = Idle
      /\ UNCHANGED <<world, record, anchor, retry, taken, forced>>
      /\ TypeOK /\ InHand
  BY DEF IInv, Abort, Fault
<1>2. TypeOK'
  BY <1>1, IdleFields, WsprAssumption DEF TypeOK, world
<1>3. InHand'
  <2>1. /\ Covered(record, {})' /\ Settled(record)'
        /\ Covered(retry.cycle, retry.rows)' /\ Settled(retry.cycle)'
    BY <1>1 DEF InHand, Covered, Settled, Meant, Late, Forced, AllPast, world
  <2>2. Covered(-1, {})' /\ Settled(-1)'
    BY <1>2, NothingBefore
  <2> QED  BY <1>1, <2>1, <2>2, IdleFields DEF InHand
<1>4. CeilingStands' /\ ReportedIsPast' /\ HeldInv'
  BY <1>1, IdleFields DEF IInv, CeilingStands, ReportedIsPast, HeldInv, HeldRiderStaysOut, world
<1> QED  BY <1>2, <1>3, <1>4 DEF IInv
-----------------------------------------------------------------------------
(* The theorems *)

\* Everything the pump, the receivers, an operator and time do keeps the
\* inductive invariant.
THEOREM Invariance ==
  ASSUME Together
  PROVE  Spec => []IInv
<1>1. IInv /\ [Next]_vars => IInv'
  <2> SUFFICES ASSUME IInv, [Next]_vars
               PROVE  IInv'
    OBVIOUS
  <2>1. CASE PumpStep
    BY <2>1, ReadCeilingInv, FixAnchorInv, BuildBatchInv, JudgeRidersInv, ReplayInv,
       DeliverInv, FailInv DEF PumpStep
  <2>2. CASE Abort
    BY <2>2, AbortInv
  <2>3. CASE Producer
    BY <2>3, WriteInv, MissInv DEF Producer
  <2>4. CASE MoveSwitch
    BY <2>4, MoveInv
  <2>5. CASE Tick
    BY <2>5, TickInv
  <2>6. CASE UNCHANGED vars
    BY <2>6 DEF vars, world, pipe, IInv, TypeOK, ReportedIsPast, CeilingStands, InHand,
                HeldInv, HeldRiderStaysOut, Covered, Settled, AllPast, Forced, Late, Meant,
                Stored, Cursor, Anchor, Floor
  <2> QED  BY <2>1, <2>2, <2>3, <2>4, <2>5, <2>6 DEF Next
<1> QED  BY InitInv, <1>1, PTL DEF Spec

\* Every variable keeps its type: the retry and the batch in hand are batches
\* of stored rows, the record is a cycle.
THEOREM TypeCorrect ==
  ASSUME Together
  PROVE  Spec => []TypeOK
<1>1. IInv => TypeOK
  BY DEF IInv
<1> QED  BY Invariance, <1>1, PTL

\* For every number of receivers and cycles and whatever the backstop: a row
\* of an expected receiver is with a gateway, or ahead of the record, or was
\* reported after its backstop had passed and its cycle was given up.
THEOREM NoExpectedRowIsMissed ==
  ASSUME Together
  PROVE  Spec => []NoRowMissed
<1>1. IInv => NoRowMissed
  <2> SUFFICES ASSUME IInv, NEW i \in sink \cap WsprRows, i.from \in Expected,
                      anchor # NoAnchor => i.cycle > anchor,
                      ~(i.cycle > record)
               PROVE  i \in taken \/ Late(i)
    BY DEF NoRowMissed, Late
  <2>1. Covered(record, {}) /\ TypeOK
    BY DEF IInv, InHand
  <2>2. i.cycle \in Int /\ record \in Int
    BY <2>1, RowFields, Numbers
  <2>3. Meant(i) /\ i.cycle <= record
    BY <2>2 DEF Meant
  <2> QED  BY <2>1, <2>3 DEF Covered
<1> QED  BY Invariance, <1>1, PTL

\* A psk row of a producer that is held all through the building of a batch
\* is not in it when it ships.
THEOREM HeldRidersStayOut ==
  ASSUME Together
  PROVE  Spec => []HeldRiderStaysOut
<1>1. IInv => HeldRiderStaysOut
  BY DEF IInv, HeldInv
<1> QED  BY Invariance, <1>1, PTL
=============================================================================
