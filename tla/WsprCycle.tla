----------------------------- MODULE WsprCycle -----------------------------
(***************************************************************************)
(* The WSPR cycle pipeline: several receivers write spots and noise of     *)
(* two-minute cycles to one sink, a source (sources/wspr_cycle.py) sends   *)
(* one batch per cycle once every expected receiver has reported it or a   *)
(* backstop passed (sources/wspr_completion.py), and psk rows ride along.  *)
(*                                                                         *)
(* Time is in ticks; cycle c lasts from c * Length to (c + 1) * Length,    *)
(* and a receiver writes its rows after it ended: spots, then a noise row  *)
(* per band, one cycle after the other.  The first noise row counts as the *)
(* receiver's report of completion, whatever bands are to follow; Together *)
(* is what the code relies on, that they are stored at once.  A receiver   *)
(* may miss a cycle (a restart) and may fall silent.                       *)
(*                                                                         *)
(* Outline.  The pump is the part of module Pump a batch meets: the source *)
(* waits behind a retry, a failed batch is queued, a retry is lost at most *)
(* MaxFaults times with every other fault.  A call of the transport is one *)
(* step that delivers, refuses, or delivers and loses the answer (a        *)
(* fault): module TarUpload is that call in full.  The process is not      *)
(* restarted (module SqliteSource has that), its pumps are.  Retention     *)
(* (24 h) and local rows are left out.                                     *)
(***************************************************************************)
EXTENDS Integers, FiniteSets

CONSTANTS
  Cycles,      \* the WSPR cycles
  Receivers,   \* the receivers that share the sink
  Bands,       \* the bands, each with its noise row
  Together,    \* whether a receiver stores the noise of all bands at once
  Expected,    \* WD_MERGE_REPORTERS; {} disables the completion gate
  Length,      \* of a cycle, in ticks
  Backstop,    \* backstop_sec, in ticks
  MaxClock,    \* bound on time
  MaxMoves,    \* bound on the moves of the rider switch
  MaxFaults,   \* bound on lost answers and aborted pumps
  Riders,      \* psk rows stored: their cycle
  Marked       \* whether the carry-over marker stands

LastCycle == CHOOSE c \in Cycles : \A d \in Cycles : d <= c
Row(kind, r, c) == [kind |-> kind, from |-> r, cycle |-> c]
None == -1
Kinds == {"spots"} \cup Bands
WsprRows == {Row(k, r, c) : k \in Kinds, r \in Receivers, c \in Cycles}

ASSUME WsprAssumption ==
  /\ LastCycle \in Nat /\ Cycles = 0 .. LastCycle
  /\ Length \in Nat \ {0} /\ Backstop \in Nat
  /\ MaxClock \in Nat /\ MaxMoves \in Nat /\ MaxFaults \in Nat
  /\ Expected \subseteq Receivers /\ Marked \in BOOLEAN /\ Together \in BOOLEAN
  /\ Bands # {} /\ {"spots", "psk"} \cap Bands = {}
  /\ \A i \in Riders : i.kind = "psk" /\ i.cycle \in Cycles

Rows == WsprRows \cup Riders

VARIABLES
  clock,
  sink,        \* the rows stored
  at,          \* each receiver's next cycle
  switch,      \* the state of the riders' producer
  moves,
  record,      \* the send record: the last cycle acknowledged
  anchor,      \* _start_at_anchor
  retry,       \* the deliverable that waits
  pump,        \* the pump: its step, the ceiling or the batch in hand
  taken,       \* history: the rows the gateways took
  forced,      \* history: cycles built before every expected receiver reported
  faults       \* history: faults so far

world == <<clock, sink, at, switch, moves>>
pipe == <<record, anchor, retry, pump, taken, forced, faults>>
vars == <<world, pipe>>

NoBatch == [cycle |-> None, rows |-> {}]
Batches == [cycle : Cycles \cup {None}, rows : SUBSET Rows]
Idle == [step |-> "idle", ceiling |-> None, batch |-> NoBatch,
         held |-> FALSE]
NoAnchor == -2

TypeOK ==
  /\ clock \in 0 .. MaxClock /\ sink \subseteq Rows
  /\ at \in [Receivers -> 0 .. LastCycle + 1]
  /\ switch \in {"upload", "hold"} /\ moves \in 0 .. MaxMoves
  /\ record \in Cycles \cup {None} /\ anchor \in {NoAnchor, None} \cup 0 .. MaxClock
  /\ retry \in Batches
  /\ pump \in [step : {"idle", "list", "judge", "ship", "replay"},
               ceiling : Cycles \cup {None}, batch : Batches,
               held : BOOLEAN]
  /\ taken \subseteq Rows /\ forced \subseteq Cycles /\ faults \in 0 .. MaxFaults

Init ==
  /\ clock = 0 /\ sink = Riders /\ at = [r \in Receivers |-> 0]
  /\ switch \in {"upload", "hold"} /\ moves = 0
  /\ record = None /\ anchor = NoAnchor /\ retry = NoBatch /\ pump = Idle
  /\ taken = {} /\ forced = {} /\ faults = 0

Fault == faults < MaxFaults /\ faults' = faults + 1
-----------------------------------------------------------------------------
(* wspr_completion.py *)

\* The cycle in progress: cycles before it have ended.
Floor == clock \div Length

Stored(c) == {i \in sink : i.cycle = c /\ i.kind # "psk"}
CompleteBySpots(c) == \A r \in Expected : \E i \in Stored(c) : i.from = r
Complete(c) == \A r \in Expected : \E i \in Stored(c) : i.kind \in Bands /\ i.from = r
ForcedNever(c) == FALSE
Forced(c) == c * Length < clock - (Length + Backstop)

\* The cycles with rows past the cursor and before the floor.
Past(cursor) == {c \in Cycles : Stored(c) # {} /\ cursor < c /\ c < Floor}

\* shippable_ceiling: the last of a run of complete or forced cycles.
Ceiling(cursor) ==
  {c \in Past(cursor) : \A d \in Past(cursor) : d <= c => Complete(d) \/ Forced(d)}
MaxOf(S) == CHOOSE c \in S : \A d \in S : d <= c
MinOf(S) == CHOOSE c \in S : \A d \in S : c <= d
-----------------------------------------------------------------------------
(* A pump *)

\* _effective_cursor: the record, else the anchor of the first read, one
\* cycle before the floor.
Anchor == IF anchor = NoAnchor THEN Floor - 1 ELSE anchor
Cursor == IF record # None THEN record ELSE Anchor

\* iter_batches up to the ceiling; ungated, every cycle before the floor.
ReadCeiling ==
  /\ pump.step = "idle" /\ retry = NoBatch
  /\ anchor' = IF record = None THEN Anchor ELSE anchor
  /\ LET run == IF Expected = {} THEN Past(Cursor) ELSE Ceiling(Cursor)
     IN run # {} /\ pump' = [Idle EXCEPT !.step = "list", !.ceiling = MaxOf(run)]
  /\ UNCHANGED <<world, record, retry, taken, forced, faults>>

\* With nothing to ship a first read still fixes the anchor.
FixAnchor ==
  /\ pump.step = "idle" /\ retry = NoBatch /\ record = None /\ anchor = NoAnchor
  /\ (IF Expected = {} THEN Past(Cursor) ELSE Ceiling(Cursor)) = {}
  /\ anchor' = Anchor
  /\ UNCHANGED <<world, record, retry, pump, taken, forced, faults>>

\* _build_batch_for_cycle: the first cycle's rows as they are now, and the
\* psk rows; their switch is read after.
BuildBatch ==
  /\ pump.step = "list"
  /\ LET c == MinOf({d \in Cycles : Stored(d) # {} /\ Cursor < d /\ d <= pump.ceiling})
         riders == {i \in sink : i.kind = "psk" /\ i.cycle = c}
     IN /\ pump' = [Idle EXCEPT !.step = "judge",
                      !.batch = [cycle |-> c, rows |-> Stored(c) \cup riders],
                      !.held = Marked /\ switch # "upload"]
        /\ forced' = IF Complete(c) THEN forced ELSE forced \cup {c}
  /\ UNCHANGED <<world, record, anchor, retry, taken, faults>>

\* _judge_riders: under the marker only an upload switch lets riders in.
RidesAlways(i) == TRUE
Rides(i) == i.kind = "psk" => ~Marked \/ switch = "upload"
JudgeRiders ==
  /\ pump.step = "judge"
  /\ pump' = [pump EXCEPT !.step = "ship", !.batch.rows = {i \in @ : Rides(i)}]
  /\ UNCHANGED <<world, record, anchor, retry, taken, forced, faults>>

Replay ==
  /\ pump.step = "idle" /\ retry # NoBatch
  /\ pump' = [Idle EXCEPT !.step = "replay", !.batch = retry]
  /\ retry' = NoBatch
  /\ UNCHANGED <<world, record, anchor, taken, forced, faults>>

\* commit: the record moves forward, in the order of the encoded cursors.
CommitNext == record' = pump.batch.cycle + 1
Commit == record' = IF pump.batch.cycle > record THEN pump.batch.cycle ELSE record
Deliver ==
  /\ pump.step \in {"ship", "replay"}
  /\ taken' = taken \cup pump.batch.rows
  /\ Commit /\ pump' = Idle
  /\ UNCHANGED <<world, anchor, retry, forced, faults>>

\* Refused everywhere, or the answer lost: the batch waits with the rows it has.
Fail ==
  /\ pump.step \in {"ship", "replay"}
  /\ \/ UNCHANGED <<taken, faults>>
     \/ taken' = taken \cup pump.batch.rows /\ Fault
  /\ retry' = pump.batch /\ pump' = Idle
  /\ UNCHANGED <<world, record, anchor, forced>>

\* The process is killed or the pump unwinds; a retry in hand is lost, as
\* one given up after its attempts is.
Abort ==
  /\ pump # Idle /\ Fault
  /\ pump' = Idle
  /\ UNCHANGED <<world, record, anchor, retry, taken, forced>>
-----------------------------------------------------------------------------
(* Producers, operators and time *)

WriteSpots(r) ==
  /\ at[r] < Floor /\ at[r] <= LastCycle
  /\ Row("spots", r, at[r]) \notin sink
  /\ sink' = sink \cup {Row("spots", r, at[r])}
  /\ UNCHANGED <<clock, at, switch, moves, pipe>>

\* A cycle without spots has noise too and differs in nothing here.
WriteNoise(r) ==
  /\ Row("spots", r, at[r]) \in sink
  /\ \E B \in (SUBSET Bands) \ {{}} :
       /\ Together => B = Bands
       /\ sink' = sink \cup {Row(b, r, at[r]) : b \in B}
  /\ at' = IF \A b \in Bands : Row(b, r, at[r]) \in sink'
           THEN [at EXCEPT ![r] = @ + 1] ELSE at
  /\ UNCHANGED <<clock, switch, moves, pipe>>

MissCycle(r) ==
  /\ at[r] < Floor /\ at[r] <= LastCycle
  /\ at' = [at EXCEPT ![r] = @ + 1]
  /\ UNCHANGED <<clock, sink, switch, moves, pipe>>

\* An operator moves the switch of the riders' producer.  A producer that is
\* let ride once while a batch is judged was not held all through.
MoveSwitch ==
  /\ moves < MaxMoves /\ moves' = moves + 1
  /\ switch' = IF switch = "upload" THEN "hold" ELSE "upload"
  /\ pump' = IF pump.step = "judge"
             THEN [pump EXCEPT !.held = @ /\ switch' # "upload"] ELSE pump
  /\ UNCHANGED <<clock, sink, at, record, anchor, retry, taken, forced, faults>>

Tick ==
  /\ clock < MaxClock /\ clock' = clock + 1
  /\ UNCHANGED <<sink, at, switch, moves, pipe>>
-----------------------------------------------------------------------------
PumpStep == ReadCeiling \/ FixAnchor \/ BuildBatch \/ JudgeRiders \/ Replay \/ Deliver \/ Fail
Producer == \E r \in Receivers : WriteSpots(r) \/ WriteNoise(r) \/ MissCycle(r)
Next == PumpStep \/ Abort \/ Producer \/ MoveSwitch \/ Tick

\* Time passes, the daemon pumps, and a gateway that is asked again and again
\* takes a tar.
Fairness == WF_vars(Tick) /\ WF_vars(PumpStep) /\ SF_vars(Deliver)

Spec == Init /\ [][Next]_vars /\ Fairness
-----------------------------------------------------------------------------
(* Properties *)

\* No row of an expected receiver is missed: it reaches a gateway, or its
\* cycle is still ahead of the record -- unless the backstop of its cycle
\* passed and that cycle, or a later one, was built before every receiver had
\* reported it.  It rests on Together: else the rows of the bands behind the
\* first are missed.
NoRowMissed ==
  \A i \in sink \cap WsprRows :
    i.from \in Expected /\ (anchor # NoAnchor => i.cycle > anchor) =>
      \/ i \in taken
      \/ i.cycle > record
      \/ Forced(i.cycle) /\ \E c \in forced : i.cycle <= c

\* A psk row of a producer held all through the building of the batch does
\* not ride, whatever the switch read before.
HeldRiderStaysOut ==
  pump.step = "ship" /\ pump.held => \A i \in pump.batch.rows : i.kind # "psk"

\* Every cycle that reaches the sink is shipped: a receiver that died, or
\* misses the cycle, stalls it until the backstop and no longer.
EveryCycleShips ==
  \A c \in Cycles :
    (anchor \in Cycles \cup {None} /\ c > anchor /\ Stored(c) # {}) ~> (record >= c)
============================================================================
