------------------------------ MODULE SinkGate ------------------------------
(***************************************************************************)
(* The daemon's loop (daemon.py) with the switches that hold a client's    *)
(* pipelines (gate.py, sinkswitch.py): each round rebuilds if asked to,    *)
(* looks for the carry-over marker, gives pipelines that start at `now' a  *)
(* starting record while it stands, and pumps; each pump asks the gate,    *)
(* which reads the marker, the client's switch file and site.toml one      *)
(* after the other while operators change them.                            *)
(*                                                                         *)
(* Each pipeline pumps on a thread of its own, one task at a time.  A      *)
(* round submits one to each and waits for all, unless one raises: the     *)
(* daemon then logs it and goes on, the others' tasks running behind it.   *)
(*                                                                         *)
(* A position is the number of rows stored so far.  The rows of a batch    *)
(* are shipped and acknowledged in one step (or shipped, and the pump      *)
(* raises) and the gate is asked once per batch: module Pump has the rest  *)
(* of a pump, module SqliteSource the rows a source selects.  The cache of *)
(* read_switch is left out: a cached answer holds while the file's         *)
(* signature does, and write_switch appends to the file's history, so its  *)
(* size never stays the same.  What a build does with edited entries comes *)
(* down to which pipelines are built anew.                                 *)
(***************************************************************************)
EXTENDS Integers, FiniteSets

CONSTANTS
  Pipes,        \* the running pipelines
  Exempt,       \* those the gate's rules 1 and 2 let send
  Clientless,   \* those whose entry names no client (rule 4)
  Anchored,     \* those whose source starts at `now'
  MarkerMoves,  \* the daemon's steps at which sigmond may write the marker
  MaxRows,      \* bound on the rows stored
  MaxMoves,     \* bound on what operators do to the files and the marker
  MaxFaults     \* bound on starting records that fail, pumps that raise and
                \* restarts of the daemon, taken together

None == -1
Files == {"client", "site"}
Contents == {"fill", "upload", "missing", "broken"}

ASSUME GateAssumption ==
  /\ Exempt \subseteq Pipes /\ Clientless \subseteq Pipes /\ Anchored \subseteq Pipes
  /\ MarkerMoves \subseteq {"down", "build", "wait", "check", "pump"}
  /\ {MaxRows, MaxMoves, MaxFaults} \subseteq Nat

VARIABLES
  last,                 \* the rows stored so far
  record,               \* each pipeline's send record
  marker, file,         \* the carry-over marker; what each switch file holds
  daemon, todo, place,  \* daemon: step, pipelines the pass has left, position read
  markerSeen,           \* daemon: _marker_seen
  fresh,                \* daemon: pipelines the build in hand builds anew
  raised,               \* daemon: a future of this round's pump raised
  anchor,               \* memory of each source: _start_at_cursor
  pc, queued,           \* each pipeline's thread: its pump's step, tasks behind it
  seen, from,           \* its pump: what the client's file read, the cursor in hand
  stood,                \* history: files that hold ever since the question began
  sent,                 \* history: rows each pipeline's destination took
  base,                 \* history: where the pipeline's start was first fixed
  heldFrom,             \* history: rows stored when it was first held
  forgot,               \* history: pipelines that lost an anchor in use
  crossed,              \* history: pumps a pass or a marker met still running
  moves, faults, raises, restarts \* history: what the bounds count

world == <<last, marker, file>>
loop == <<daemon, todo, place, markerSeen, fresh, raised>>
pumps == <<pc, queued, seen, from, stood>>
history == <<sent, base, heldFrom, forgot, crossed>>
counters == <<moves, faults, raises, restarts>>
vars == <<world, record, loop, anchor, pumps, history, counters>>

Steps == {"done", "ask", "client", "site", "send", "read", "ship"}
Busy == {p \in Pipes : pc[p] # "done"}

TypeOK ==
  /\ last \in 0 .. MaxRows /\ record \in [Pipes -> None .. last]
  /\ marker \in BOOLEAN /\ file \in [Files -> Contents]
  /\ daemon \in {"down", "build", "wait", "check", "pump"}
  /\ todo \subseteq Pipes /\ place \in [Pipes -> None .. last]
  /\ markerSeen \in BOOLEAN /\ anchor \in [Pipes -> None .. last]
  /\ fresh \subseteq Pipes /\ raised \in BOOLEAN
  /\ pc \in [Pipes -> Steps] /\ queued \in [Pipes -> 0 .. raises]
  /\ daemon # "pump" /\ raises = 0 => Busy = {}
  /\ seen \in [Pipes -> Contents] /\ stood \in [Pipes -> SUBSET Files]
  /\ from \in [Pipes -> None .. last]
  /\ sent \in [Pipes -> SUBSET (1 .. last)]
  /\ base \in [Pipes -> None .. last] /\ heldFrom \in [Pipes -> None .. last]
  /\ forgot \subseteq Pipes /\ crossed \subseteq Pipes
  /\ moves \in 0 .. MaxMoves /\ faults \in 0 .. MaxFaults
  /\ raises \in 0 .. MaxFaults /\ restarts \in 0 .. MaxFaults

Unset == [p \in Pipes |-> None]
Init ==
  /\ last = 0 /\ record = Unset
  /\ marker \in BOOLEAN /\ file \in [Files -> Contents]
  /\ daemon = "down" /\ todo = {} /\ place = Unset /\ markerSeen = FALSE
  /\ fresh = {} /\ raised = FALSE
  /\ anchor = Unset
  /\ pc = [p \in Pipes |-> "done"] /\ queued = [p \in Pipes |-> 0]
  /\ seen = [p \in Pipes |-> "missing"] /\ from = Unset
  /\ stood = [p \in Pipes |-> {}]
  /\ sent = [p \in Pipes |-> {}] /\ heldFrom = Unset
  /\ base = [p \in Pipes |-> IF p \in Anchored THEN None ELSE 0]
  /\ forgot = {} /\ crossed = {}
  /\ moves = 0 /\ faults = 0 /\ raises = 0 /\ restarts = 0

Trouble == faults + raises + restarts < MaxFaults
-----------------------------------------------------------------------------
(* Builds and starting records *)

\* The pass runs over every pipeline.  A pump that still runs is met by it.
PassOver(P) == todo' = P /\ crossed' = IF P = {} THEN crossed ELSE crossed \cup Busy

\* _starting_pass, at start and at each rebuild: a pass while the marker stands.
NoStartingPass == markerSeen' = marker /\ PassOver({})
StartingPass == markerSeen' = marker /\ PassOver(IF marker THEN Pipes ELSE {})

Start ==
  /\ daemon = "down"
  /\ daemon' = "build" /\ StartingPass
  /\ UNCHANGED <<world, record, place, fresh, raised, anchor, pumps, sent, base, heldFrom,
                 forgot, counters>>

\* An anchor lives in the source object: with the object goes what an
\* unacknowledged start was fixed at.
Forgets(P) == {p \in P \cap Anchored : record[p] = None /\ (base[p] # None \/ p \in Busy)}

\* A pipeline whose entry changed is built anew; the old one's pump may run on.
Rebuild ==
  /\ daemon = "wait" /\ moves < MaxMoves
  /\ \E P \in SUBSET Pipes : fresh' = P /\ forgot' = forgot \cup Forgets(P)
  /\ moves' = moves + 1
  /\ daemon' = "build" /\ StartingPass
  /\ UNCHANGED <<world, record, place, raised, anchor, pumps, sent, base, heldFrom,
                 faults, raises, restarts>>

\* marker_check, before each pump: the pass runs when the marker appeared.
AppearedNever == FALSE
Appeared == marker /\ ~markerSeen
MarkerCheck ==
  /\ daemon = "wait"
  /\ markerSeen' = marker /\ PassOver(IF Appeared THEN Pipes ELSE {})
  /\ daemon' = "check"
  /\ UNCHANGED <<world, record, place, fresh, raised, anchor, pumps, sent, base, heldFrom,
                 forgot, counters>>

\* write_starting_records, for one pipeline: no record yet, not exempt, and
\* a source that starts at now; an anchor a pump fixed in that source wins.
InitialCursorPresent(p) == last
InitialCursor(p) == IF p \notin fresh /\ anchor[p] # None THEN anchor[p] ELSE last
ReadPlace(p) ==
  /\ p \in todo /\ place[p] = None
  /\ IF p \notin Exempt /\ p \in Anchored /\ record[p] = None
     THEN place' = [place EXCEPT ![p] = InitialCursor(p)] /\ UNCHANGED todo
     ELSE todo' = todo \ {p} /\ UNCHANGED place
  /\ UNCHANGED <<world, record, daemon, markerSeen, fresh, raised, anchor, pumps, history,
                 counters>>

\* start_cursor: an insert that leaves an existing record alone.
StartCursor(p) == IF record[p] = None THEN place[p] ELSE record[p]
WriteRecord(p) ==
  /\ p \in todo /\ place[p] # None
  /\ record' = [record EXCEPT ![p] = StartCursor(p)]
  /\ base' = [base EXCEPT ![p] = IF @ = None THEN place[p] ELSE @]
  /\ place' = [place EXCEPT ![p] = None] /\ todo' = todo \ {p}
  /\ UNCHANGED <<world, daemon, markerSeen, fresh, raised, anchor, pumps, sent, heldFrom,
                 forgot, crossed, counters>>

\* What fails for one pipeline skips that pipeline.
SkipPipeline(p) ==
  /\ p \in todo /\ Trouble
  /\ place' = [place EXCEPT ![p] = None] /\ todo' = todo \ {p}
  /\ faults' = faults + 1
  /\ UNCHANGED <<world, record, daemon, markerSeen, fresh, raised, anchor, pumps, history,
                 moves, raises, restarts>>

\* replace_pipelines closes what it removes on that pipeline's own thread, and
\* so waits for its tasks: the new objects have no anchor.
Replace ==
  /\ fresh \cap Busy = {}
  /\ anchor' = [p \in Pipes |-> IF p \in fresh THEN None ELSE anchor[p]] /\ fresh' = {}
  /\ UNCHANGED <<pc, queued>>

\* pump() submits a task to every thread.
Submit ==
  /\ pc' = [p \in Pipes |-> IF pc[p] = "done" THEN "ask" ELSE pc[p]]
  /\ queued' = [p \in Pipes |-> IF pc[p] = "done" THEN queued[p] ELSE queued[p] + 1]
  /\ UNCHANGED <<anchor, fresh>>

PassEnds ==
  /\ daemon \in {"build", "check"} /\ todo = {}
  /\ IF daemon = "build" THEN daemon' = "wait" /\ Replace
                         ELSE daemon' = "pump" /\ Submit
  /\ UNCHANGED <<world, record, todo, place, markerSeen, raised, seen, from, stood, history,
                 counters>>
-----------------------------------------------------------------------------
(* The gate's question, and the pump *)

\* What a file's content does to the client (effective_state): only a missing
\* site file sets no limit; what cannot be read holds.
HoldsOnlyClosed(f, content) == content = "fill"
Holds(f, content) ==
  content \in {"fill", "broken"} \/ (f = "client" /\ content = "missing")

Goto(p, step) == pc' = [pc EXCEPT ![p] = step] /\ UNCHANGED queued

\* The thread takes its next task.
End(p) ==
  IF queued[p] = 0 THEN Goto(p, "done")
  ELSE pc' = [pc EXCEPT ![p] = "ask"] /\ queued' = [queued EXCEPT ![p] = @ - 1]

Hold(p) ==
  /\ End(p) /\ stood' = [stood EXCEPT ![p] = {}]
  /\ heldFrom' = [heldFrom EXCEPT ![p] = IF @ = None THEN last ELSE @]

\* What README's table of states makes of a file: anything but upload holds,
\* a missing site.toml excepted.  (History only: Holds is the code's.)
Restricts(f, content) == content # "upload" /\ (f = "client" \/ content # "missing")

\* Rules 1 and 2 exempt a pipeline whatever the marker says; rule 4 one with
\* no client.
ByTheSwitches(p) == marker /\ p \notin Exempt \cup Clientless

\* Rules 1 to 4 answer at once; the marker is read afresh each time.
Ask(p) ==
  /\ pc[p] = "ask"
  /\ IF ByTheSwitches(p)
     THEN /\ Goto(p, "client")
          /\ stood' = [stood EXCEPT ![p] = {f \in Files : Restricts(f, file[f])}]
     ELSE Goto(p, "send") /\ UNCHANGED stood
  /\ UNCHANGED <<world, record, loop, anchor, seen, from, history, counters>>

AskClient(p) ==
  /\ pc[p] = "client"
  /\ seen' = [seen EXCEPT ![p] = file["client"]]
  /\ Goto(p, "site")
  /\ UNCHANGED <<world, record, loop, anchor, from, stood, history, counters>>

\* The stricter of the two governs; a gate that raises holds.
Answers(p) == ~Holds("client", seen[p]) /\ ~Holds("site", file["site"])
AskSite(p) ==
  /\ pc[p] = "site"
  /\ \/ Answers(p) /\ Goto(p, "send") /\ UNCHANGED <<stood, heldFrom>>
     \/ Hold(p)
  /\ seen' = [seen EXCEPT ![p] = "missing"]
  /\ UNCHANGED <<world, record, loop, anchor, from, sent, base, forgot, crossed, counters>>

\* get_cursor: the record, or none.
GetCursor(p) ==
  /\ pc[p] = "send" /\ Goto(p, "read")
  /\ from' = [from EXCEPT ![p] = record[p]]
  /\ UNCHANGED <<world, record, loop, anchor, seen, stood, history, counters>>

\* Where a source reads on from a cursor: an anchored one with no cursor fixes
\* its anchor at its first read.
AfterPresent(p, cursor) ==
  IF cursor # None THEN cursor ELSE IF p \notin Anchored THEN 0 ELSE last
After(p, cursor) ==
  IF cursor # None THEN cursor
  ELSE IF p \notin Anchored THEN 0
  ELSE IF anchor[p] # None THEN anchor[p] ELSE last

ReadFrom(p) ==
  /\ pc[p] = "read" /\ Goto(p, "ship")
  /\ LET after == After(p, from[p])
     IN /\ from' = [from EXCEPT ![p] = after]
        /\ anchor' = [anchor EXCEPT ![p] =
             IF from[p] = None /\ p \in Anchored THEN after ELSE @]
        /\ base' = [base EXCEPT ![p] = IF @ = None THEN after ELSE @]
  /\ UNCHANGED <<world, record, loop, seen, stood, sent, heldFrom, forgot, crossed, counters>>

\* A batch is delivered and recorded (never backward) and the gate is asked
\* again, or the batch was the round's; or there is none, or the destination
\* does not take it.
Deliver(p) == from[p] < last /\ sent' = [sent EXCEPT ![p] = @ \cup {from[p] + 1}]
Ship(p) ==
  /\ pc[p] = "ship"
  /\ \/ /\ Deliver(p)
        /\ record' = [record EXCEPT ![p] = IF from[p] < @ THEN @ ELSE from[p] + 1]
        /\ (Goto(p, "ask") \/ End(p))
     \/ End(p) /\ UNCHANGED <<sent, record>>
  /\ from' = [from EXCEPT ![p] = None]
  /\ UNCHANGED <<world, loop, anchor, seen, stood, base, heldFrom, forgot, crossed, counters>>

\* The store, the source or the transport raises out of the pump, perhaps with
\* a batch delivered and not recorded; the round sees the future it submitted.
Raise(p) ==
  /\ pc[p] \in {"send", "read", "ship"} /\ Trouble /\ raises' = raises + 1
  /\ \/ pc[p] = "ship" /\ Deliver(p)
     \/ UNCHANGED sent
  /\ raised' = (raised \/ (daemon = "pump" /\ queued[p] = 0)) /\ End(p)
  /\ from' = [from EXCEPT ![p] = None]
  /\ UNCHANGED <<world, record, daemon, todo, place, markerSeen, fresh, anchor, seen, stood,
                 base, heldFrom, forgot, crossed, moves, faults, restarts>>

\* pump() collects the results and raises at the first future that did.
JoinedAny == Busy # Pipes
Joined == Busy = {}
PumpEnds ==
  /\ daemon = "pump" /\ (Joined \/ raised)
  /\ daemon' = "wait" /\ raised' = FALSE
  /\ UNCHANGED <<world, record, todo, place, markerSeen, fresh, anchor, pumps, history,
                 counters>>
-----------------------------------------------------------------------------
(* The rest of the world *)

Store ==
  /\ last < MaxRows /\ last' = last + 1
  /\ UNCHANGED <<marker, file, record, loop, anchor, pumps, history, counters>>

\* `hs-uploader sink set', an editor, or rm.
SetFile(f) ==
  /\ moves < MaxMoves /\ moves' = moves + 1
  /\ \E content \in Contents \ {file[f]} :
       /\ file' = [file EXCEPT ![f] = content]
       /\ stood' = [p \in Pipes |-> IF Restricts(f, content) THEN stood[p] ELSE stood[p] \ {f}]
  /\ UNCHANGED <<last, marker, record, loop, anchor, pc, queued, seen, from, history, faults,
                 raises, restarts>>

\* `hs-uploader sink mark-carried', or its undoing.
MoveMarker ==
  /\ moves < MaxMoves /\ moves' = moves + 1
  /\ daemon \in MarkerMoves
  /\ marker' = ~marker
  /\ crossed' = IF daemon = "pump" THEN crossed ELSE crossed \cup Busy
  /\ stood' = [p \in Pipes |-> {}]
  /\ UNCHANGED <<last, file, record, loop, anchor, pc, queued, seen, from, sent, base,
                 heldFrom, forgot, faults, raises, restarts>>

\* A recorder's own sender pumps the same pipeline and writes the same key;
\* its anchor is taken to be the daemon's.
OtherSender(p) ==
  /\ p \notin Exempt
  /\ LET after == After(p, record[p])
     IN /\ after < last
        /\ sent' = [sent EXCEPT ![p] = @ \cup {after + 1}]
        /\ record' = [record EXCEPT ![p] = after + 1]
        /\ base' = [base EXCEPT ![p] = IF @ = None THEN after ELSE @]
  /\ UNCHANGED <<world, loop, anchor, pumps, heldFrom, forgot, crossed, counters>>

Restart ==
  /\ Trouble /\ restarts' = restarts + 1
  /\ daemon' = "down" /\ todo' = {} /\ place' = Unset /\ markerSeen' = FALSE
  /\ fresh' = {} /\ raised' = FALSE
  /\ anchor' = Unset /\ forgot' = forgot \cup Forgets(Pipes)
  /\ pc' = [p \in Pipes |-> "done"] /\ queued' = [p \in Pipes |-> 0]
  /\ stood' = [p \in Pipes |-> {}] /\ seen' = [p \in Pipes |-> "missing"] /\ from' = Unset
  /\ UNCHANGED <<world, record, sent, base, heldFrom, crossed, moves, faults, raises>>
-----------------------------------------------------------------------------
Daemon ==
  \/ Start \/ Rebuild \/ MarkerCheck \/ PassEnds \/ PumpEnds
  \/ \E p \in Pipes : ReadPlace(p) \/ WriteRecord(p) \/ SkipPipeline(p)
PumpOf(p) ==
  \/ Ask(p) \/ AskClient(p) \/ AskSite(p)
  \/ GetCursor(p) \/ ReadFrom(p) \/ Ship(p) \/ Raise(p)

Next ==
  \/ Daemon \/ \E p \in Pipes : PumpOf(p) \/ OtherSender(p)
  \/ Store \/ \E f \in Files : SetFile(f)
  \/ MoveMarker \/ Restart

Spec == Init /\ [][Next]_vars
-----------------------------------------------------------------------------
(* Properties *)

\* Row i is with the destination, or ahead of where p reads on.
Ahead(p, i) == i \in sent[p] \/ i > (IF record[p] # None THEN record[p] ELSE anchor[p])

\* Where a pipeline's start was fixed, by a pump or by a starting record, no
\* row stored since is skipped: not by a hold, a later pass or a second sender.
\* Left out: a pipeline whose anchor went with its source, in a rebuild or a
\* restart before its first record, and one whose pump still ran when the
\* daemon came to a pass.
NothingSkipped ==
  \A p \in Pipes \ (forgot \cup crossed) : base[p] # None =>
    \A i \in 1 .. last : i > base[p] => Ahead(p, i)

\* Raising a client from fill to upload ships what was stored while it was
\* held (README, The gate): the starting record lands before the first held
\* pump, so nothing stored since is skipped, by a rebuild or restart either.
\* Left out: a pump that ran on past its round, into a marker or a pass.
FilledRowsShip ==
  \A p \in Pipes \ crossed : heldFrom[p] # None /\ faults = 0 =>
    \A i \in 1 .. last : i > heldFrom[p] => Ahead(p, i)

\* A file that held the client from before the question to the answer holds
\* it, whatever the other file does meanwhile.
HoldObeyed ==
  \A p \in Pipes : pc[p] = "send" /\ p \notin Exempt \cup Clientless => stood[p] = {}
=============================================================================
