--------------------------- MODULE SinkGateProofs ---------------------------
(***************************************************************************)
(* Proofs about module SinkGate, for any set of pipelines and any number   *)
(* of rows, moves, raising pumps and restarts.                             *)
(*                                                                         *)
(* Where a pipeline reads on is spread over its record, its source's       *)
(* anchor, the cursor its pump has in hand and the position a starting-    *)
(* record pass has in hand; OneStart says how they agree, and with Reached *)
(* (what each of them has passed is sent) is what keeps NothingSkipped.    *)
(* Question says what a gate's question knows at each of its reads.        *)
(* FilledRowsShip needs RecordsFirst, that no governed pipeline is asked   *)
(* about before it has a starting record, and holds when the marker is not *)
(* written between marker_check and the end of the pump.                   *)
(***************************************************************************)
EXTENDS SinkGate, TLAPS

\* sigmond does not write the marker between marker_check and the pump's end.
MarkerStays == MarkerMoves \cap {"check", "pump"} = {}

\* A pass runs in a build or a check, holds a position only for a pipeline it
\* still has to do, and has met every pump that still runs.
Pass ==
  /\ daemon \notin {"build", "check"} => todo = {}
  /\ daemon # "build" => fresh = {}
  /\ \A p \in todo : pc[p] # "done" => p \in crossed
  /\ \A p \in Pipes : place[p] # None => p \in todo /\ p \in Anchored

\* A task waits behind one that runs, for want of a round that raised.
Threads ==
  /\ \A p \in Pipes : pc[p] = "done" => queued[p] = 0
  /\ \A p \in Busy : daemon # "pump" \/ raised => queued[p] < raises
  /\ \A p \in Pipes : pc[p] \notin {"read", "ship"} => from[p] = None
  /\ \A p \in Pipes : pc[p] = "ship" => from[p] # None
  /\ raised => daemon = "pump" /\ raises > 0

\* The pipelines of NothingSkipped.
Tracked == Pipes \ (forgot \cup crossed)

\* A record, an anchor, and a position or a cursor in hand name one place to
\* start from.
OneStart ==
  /\ \A p \in Pipes \ Anchored : anchor[p] = None /\ base[p] = 0
  /\ \A p \in Tracked : p \in Anchored =>
       /\ record[p] = None => anchor[p] = base[p]
       /\ record[p] = None /\ base[p] # None => p \notin fresh
       /\ record[p] = None /\ pc[p] # "done" => p \notin fresh
       /\ place[p] # None /\ record[p] = None /\ base[p] # None => place[p] = base[p]
       /\ pc[p] = "read" /\ from[p] = None =>
            anchor[p] = base[p] /\ (base[p] = None => record[p] = None)

\* What a record, or a cursor in hand, has passed since the start is sent.
Reached ==
  \A p \in Tracked :
    /\ record[p] # None => base[p] # None /\ 1 + base[p] .. record[p] \subseteq sent[p]
    /\ from[p] # None => base[p] # None /\ 1 + base[p] .. from[p] \subseteq sent[p]

\* A file that has held since the question began is seen, or will be.
Question ==
  \A p \in Pipes :
    /\ pc[p] \notin {"client", "site"} => stood[p] = {}
    /\ pc[p] = "client" /\ "client" \in stood[p] => Restricts("client", file["client"])
    /\ pc[p] = "site" /\ "client" \in stood[p] => Holds("client", seen[p])
    /\ "site" \in stood[p] => Restricts("site", file["site"])

\* Under the marker a governed pipeline is asked about after its record is
\* written, and what its record or its pump passed since it was held is sent.
MarkerKnown ==
  /\ daemon \in {"check", "pump"} => markerSeen = marker
  /\ \A p \in Busy \ crossed : markerSeen = marker
RecordsFirst ==
  faults = 0 => \A p \in Pipes :
    /\ markerSeen /\ p \in Anchored \ Exempt => record[p] # None \/ p \in todo
    /\ p \notin crossed =>
         /\ pc[p] \in {"client", "site"} => p \notin Exempt /\ (p \in Anchored => record[p] # None)
         /\ heldFrom[p] # None =>
              /\ p \in Anchored =>
                   record[p] # None /\ (pc[p] \in {"read", "ship"} => from[p] # None)
              /\ 1 + heldFrom[p] .. record[p] \subseteq sent[p]
              /\ 1 + heldFrom[p] .. from[p] \subseteq sent[p]

\* The inductive invariant; the theorem on filled rows adds the last two.
IInv == TypeOK /\ Pass /\ Threads /\ OneStart /\ Reached /\ Question
-----------------------------------------------------------------------------
(* Facts about the operators *)

\* What the README's table of states holds, the code holds.
LEMMA RestrictsHolds ==
  ASSUME NEW f \in Files, NEW c \in Contents, Restricts(f, c)
  PROVE  Holds(f, c)
BY DEF Files, Contents, Restricts, Holds

\* What may still go wrong leaves every count within the bound.
LEMMA TroubleIs ==
  ASSUME TypeOK, Trouble
  PROVE  {faults + 1, raises + 1, restarts + 1} \subseteq 0 .. MaxFaults
<1>1. faults \in Nat /\ raises \in Nat /\ restarts \in Nat /\ MaxFaults \in Nat
  BY GateAssumption DEF TypeOK
<1>2. faults + raises + restarts < MaxFaults
  BY DEF Trouble
<1> QED  BY <1>1, <1>2

\* Where a source reads on, case by case.
LEMMA AfterIs ==
  ASSUME TypeOK, NEW p \in Pipes, NEW c \in None .. last
  PROVE  /\ After(p, c) \in 0 .. last
         /\ c # None => After(p, c) = c
         /\ c = None /\ p \notin Anchored => After(p, c) = 0
         /\ c = None /\ p \in Anchored /\ anchor[p] # None => After(p, c) = anchor[p]
         /\ c = None /\ p \in Anchored /\ anchor[p] = None => After(p, c) = last
<1>1. last \in Nat /\ None = -1 /\ anchor[p] \in None .. last
  BY GateAssumption DEF TypeOK, None
<1>2. CASE c # None
  BY <1>1, <1>2 DEF After
<1>3. CASE c = None /\ p \notin Anchored
  BY <1>1, <1>3 DEF After
<1>4. CASE c = None /\ p \in Anchored /\ anchor[p] # None
  BY <1>1, <1>4 DEF After
<1>5. CASE c = None /\ p \in Anchored /\ anchor[p] = None
  BY <1>1, <1>5 DEF After
<1> QED  BY <1>2, <1>3, <1>4, <1>5

\* Types, and that a pump runs between the check and the join alone until one
\* raises.
LEMMA TypeInv ==
  ASSUME TypeOK, Pass, Threads, [Next]_vars
  PROVE  TypeOK'
<1> USE GateAssumption DEF TypeOK, Pass, Threads, None, Unset, Steps, Busy, world, loop, pumps,
         history, counters
<1>1. CASE Start
  BY <1>1 DEF Start, StartingPass, PassOver
<1>2. CASE Rebuild
  BY <1>2 DEF Rebuild, StartingPass, PassOver, Forgets
<1>3. CASE MarkerCheck
  BY <1>3 DEF MarkerCheck, PassOver
<1>4. CASE PassEnds
  BY <1>4 DEF PassEnds, Replace, Submit
<1>5. CASE PumpEnds
  <2>1. Joined \/ raises > 0
    BY <1>5 DEF PumpEnds
  <2>2. UNCHANGED <<world, record, todo, place, markerSeen, fresh, anchor, pumps, history,
                    counters>> /\ daemon' = "wait" /\ raised' = FALSE
    BY <1>5 DEF PumpEnds
  <2>3. raises' = 0 => Busy' = {}
    BY <2>1, <2>2 DEF Joined
  <2> QED  BY <2>2, <2>3
<1>6. ASSUME NEW p \in Pipes, ReadPlace(p)
       PROVE  TypeOK'
  BY <1>6 DEF ReadPlace, InitialCursor
<1>7. ASSUME NEW p \in Pipes, WriteRecord(p)
       PROVE  TypeOK'
  BY <1>7 DEF WriteRecord, StartCursor
<1>8. ASSUME NEW p \in Pipes, SkipPipeline(p)
       PROVE  TypeOK'
  BY <1>8, TroubleIs DEF SkipPipeline
<1>9. ASSUME NEW p \in Pipes, Ask(p)
       PROVE  TypeOK'
  BY <1>9 DEF Ask, Goto, Files
<1>10. ASSUME NEW p \in Pipes, AskClient(p)
        PROVE  TypeOK'
  BY <1>10 DEF AskClient, Goto, Files
<1>11. ASSUME NEW p \in Pipes, AskSite(p)
        PROVE  TypeOK'
  BY <1>11 DEF AskSite, Goto, End, Hold, Files, Contents
<1>12. ASSUME NEW p \in Pipes, GetCursor(p)
        PROVE  TypeOK'
  BY <1>12 DEF GetCursor, Goto
<1>13. ASSUME NEW p \in Pipes, ReadFrom(p)
        PROVE  TypeOK'
  <2>1. PICK after :
        /\ after = After(p, from[p]) /\ pc[p] = "read" /\ pc' = [pc EXCEPT ![p] = "ship"]
        /\ from' = [from EXCEPT ![p] = after] /\ UNCHANGED queued
        /\ anchor' = [anchor EXCEPT ![p] =
             IF from[p] = None /\ p \in Anchored THEN after ELSE anchor[p]]
        /\ base' = [base EXCEPT ![p] = IF base[p] = None THEN after ELSE base[p]]
        /\ UNCHANGED <<world, record, loop, seen, stood, sent, heldFrom, forgot, crossed, counters>>
    BY <1>13 DEF ReadFrom, Goto
  <2>2. /\ after \in 0 .. last /\ after \in Int
        /\ from[p] # None => after = from[p]
        /\ from[p] = None /\ p \notin Anchored => after = 0
        /\ from[p] = None /\ p \in Anchored /\ anchor[p] # None => after = anchor[p]
        /\ from[p] = None /\ p \in Anchored /\ anchor[p] = None => after = last
    BY <2>1, AfterIs
  <2> QED  BY <2>1, <2>2
<1>14. ASSUME NEW p \in Pipes, Ship(p)
        PROVE  TypeOK'
  <2>1. /\ from[p] \in None .. last /\ from[p] # None /\ from[p] \in Int /\ record[p] \in Int
    BY <1>14 DEF Ship
  <2>2. record' \in [Pipes -> None .. last] /\ sent' \in [Pipes -> SUBSET (1 .. last)]
    <3>1. CASE UNCHANGED <<sent, record>>
      BY <3>1
    <3>2. CASE Deliver(p) /\ record' = [record EXCEPT ![p] = IF from[p] < @ THEN @ ELSE from[p] + 1]
      <4>1. from[p] + 1 \in 1 .. last /\ sent' = [sent EXCEPT ![p] = @ \cup {from[p] + 1}]
        BY <2>1, <3>2 DEF Deliver
      <4> QED  BY <3>2, <4>1
    <3> QED  BY <1>14, <3>1, <3>2 DEF Ship
  <2>3. /\ pc' \in [Pipes -> Steps] /\ queued' \in [Pipes -> 0 .. raises]
    BY <1>14 DEF Ship, Goto, End
  <2>5. Busy' \subseteq Busy
    <3>1. \A q \in Pipes : pc'[q] # "done" => pc[q] # "done"
      BY <1>14, <2>3 DEF Ship, Goto, End
    <3> QED  BY <3>1
  <2>4. from' \in [Pipes -> None .. last]
    BY <1>14 DEF Ship
  <2> QED  BY <1>14, <2>2, <2>3, <2>4, <2>5 DEF Ship
<1>15. ASSUME NEW p \in Pipes, Raise(p)
        PROVE  TypeOK'
  <2>1. raises' = raises + 1 /\ raises' \in 0 .. MaxFaults
    BY <1>15, TroubleIs DEF Raise
  <2>2. sent' \in [Pipes -> SUBSET (1 .. last)]
    <3>1. CASE pc[p] = "ship" /\ Deliver(p)
      <4>1. from[p] \in None .. last /\ from[p] # None /\ from[p] < last
        BY <3>1 DEF Deliver
      <4> QED  BY <3>1, <4>1 DEF Deliver
    <3>2. CASE UNCHANGED sent
      BY <3>2
    <3> QED  BY <1>15, <3>1, <3>2 DEF Raise
  <2>3. pc' \in [Pipes -> Steps] /\ queued' \in [Pipes -> 0 .. raises']
    BY <1>15, <2>1 DEF Raise, Goto, End
  <2>4. from' \in [Pipes -> None .. last] /\ raised' \in BOOLEAN
    BY <1>15 DEF Raise
  <2> QED  BY <1>15, <2>1, <2>2, <2>3, <2>4 DEF Raise
<1>16. ASSUME NEW p \in Pipes, OtherSender(p)
        PROVE  TypeOK'
  <2>1. PICK after :
        /\ after = After(p, record[p]) /\ after < last
        /\ sent' = [sent EXCEPT ![p] = sent[p] \cup {after + 1}]
        /\ record' = [record EXCEPT ![p] = after + 1]
        /\ base' = [base EXCEPT ![p] = IF base[p] = None THEN after ELSE base[p]]
        /\ UNCHANGED <<world, loop, anchor, pumps, heldFrom, forgot, crossed, counters>>
    BY <1>16 DEF OtherSender
  <2>2. /\ after \in 0 .. last /\ after \in Int
        /\ record[p] # None => after = record[p]
        /\ record[p] = None /\ p \notin Anchored => after = 0
        /\ record[p] = None /\ p \in Anchored => anchor[p] # None /\ after = anchor[p]
    BY <2>1, AfterIs
  <2> QED  BY <2>1, <2>2
<1>17. CASE Store
  BY <1>17 DEF Store
<1>18. ASSUME NEW f \in Files, SetFile(f)
        PROVE  TypeOK'
  BY <1>18 DEF SetFile
<1>19. CASE MoveMarker
  BY <1>19 DEF MoveMarker
<1>20. CASE Restart
  <2>1. "missing" \in Contents
    BY DEF Contents
  <2>2. /\ pc' \in [Pipes -> Steps] /\ queued' \in [Pipes -> 0 .. raises] /\ Busy' = {}
        /\ seen' \in [Pipes -> Contents] /\ stood' \in [Pipes -> SUBSET Files]
    BY <1>20, <2>1 DEF Restart
  <2>3. /\ place' \in [Pipes -> None .. last] /\ anchor' \in [Pipes -> None .. last]
        /\ from' \in [Pipes -> None .. last]
    BY <1>20 DEF Restart
  <2>4. restarts' \in 0 .. MaxFaults /\ forgot' \subseteq Pipes
    BY <1>20, TroubleIs DEF Restart, Forgets
  <2> QED  BY <1>20, <2>2, <2>3, <2>4 DEF Restart
<1>21. CASE UNCHANGED vars
  BY <1>21 DEF vars
<1> QED
  BY <1>1, <1>2, <1>3, <1>4, <1>5, <1>6, <1>7, <1>8, <1>9, <1>10,
     <1>11, <1>12, <1>13, <1>14, <1>15, <1>16, <1>17, <1>18, <1>19, <1>20,
     <1>21
     DEF Next, Daemon, PumpOf

\* A position in hand belongs to a pass that has its pipeline left.
LEMMA PassInv ==
  ASSUME TypeOK, Pass, [Next]_vars
  PROVE  Pass'
<1> USE GateAssumption DEF TypeOK, Pass, None, Unset, Steps, Busy, world, loop, pumps,
         history, counters
<1>1. CASE Start
  BY <1>1 DEF Start, StartingPass, PassOver
<1>2. CASE Rebuild
  BY <1>2 DEF Rebuild, StartingPass, PassOver, Forgets
<1>3. CASE MarkerCheck
  BY <1>3 DEF MarkerCheck, PassOver
<1>4. CASE PassEnds
  BY <1>4 DEF PassEnds, Replace, Submit
<1>5. CASE PumpEnds
  BY <1>5 DEF PumpEnds, Joined
<1>6. ASSUME NEW p \in Pipes, ReadPlace(p)
       PROVE  Pass'
  BY <1>6 DEF ReadPlace, InitialCursor
<1>7. ASSUME NEW p \in Pipes, WriteRecord(p)
       PROVE  Pass'
  BY <1>7 DEF WriteRecord, StartCursor
<1>8. ASSUME NEW p \in Pipes, SkipPipeline(p)
       PROVE  Pass'
  BY <1>8 DEF SkipPipeline
<1>9. ASSUME NEW p \in Pipes, Ask(p)
       PROVE  Pass'
  BY <1>9 DEF Ask, Goto
<1>10. ASSUME NEW p \in Pipes, AskClient(p)
        PROVE  Pass'
  BY <1>10 DEF AskClient, Goto
<1>11. ASSUME NEW p \in Pipes, AskSite(p)
        PROVE  Pass'
  BY <1>11 DEF AskSite, Goto, End, Hold
<1>12. ASSUME NEW p \in Pipes, GetCursor(p)
        PROVE  Pass'
  BY <1>12 DEF GetCursor, Goto
<1>13. ASSUME NEW p \in Pipes, ReadFrom(p)
        PROVE  Pass'
  BY <1>13 DEF ReadFrom, Goto, After
<1>14. ASSUME NEW p \in Pipes, Ship(p)
        PROVE  Pass'
  BY <1>14, SMTT(30) DEF Ship, Goto, End, Deliver
<1>15. ASSUME NEW p \in Pipes, Raise(p)
        PROVE  Pass'
  BY <1>15, SMTT(30) DEF Raise, Goto, End, Deliver
<1>16. ASSUME NEW p \in Pipes, OtherSender(p)
        PROVE  Pass'
  BY <1>16 DEF OtherSender, After
<1>17. CASE Store
  BY <1>17 DEF Store
<1>18. ASSUME NEW f \in Files, SetFile(f)
        PROVE  Pass'
  BY <1>18 DEF SetFile
<1>19. CASE MoveMarker
  BY <1>19 DEF MoveMarker
<1>20. CASE Restart
  BY <1>20 DEF Restart, Forgets
<1>21. CASE UNCHANGED vars
  BY <1>21 DEF vars
<1> QED
  BY <1>1, <1>2, <1>3, <1>4, <1>5, <1>6, <1>7, <1>8, <1>9, <1>10,
     <1>11, <1>12, <1>13, <1>14, <1>15, <1>16, <1>17, <1>18, <1>19, <1>20,
     <1>21
     DEF Next, Daemon, PumpOf

\* A task waits behind one that runs, and a cursor is in hand while it is used.
LEMMA ThreadsInv ==
  ASSUME TypeOK, Threads, [Next]_vars
  PROVE  Threads'
<1> USE GateAssumption DEF TypeOK, Threads, None, Unset, Steps, Busy, world, loop, pumps,
         history, counters
<1>1. CASE Start
  BY <1>1 DEF Start, StartingPass, PassOver
<1>2. CASE Rebuild
  BY <1>2 DEF Rebuild, StartingPass, PassOver, Forgets
<1>3. CASE MarkerCheck
  BY <1>3 DEF MarkerCheck, PassOver
<1>4. CASE PassEnds
  BY <1>4 DEF PassEnds, Replace, Submit
<1>5. CASE PumpEnds
  BY <1>5 DEF PumpEnds, Joined
<1>6. ASSUME NEW p \in Pipes, ReadPlace(p)
       PROVE  Threads'
  BY <1>6 DEF ReadPlace, InitialCursor
<1>7. ASSUME NEW p \in Pipes, WriteRecord(p)
       PROVE  Threads'
  BY <1>7 DEF WriteRecord, StartCursor
<1>8. ASSUME NEW p \in Pipes, SkipPipeline(p)
       PROVE  Threads'
  BY <1>8 DEF SkipPipeline
<1>9. ASSUME NEW p \in Pipes, Ask(p)
       PROVE  Threads'
  BY <1>9 DEF Ask, Goto
<1>10. ASSUME NEW p \in Pipes, AskClient(p)
        PROVE  Threads'
  BY <1>10 DEF AskClient, Goto
<1>11. ASSUME NEW p \in Pipes, AskSite(p)
        PROVE  Threads'
  BY <1>11 DEF AskSite, Goto, End, Hold
<1>12. ASSUME NEW p \in Pipes, GetCursor(p)
        PROVE  Threads'
  BY <1>12 DEF GetCursor, Goto
<1>13. ASSUME NEW p \in Pipes, ReadFrom(p)
        PROVE  Threads'
  BY <1>13 DEF ReadFrom, Goto, After
<1>14. ASSUME NEW p \in Pipes, Ship(p)
        PROVE  Threads'
  BY <1>14, SMTT(30) DEF Ship, Goto, End, Deliver
<1>15. ASSUME NEW p \in Pipes, Raise(p)
        PROVE  Threads'
  BY <1>15, SMTT(30) DEF Raise, Goto, End, Deliver
<1>16. ASSUME NEW p \in Pipes, OtherSender(p)
        PROVE  Threads'
  BY <1>16 DEF OtherSender, After
<1>17. CASE Store
  BY <1>17 DEF Store
<1>18. ASSUME NEW f \in Files, SetFile(f)
        PROVE  Threads'
  BY <1>18 DEF SetFile
<1>19. CASE MoveMarker
  BY <1>19 DEF MoveMarker
<1>20. CASE Restart
  BY <1>20 DEF Restart, Forgets
<1>21. CASE UNCHANGED vars
  BY <1>21 DEF vars
<1> QED
  BY <1>1, <1>2, <1>3, <1>4, <1>5, <1>6, <1>7, <1>8, <1>9, <1>10,
     <1>11, <1>12, <1>13, <1>14, <1>15, <1>16, <1>17, <1>18, <1>19, <1>20,
     <1>21
     DEF Next, Daemon, PumpOf

\* A pass, a pump and a rebuild agree on where a pipeline starts.
LEMMA OneStartInv ==
  ASSUME TypeOK, Pass, Threads, OneStart, Reached, [Next]_vars
  PROVE  OneStart'
<1> USE GateAssumption DEF TypeOK, Pass, Threads, OneStart, Tracked, None, Unset, Steps, Busy,
         world, loop, pumps,
         history, counters
<1>1. CASE Start
  BY <1>1 DEF Start, StartingPass, PassOver
<1>2. CASE Rebuild
  BY <1>2 DEF Rebuild, StartingPass, PassOver, Forgets
<1>3. CASE MarkerCheck
  BY <1>3 DEF MarkerCheck, PassOver
<1>4. CASE PassEnds
  BY <1>4 DEF PassEnds, Replace, Submit
<1>5. CASE PumpEnds
  BY <1>5 DEF PumpEnds, Joined
<1>6. ASSUME NEW p \in Pipes, ReadPlace(p)
       PROVE  OneStart'
  BY <1>6 DEF ReadPlace, InitialCursor
<1>7. ASSUME NEW p \in Pipes, WriteRecord(p)
       PROVE  OneStart'
  BY <1>7 DEF WriteRecord, StartCursor
<1>8. ASSUME NEW p \in Pipes, SkipPipeline(p)
       PROVE  OneStart'
  BY <1>8 DEF SkipPipeline
<1>9. ASSUME NEW p \in Pipes, Ask(p)
       PROVE  OneStart'
  BY <1>9 DEF Ask, Goto
<1>10. ASSUME NEW p \in Pipes, AskClient(p)
        PROVE  OneStart'
  BY <1>10 DEF AskClient, Goto
<1>11. ASSUME NEW p \in Pipes, AskSite(p)
        PROVE  OneStart'
  BY <1>11 DEF AskSite, Goto, End, Hold
<1>12. ASSUME NEW p \in Pipes, GetCursor(p)
        PROVE  OneStart'
  BY <1>12 DEF GetCursor, Goto
<1>13. ASSUME NEW p \in Pipes, ReadFrom(p)
        PROVE  OneStart'
  <2>1. PICK after :
        /\ after = After(p, from[p]) /\ pc[p] = "read" /\ pc' = [pc EXCEPT ![p] = "ship"]
        /\ from' = [from EXCEPT ![p] = after] /\ UNCHANGED queued
        /\ anchor' = [anchor EXCEPT ![p] =
             IF from[p] = None /\ p \in Anchored THEN after ELSE anchor[p]]
        /\ base' = [base EXCEPT ![p] = IF base[p] = None THEN after ELSE base[p]]
        /\ UNCHANGED <<world, record, loop, seen, stood, sent, heldFrom, forgot, crossed, counters>>
    BY <1>13 DEF ReadFrom, Goto
  <2>2. /\ after \in 0 .. last /\ after \in Int
        /\ from[p] # None => after = from[p]
        /\ from[p] = None /\ p \notin Anchored => after = 0
        /\ from[p] = None /\ p \in Anchored /\ anchor[p] # None => after = anchor[p]
        /\ from[p] = None /\ p \in Anchored /\ anchor[p] = None => after = last
    BY <2>1, AfterIs
  <2>3. \A q \in Pipes \ {p} : /\ from'[q] = from[q] /\ anchor'[q] = anchor[q]
                             /\ base'[q] = base[q] /\ pc'[q] = pc[q]
    BY <2>1
  <2>4. /\ anchor'[p] = IF from[p] = None /\ p \in Anchored THEN after ELSE anchor[p]
        /\ base'[p] = IF base[p] = None THEN after ELSE base[p]
        /\ pc'[p] = "ship" /\ p \notin todo \ crossed
    BY <2>1
  <2>5. p \in Tracked /\ from[p] # None => base[p] # None
    BY DEF Reached
  <2>6. p \notin Anchored => anchor'[p] = None /\ base'[p] = 0
    BY <2>2, <2>4
  <2>7. p \in Tracked /\ p \in Anchored /\ record[p] = None =>
          anchor'[p] = base'[p] /\ p \notin fresh /\ place[p] = None
    BY <2>1, <2>2, <2>4, <2>5
  <2> QED  BY <2>1, <2>3, <2>4, <2>6, <2>7
<1>14. ASSUME NEW p \in Pipes, Ship(p)
        PROVE  OneStart'
  BY <1>14, SMTT(30) DEF Ship, Goto, End, Deliver
<1>15. ASSUME NEW p \in Pipes, Raise(p)
        PROVE  OneStart'
  BY <1>15, SMTT(30) DEF Raise, Goto, End, Deliver
<1>16. ASSUME NEW p \in Pipes, OtherSender(p)
        PROVE  OneStart'
  <2>1. PICK after :
        /\ after = After(p, record[p]) /\ after < last
        /\ sent' = [sent EXCEPT ![p] = sent[p] \cup {after + 1}]
        /\ record' = [record EXCEPT ![p] = after + 1]
        /\ base' = [base EXCEPT ![p] = IF base[p] = None THEN after ELSE base[p]]
        /\ UNCHANGED <<world, loop, anchor, pumps, heldFrom, forgot, crossed, counters>>
    BY <1>16 DEF OtherSender
  <2>2. /\ after \in 0 .. last /\ after \in Int
        /\ record[p] # None => after = record[p]
        /\ record[p] = None /\ p \notin Anchored => after = 0
        /\ record[p] = None /\ p \in Anchored => anchor[p] # None /\ after = anchor[p]
    BY <2>1, AfterIs
  <2> QED  BY <2>1, <2>2
<1>17. CASE Store
  BY <1>17 DEF Store
<1>18. ASSUME NEW f \in Files, SetFile(f)
        PROVE  OneStart'
  BY <1>18 DEF SetFile
<1>19. CASE MoveMarker
  BY <1>19 DEF MoveMarker
<1>20. CASE Restart
  BY <1>20 DEF Restart, Forgets
<1>21. CASE UNCHANGED vars
  BY <1>21 DEF vars
<1> QED
  BY <1>1, <1>2, <1>3, <1>4, <1>5, <1>6, <1>7, <1>8, <1>9, <1>10,
     <1>11, <1>12, <1>13, <1>14, <1>15, <1>16, <1>17, <1>18, <1>19, <1>20,
     <1>21
     DEF Next, Daemon, PumpOf

\* No step puts the place a pipeline reads on from past a row it still owes.
LEMMA ReachedInv ==
  ASSUME TypeOK, Pass, Threads, OneStart, Reached, [Next]_vars
  PROVE  Reached'
<1> USE GateAssumption DEF TypeOK, Pass, Threads, OneStart, Reached, Tracked, None, Unset, Steps,
         Busy, world, loop, pumps,
         history, counters
<1>1. CASE Start
  BY <1>1 DEF Start, StartingPass, PassOver
<1>2. CASE Rebuild
  BY <1>2 DEF Rebuild, StartingPass, PassOver, Forgets
<1>3. CASE MarkerCheck
  BY <1>3 DEF MarkerCheck, PassOver
<1>4. CASE PassEnds
  BY <1>4 DEF PassEnds, Replace, Submit
<1>5. CASE PumpEnds
  BY <1>5 DEF PumpEnds, Joined
<1>6. ASSUME NEW p \in Pipes, ReadPlace(p)
       PROVE  Reached'
  BY <1>6 DEF ReadPlace, InitialCursor
<1>7. ASSUME NEW p \in Pipes, WriteRecord(p)
       PROVE  Reached'
  BY <1>7 DEF WriteRecord, StartCursor
<1>8. ASSUME NEW p \in Pipes, SkipPipeline(p)
       PROVE  Reached'
  BY <1>8 DEF SkipPipeline
<1>9. ASSUME NEW p \in Pipes, Ask(p)
       PROVE  Reached'
  BY <1>9 DEF Ask, Goto
<1>10. ASSUME NEW p \in Pipes, AskClient(p)
        PROVE  Reached'
  BY <1>10 DEF AskClient, Goto
<1>11. ASSUME NEW p \in Pipes, AskSite(p)
        PROVE  Reached'
  BY <1>11 DEF AskSite, Goto, End, Hold
<1>12. ASSUME NEW p \in Pipes, GetCursor(p)
        PROVE  Reached'
  BY <1>12 DEF GetCursor, Goto
<1>13. ASSUME NEW p \in Pipes, ReadFrom(p)
        PROVE  Reached'
  <2>1. PICK after :
        /\ after = After(p, from[p]) /\ pc[p] = "read" /\ pc' = [pc EXCEPT ![p] = "ship"]
        /\ from' = [from EXCEPT ![p] = after] /\ UNCHANGED queued
        /\ anchor' = [anchor EXCEPT ![p] =
             IF from[p] = None /\ p \in Anchored THEN after ELSE anchor[p]]
        /\ base' = [base EXCEPT ![p] = IF base[p] = None THEN after ELSE base[p]]
        /\ UNCHANGED <<world, record, loop, seen, stood, sent, heldFrom, forgot, crossed, counters>>
    BY <1>13 DEF ReadFrom, Goto
  <2>2. /\ after \in 0 .. last /\ after \in Int
        /\ from[p] # None => after = from[p]
        /\ from[p] = None /\ p \notin Anchored => after = 0
        /\ from[p] = None /\ p \in Anchored /\ anchor[p] # None => after = anchor[p]
        /\ from[p] = None /\ p \in Anchored /\ anchor[p] = None => after = last
    BY <2>1, AfterIs
  <2> QED  BY <2>1, <2>2
<1>14. ASSUME NEW p \in Pipes, Ship(p)
        PROVE  Reached'
  BY <1>14, SMTT(30) DEF Ship, Goto, End, Deliver
<1>15. ASSUME NEW p \in Pipes, Raise(p)
        PROVE  Reached'
  BY <1>15, SMTT(30) DEF Raise, Goto, End, Deliver
<1>16. ASSUME NEW p \in Pipes, OtherSender(p)
        PROVE  Reached'
  <2>1. PICK after :
        /\ after = After(p, record[p]) /\ after < last
        /\ sent' = [sent EXCEPT ![p] = sent[p] \cup {after + 1}]
        /\ record' = [record EXCEPT ![p] = after + 1]
        /\ base' = [base EXCEPT ![p] = IF base[p] = None THEN after ELSE base[p]]
        /\ UNCHANGED <<world, loop, anchor, pumps, heldFrom, forgot, crossed, counters>>
    BY <1>16 DEF OtherSender
  <2>2. /\ after \in 0 .. last /\ after \in Int
        /\ record[p] # None => after = record[p]
        /\ record[p] = None /\ p \notin Anchored => after = 0
        /\ record[p] = None /\ p \in Anchored => anchor[p] # None /\ after = anchor[p]
    BY <2>1, AfterIs
  <2> QED  BY <2>1, <2>2
<1>17. CASE Store
  BY <1>17 DEF Store
<1>18. ASSUME NEW f \in Files, SetFile(f)
        PROVE  Reached'
  BY <1>18 DEF SetFile
<1>19. CASE MoveMarker
  BY <1>19 DEF MoveMarker
<1>20. CASE Restart
  BY <1>20 DEF Restart, Forgets
<1>21. CASE UNCHANGED vars
  BY <1>21 DEF vars
<1> QED
  BY <1>1, <1>2, <1>3, <1>4, <1>5, <1>6, <1>7, <1>8, <1>9, <1>10,
     <1>11, <1>12, <1>13, <1>14, <1>15, <1>16, <1>17, <1>18, <1>19, <1>20,
     <1>21
     DEF Next, Daemon, PumpOf

\* What a question knows of a file that has held since it began.
LEMMA QuestionInv ==
  ASSUME TypeOK, Question, [Next]_vars
  PROVE  Question'
<1> USE GateAssumption DEF TypeOK, Question, Steps, Busy, world, loop, pumps,
         history, counters
<1>1. CASE Start
  BY <1>1 DEF Start, StartingPass, PassOver
<1>2. CASE Rebuild
  BY <1>2 DEF Rebuild, StartingPass, PassOver, Forgets
<1>3. CASE MarkerCheck
  BY <1>3 DEF MarkerCheck, PassOver
<1>4. CASE PassEnds
  BY <1>4 DEF PassEnds, Replace, Submit
<1>5. CASE PumpEnds
  BY <1>5 DEF PumpEnds, Joined
<1>6. ASSUME NEW p \in Pipes, ReadPlace(p)
       PROVE  Question'
  BY <1>6 DEF ReadPlace, InitialCursor
<1>7. ASSUME NEW p \in Pipes, WriteRecord(p)
       PROVE  Question'
  BY <1>7 DEF WriteRecord, StartCursor
<1>8. ASSUME NEW p \in Pipes, SkipPipeline(p)
       PROVE  Question'
  BY <1>8 DEF SkipPipeline
<1>9. ASSUME NEW p \in Pipes, Ask(p)
       PROVE  Question'
  BY <1>9 DEF Ask, Goto, Files, Contents
<1>10. ASSUME NEW p \in Pipes, AskClient(p)
        PROVE  Question'
  BY <1>10, RestrictsHolds DEF AskClient, Goto, Files, Contents
<1>11. ASSUME NEW p \in Pipes, AskSite(p)
        PROVE  Question'
  BY <1>11, RestrictsHolds DEF AskSite, Goto, End, Hold, Answers, Files, Contents
<1>12. ASSUME NEW p \in Pipes, GetCursor(p)
        PROVE  Question'
  BY <1>12 DEF GetCursor, Goto
<1>13. ASSUME NEW p \in Pipes, ReadFrom(p)
        PROVE  Question'
  BY <1>13 DEF ReadFrom, Goto, After
<1>14. ASSUME NEW p \in Pipes, Ship(p)
        PROVE  Question'
  BY <1>14, SMTT(30) DEF Ship, Goto, End, Deliver
<1>15. ASSUME NEW p \in Pipes, Raise(p)
        PROVE  Question'
  BY <1>15, SMTT(30) DEF Raise, Goto, End, Deliver
<1>16. ASSUME NEW p \in Pipes, OtherSender(p)
        PROVE  Question'
  BY <1>16 DEF OtherSender, After
<1>17. CASE Store
  BY <1>17 DEF Store
<1>18. ASSUME NEW f \in Files, SetFile(f)
        PROVE  Question'
  BY <1>18 DEF SetFile, Files, Contents
<1>19. CASE MoveMarker
  BY <1>19 DEF MoveMarker
<1>20. CASE Restart
  BY <1>20 DEF Restart, Forgets
<1>21. CASE UNCHANGED vars
  BY <1>21 DEF vars
<1> QED
  BY <1>1, <1>2, <1>3, <1>4, <1>5, <1>6, <1>7, <1>8, <1>9, <1>10,
     <1>11, <1>12, <1>13, <1>14, <1>15, <1>16, <1>17, <1>18, <1>19, <1>20,
     <1>21
     DEF Next, Daemon, PumpOf

\* While the marker stands still in a check and its pump, the loop knows it.
LEMMA MarkerKnownInv ==
  ASSUME TypeOK, Pass, MarkerKnown, MarkerStays, [Next]_vars
  PROVE  MarkerKnown'
<1> USE GateAssumption DEF TypeOK, Pass, MarkerKnown, MarkerStays, Steps, Busy, world, loop, pumps,
         history, counters
<1>1. CASE Start
  BY <1>1 DEF Start, StartingPass, PassOver
<1>2. CASE Rebuild
  BY <1>2 DEF Rebuild, StartingPass, PassOver, Forgets
<1>3. CASE MarkerCheck
  BY <1>3 DEF MarkerCheck, PassOver, Appeared
<1>4. CASE PassEnds
  BY <1>4 DEF PassEnds, Replace, Submit
<1>5. CASE PumpEnds
  BY <1>5 DEF PumpEnds, Joined
<1>6. ASSUME NEW p \in Pipes, ReadPlace(p)
       PROVE  MarkerKnown'
  BY <1>6 DEF ReadPlace, InitialCursor
<1>7. ASSUME NEW p \in Pipes, WriteRecord(p)
       PROVE  MarkerKnown'
  BY <1>7 DEF WriteRecord, StartCursor
<1>8. ASSUME NEW p \in Pipes, SkipPipeline(p)
       PROVE  MarkerKnown'
  BY <1>8 DEF SkipPipeline
<1>9. ASSUME NEW p \in Pipes, Ask(p)
       PROVE  MarkerKnown'
  BY <1>9 DEF Ask, Goto
<1>10. ASSUME NEW p \in Pipes, AskClient(p)
        PROVE  MarkerKnown'
  BY <1>10 DEF AskClient, Goto
<1>11. ASSUME NEW p \in Pipes, AskSite(p)
        PROVE  MarkerKnown'
  BY <1>11 DEF AskSite, Goto, End, Hold
<1>12. ASSUME NEW p \in Pipes, GetCursor(p)
        PROVE  MarkerKnown'
  BY <1>12 DEF GetCursor, Goto
<1>13. ASSUME NEW p \in Pipes, ReadFrom(p)
        PROVE  MarkerKnown'
  BY <1>13 DEF ReadFrom, Goto, After
<1>14. ASSUME NEW p \in Pipes, Ship(p)
        PROVE  MarkerKnown'
  BY <1>14, SMTT(30) DEF Ship, Goto, End, Deliver
<1>15. ASSUME NEW p \in Pipes, Raise(p)
        PROVE  MarkerKnown'
  BY <1>15, SMTT(30) DEF Raise, Goto, End, Deliver
<1>16. ASSUME NEW p \in Pipes, OtherSender(p)
        PROVE  MarkerKnown'
  BY <1>16 DEF OtherSender, After
<1>17. CASE Store
  BY <1>17 DEF Store
<1>18. ASSUME NEW f \in Files, SetFile(f)
        PROVE  MarkerKnown'
  BY <1>18 DEF SetFile
<1>19. CASE MoveMarker
  BY <1>19 DEF MoveMarker
<1>20. CASE Restart
  BY <1>20 DEF Restart, Forgets
<1>21. CASE UNCHANGED vars
  BY <1>21 DEF vars
<1> QED
  BY <1>1, <1>2, <1>3, <1>4, <1>5, <1>6, <1>7, <1>8, <1>9, <1>10,
     <1>11, <1>12, <1>13, <1>14, <1>15, <1>16, <1>17, <1>18, <1>19, <1>20,
     <1>21
     DEF Next, Daemon, PumpOf

\* ... and records come first.
LEMMA RecordsFirstInv ==
  ASSUME TypeOK, Pass, Threads, OneStart, MarkerKnown, MarkerKnown', RecordsFirst, [Next]_vars
  PROVE  RecordsFirst'
<1> USE GateAssumption DEF TypeOK, Pass, Threads, OneStart, MarkerKnown, RecordsFirst, None, Unset, Steps,
         Busy, world, loop, pumps,
         history, counters
<1>1. CASE Start
  BY <1>1 DEF Start, StartingPass, PassOver
<1>2. CASE Rebuild
  BY <1>2 DEF Rebuild, StartingPass, PassOver, Forgets
<1>3. CASE MarkerCheck
  BY <1>3 DEF MarkerCheck, PassOver, Appeared
<1>4. CASE PassEnds
  BY <1>4 DEF PassEnds, Replace, Submit
<1>5. CASE PumpEnds
  BY <1>5 DEF PumpEnds, Joined
<1>6. ASSUME NEW p \in Pipes, ReadPlace(p)
       PROVE  RecordsFirst'
  BY <1>6 DEF ReadPlace, InitialCursor
<1>7. ASSUME NEW p \in Pipes, WriteRecord(p)
       PROVE  RecordsFirst'
  BY <1>7 DEF WriteRecord, StartCursor
<1>8. ASSUME NEW p \in Pipes, SkipPipeline(p)
       PROVE  RecordsFirst'
  BY <1>8 DEF SkipPipeline
<1>9. ASSUME NEW p \in Pipes, Ask(p)
       PROVE  RecordsFirst'
  BY <1>9 DEF Ask, Goto, ByTheSwitches
<1>10. ASSUME NEW p \in Pipes, AskClient(p)
        PROVE  RecordsFirst'
  BY <1>10 DEF AskClient, Goto
<1>11. ASSUME NEW p \in Pipes, AskSite(p)
        PROVE  RecordsFirst'
  BY <1>11 DEF AskSite, Goto, End, Hold
<1>12. ASSUME NEW p \in Pipes, GetCursor(p)
        PROVE  RecordsFirst'
  BY <1>12 DEF GetCursor, Goto
<1>13. ASSUME NEW p \in Pipes, ReadFrom(p)
        PROVE  RecordsFirst'
  <2>1. PICK after :
        /\ after = After(p, from[p]) /\ pc[p] = "read" /\ pc' = [pc EXCEPT ![p] = "ship"]
        /\ from' = [from EXCEPT ![p] = after] /\ UNCHANGED queued
        /\ anchor' = [anchor EXCEPT ![p] =
             IF from[p] = None /\ p \in Anchored THEN after ELSE anchor[p]]
        /\ base' = [base EXCEPT ![p] = IF base[p] = None THEN after ELSE base[p]]
        /\ UNCHANGED <<world, record, loop, seen, stood, sent, heldFrom, forgot, crossed, counters>>
    BY <1>13 DEF ReadFrom, Goto
  <2>2. /\ after \in 0 .. last /\ after \in Int
        /\ from[p] # None => after = from[p]
        /\ from[p] = None /\ p \notin Anchored => after = 0
        /\ from[p] = None /\ p \in Anchored /\ anchor[p] # None => after = anchor[p]
        /\ from[p] = None /\ p \in Anchored /\ anchor[p] = None => after = last
    BY <2>1, AfterIs
  <2>3. \A q \in Pipes \ {p} : from'[q] = from[q] /\ pc'[q] = pc[q]
    BY <2>1
  <2>4. pc'[p] = "ship" /\ from'[p] = after /\ after # None
    BY <2>1, <2>2
  <2>5. ASSUME faults = 0, p \notin crossed, heldFrom[p] # None
        PROVE  /\ p \in Anchored => record[p] # None
               /\ 1 + heldFrom[p] .. record[p] \subseteq sent[p]
               /\ 1 + heldFrom[p] .. after \subseteq sent[p]
    <3>1. heldFrom[p] \in Nat
      BY <2>5
    <3>2. from[p] # None \/ after = 0
      BY <2>1, <2>2, <2>5
    <3> QED  BY <2>2, <2>5, <3>1, <3>2
  <2> QED  BY <2>1, <2>3, <2>4, <2>5
<1>14. ASSUME NEW p \in Pipes, Ship(p)
        PROVE  RecordsFirst'
  <2>1. /\ pc[p] = "ship" /\ from[p] # None /\ from[p] \in Nat
        /\ from' = [from EXCEPT ![p] = None]
        /\ pc' \in [Pipes -> Steps] /\ pc'[p] \in {"done", "ask"}
        /\ \A q \in Pipes \ {p} : pc'[q] = pc[q]
        /\ UNCHANGED <<todo, markerSeen, heldFrom, crossed, faults>>
    BY <1>14 DEF Ship, Goto, End, Steps
  <2>2. /\ \A q \in Pipes \ {p} : record'[q] = record[q] /\ sent'[q] = sent[q] /\ from'[q] = from[q]
        /\ sent[p] \subseteq sent'[p] /\ from'[p] = None
        /\ record[p] # None => record'[p] # None
        /\ \/ record'[p] = record[p]
           \/ record'[p] = from[p] + 1 /\ from[p] + 1 \in sent'[p]
    BY <1>14, <2>1 DEF Ship, Deliver
  <2>3. ASSUME faults = 0, p \notin crossed, heldFrom[p] # None
        PROVE  /\ p \in Anchored => record'[p] # None
               /\ 1 + heldFrom[p] .. record'[p] \subseteq sent'[p]
               /\ 1 + heldFrom[p] .. from'[p] \subseteq sent'[p]
    <3>1. heldFrom[p] \in Nat /\ record[p] \in Int
      BY <2>3
    <3>2. /\ 1 + heldFrom[p] .. record[p] \subseteq sent[p]
          /\ 1 + heldFrom[p] .. from[p] \subseteq sent[p]
          /\ p \in Anchored => record[p] # None
      BY <2>3
    <3>3. \A i \in 1 + heldFrom[p] .. from[p] + 1 : i <= from[p] \/ i = from[p] + 1
      BY <2>1, <3>1
    <3> QED  BY <2>1, <2>2, <3>1, <3>2, <3>3
  <2> QED  BY <2>1, <2>2, <2>3
<1>15. ASSUME NEW p \in Pipes, Raise(p)
        PROVE  RecordsFirst'
  BY <1>15, SMTT(30) DEF Raise, Goto, End, Deliver
<1>16. ASSUME NEW p \in Pipes, OtherSender(p)
        PROVE  RecordsFirst'
  <2>1. PICK after :
        /\ after = After(p, record[p]) /\ after < last
        /\ sent' = [sent EXCEPT ![p] = sent[p] \cup {after + 1}]
        /\ record' = [record EXCEPT ![p] = after + 1]
        /\ base' = [base EXCEPT ![p] = IF base[p] = None THEN after ELSE base[p]]
        /\ UNCHANGED <<world, loop, anchor, pumps, heldFrom, forgot, crossed, counters>>
    BY <1>16 DEF OtherSender
  <2>2. /\ after \in 0 .. last /\ after \in Int
        /\ record[p] # None => after = record[p]
        /\ record[p] = None /\ p \notin Anchored => after = 0
        /\ record[p] = None /\ p \in Anchored => anchor[p] # None /\ after = anchor[p]
    BY <2>1, AfterIs
  <2>3. \A q \in Pipes \ {p} : sent'[q] = sent[q] /\ record'[q] = record[q]
    BY <2>1
  <2>4. sent'[p] = sent[p] \cup {after + 1} /\ record'[p] = after + 1 /\ record'[p] # None
    BY <2>1, <2>2
  <2>5. ASSUME faults = 0, p \notin crossed, heldFrom[p] # None
        PROVE  1 + heldFrom[p] .. after \subseteq sent[p]
    <3>1. heldFrom[p] \in Nat
      BY <2>5
    <3>2. record[p] # None \/ after = 0
      BY <2>2, <2>5
    <3> QED  BY <2>2, <2>5, <3>1, <3>2
  <2>6. ASSUME faults = 0, p \notin crossed, heldFrom[p] # None
        PROVE  1 + heldFrom[p] .. record'[p] \subseteq sent'[p]
    <3>1. heldFrom[p] \in Nat
      BY <2>6
    <3> QED  BY <2>2, <2>4, <2>5, <2>6, <3>1
  <2>7. /\ \A q \in Pipes : sent[q] \subseteq sent'[q]
        /\ UNCHANGED <<faults, markerSeen, todo, crossed, pc, heldFrom, from>>
    BY <2>1, <2>3, <2>4
  <2> QED  BY <2>3, <2>4, <2>6, <2>7
<1>17. CASE Store
  BY <1>17 DEF Store
<1>18. ASSUME NEW f \in Files, SetFile(f)
        PROVE  RecordsFirst'
  BY <1>18 DEF SetFile
<1>19. CASE MoveMarker
  BY <1>19 DEF MoveMarker
<1>20. CASE Restart
  BY <1>20 DEF Restart, Forgets
<1>21. CASE UNCHANGED vars
  BY <1>21 DEF vars
<1> QED
  BY <1>1, <1>2, <1>3, <1>4, <1>5, <1>6, <1>7, <1>8, <1>9, <1>10,
     <1>11, <1>12, <1>13, <1>14, <1>15, <1>16, <1>17, <1>18, <1>19, <1>20,
     <1>21
     DEF Next, Daemon, PumpOf
-----------------------------------------------------------------------------
(* Theorems *)

\* The inductive invariant, whatever the marker does.
THEOREM Invariance == Spec => []IInv
<1>1. Init => IInv
  <2> SUFFICES ASSUME Init
               PROVE  IInv
    OBVIOUS
  <2> USE GateAssumption DEF Init, Unset, None
  <2>1. TypeOK
    <3>1. "missing" \in Contents
      BY DEF Contents
    <3>2. 0 \in 0 .. MaxRows /\ 0 \in 0 .. MaxMoves /\ 0 \in 0 .. MaxFaults
      OBVIOUS
    <3>3. /\ record \in [Pipes -> None .. last] /\ place \in [Pipes -> None .. last]
          /\ anchor \in [Pipes -> None .. last] /\ base \in [Pipes -> None .. last]
          /\ heldFrom \in [Pipes -> None .. last] /\ from \in [Pipes -> None .. last]
      OBVIOUS
    <3>4. /\ pc \in [Pipes -> Steps] /\ queued \in [Pipes -> 0 .. raises] /\ Busy = {}
          /\ seen \in [Pipes -> Contents] /\ stood \in [Pipes -> SUBSET Files]
          /\ sent \in [Pipes -> SUBSET (1 .. last)]
      BY <3>1 DEF Steps, Busy
    <3> QED  BY <3>2, <3>3, <3>4 DEF TypeOK
  <2>2. Pass /\ Threads /\ OneStart /\ Question
    BY DEF Pass, Threads, OneStart, Question, Tracked, Busy
  <2>3. Reached
    <3>1. \A p \in Pipes : record[p] = None /\ from[p] = None
      OBVIOUS
    <3> QED  BY <3>1 DEF Reached, Tracked
  <2> QED  BY <2>1, <2>2, <2>3 DEF IInv
<1>2. IInv /\ [Next]_vars => IInv'
  BY TypeInv, PassInv, ThreadsInv, OneStartInv, ReachedInv, QuestionInv DEF IInv
<1> QED  BY <1>1, <1>2, PTL DEF Spec

\* The state of the daemon, the switches and the pumps keeps its type, and
\* until a pump raises none runs while the daemon builds or writes records.
THEOREM TypeCorrect == Spec => []TypeOK
<1>1. IInv => TypeOK
  BY DEF IInv
<1> QED  BY Invariance, <1>1, PTL

\* Holds, passes at start, rebuild and marker, raising pumps and a second sender
\* on the key skip no row behind the place a pipeline first started from, a lost
\* anchor and a pump that ran on into a pass excepted.
THEOREM NothingIsSkipped == Spec => []NothingSkipped
<1>1. IInv => NothingSkipped
  <2> SUFFICES ASSUME IInv, NEW p \in Tracked, base[p] # None,
                      NEW i \in 1 .. last, i > base[p]
               PROVE  Ahead(p, i)
    BY DEF NothingSkipped, Tracked
  <2>1. /\ base[p] \in None .. last /\ record[p] \in None .. last
        /\ anchor[p] \in None .. last /\ last \in Nat /\ None = -1
    BY GateAssumption DEF IInv, TypeOK, Tracked, None
  <2>2. CASE record[p] # None
    <3>1. 1 + base[p] .. record[p] \subseteq sent[p]
      BY <2>2 DEF IInv, Reached
    <3> QED  BY <2>1, <2>2, <3>1 DEF Ahead
  <2>3. CASE record[p] = None
    <3>1. anchor[p] <= base[p]
      BY <2>1, <2>3 DEF IInv, OneStart, Tracked
    <3> QED  BY <2>1, <2>3, <3>1 DEF Ahead
  <2> QED  BY <2>2, <2>3
<1> QED  BY Invariance, <1>1, PTL

\* A client's file that holds it all through the gate's question is obeyed,
\* although the two files are read one after the other.
THEOREM HoldIsObeyed == Spec => []HoldObeyed
<1>1. IInv => HoldObeyed
  BY DEF IInv, Question, TypeOK, HoldObeyed
<1> QED  BY Invariance, <1>1, PTL

\* What a pipeline stored while it was held ships once it is let send, through
\* rebuilds and restarts, when the marker is not written between marker_check
\* and the end of the pump and no pump ran on into a marker or a pass.
THEOREM FilledRowsAreShipped ==
  ASSUME MarkerStays
  PROVE  Spec => []FilledRowsShip
<1>1. Init => MarkerKnown /\ RecordsFirst
  BY GateAssumption DEF Init, MarkerKnown, RecordsFirst, Busy, Unset, None
<1>2. IInv /\ MarkerKnown /\ RecordsFirst /\ [Next]_vars => (MarkerKnown /\ RecordsFirst)'
  BY MarkerStays, MarkerKnownInv, RecordsFirstInv DEF IInv
<1>3. IInv /\ RecordsFirst => FilledRowsShip
  <2> SUFFICES ASSUME IInv, RecordsFirst, NEW p \in Pipes \ crossed, heldFrom[p] # None,
                      faults = 0, NEW i \in 1 .. last, i > heldFrom[p]
               PROVE  Ahead(p, i)
    BY DEF FilledRowsShip
  <2>1. /\ p \in Anchored => record[p] # None
        /\ 1 + heldFrom[p] .. record[p] \subseteq sent[p]
    BY DEF RecordsFirst
  <2>2. /\ heldFrom[p] \in None .. last /\ record[p] \in None .. last
        /\ last \in Nat /\ None = -1 /\ (p \notin Anchored => anchor[p] = None)
    BY GateAssumption DEF IInv, TypeOK, OneStart, None
  <2> QED  BY <2>1, <2>2 DEF Ahead
<1> QED  BY Invariance, <1>1, <1>2, <1>3, PTL DEF Spec
=============================================================================
