------------------------------ MODULE Delivery ------------------------------
(***************************************************************************)
(* What one hs-uploader pipeline promises, with no pump, no retry queue    *)
(* and no process in sight: rows are stored in the sink under increasing   *)
(* ids, each reaches the destination at least once and in id order, the    *)
(* send record covers only rows the destination took, and the sink gives   *)
(* up only such rows.  Module Pump implements this (Pump!Delivers).        *)
(***************************************************************************)
EXTENDS Naturals

VARIABLES
  stored,      \* the highest id the sink has assigned; ids run 1, 2, 3...
  kept,        \* the ids still in pending_uploads
  record,      \* the send record (watermark cursor); 0 when none is stored
  delivered    \* the ids the destination has taken at least once

vars == <<stored, kept, record, delivered>>

Init == stored = 0 /\ kept = {} /\ record = 0 /\ delivered = {}

\* A producer flushes one more row.
Store ==
  /\ stored' = stored + 1
  /\ kept' = kept \cup {stored'}
  /\ UNCHANGED <<record, delivered>>

\* The destination takes rows it did not have: only rows the sink still
\* holds, and none before every older one.
Deliver ==
  /\ \E new \in SUBSET (kept \ delivered) :
       /\ new # {}
       /\ delivered' = delivered \cup new
       /\ \A i \in new : 1 .. i \subseteq delivered'
  /\ UNCHANGED <<stored, kept, record>>

\* The send record moves forward, over delivered rows alone.
Acknowledge ==
  /\ \E k \in 1 .. stored :
       /\ k > record
       /\ 1 .. k \subseteq delivered
       /\ record' = k
  /\ UNCHANGED <<stored, kept, delivered>>

\* An operator removes the send record.
Rewind == record' = 0 /\ UNCHANGED <<stored, kept, delivered>>

\* The sink drops rows the destination has.
Forget ==
  /\ \E gone \in SUBSET (kept \cap delivered) : kept' = kept \ gone
  /\ UNCHANGED <<stored, record, delivered>>

Next == Store \/ Deliver \/ Acknowledge \/ Rewind \/ Forget

Spec == Init /\ [][Next]_vars
=============================================================================
