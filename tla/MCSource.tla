------------------------------ MODULE MCSource ------------------------------
(* Instances of SqliteSource for TLC. *)
EXTENDS SqliteSource

Spot(producer, d12, local, accepted, cycle, spot, snr) ==
  [producer |-> producer, d12 |-> d12, local |-> local, accepted |-> accepted,
   cycle |-> cycle, spot |-> spot, snr |-> snr]
Row(producer, d12, local, accepted, cycle, snr) ==
  Spot(producer, d12, local, accepted, cycle, "s", snr)

\* psk.spots: psk-recorder and meteor-scatter share the table; some rows name
\* their producer, some are older; one is local, one of another version.
PskRow == Row("psk", "psk", FALSE, TRUE, 1, 0)
OldMeteorRow == Row("", "meteor", FALSE, TRUE, 2, 1)
MeteorRow == Row("meteor", "meteor", FALSE, TRUE, 1, 0)
LocalRow == Row("psk", "psk", TRUE, TRUE, 1, 1)
OtherVersion == Row("psk", "psk", FALSE, FALSE, 1, 1)
SharedKinds == {PskRow, OldMeteorRow, MeteorRow, LocalRow, OtherVersion}

Source(producer, deletes, anchored, ceiled, dedup) ==
  [producer |-> producer, deletes |-> deletes, anchored |-> anchored,
   ceiled |-> ceiled, dedup |-> dedup]

\* A deleting sender per producer, the second anchored at `now', and, over the
\* rows of a third producer that nobody deletes, a dedup and ceiled one.
EarlySpot == Row("wspr", "wspr", FALSE, TRUE, 1, 0)
LateBetterSpot == Row("wspr", "wspr", FALSE, TRUE, 1, 1)
OtherSpot == Spot("wspr", "wspr", FALSE, TRUE, 1, "t", 0)
AllKinds == SharedKinds \cup {EarlySpot, LateBetterSpot, OtherSpot}
AllPipes == {"psk", "meteor", "wspr"}
AllConf ==
  [q \in AllPipes |->
     CASE q = "psk" -> Source("psk", TRUE, FALSE, FALSE, FALSE)
       [] q = "meteor" -> Source("meteor", TRUE, TRUE, FALSE, FALSE)
       [] q = "wspr" -> Source("wspr", FALSE, FALSE, TRUE, TRUE)]

\* One sender of wspr.spots that the completion ceiling holds back.
CeiledPipes == {"wsprnet"}
CeiledConf == [q \in CeiledPipes |-> Source("", FALSE, FALSE, TRUE, FALSE)]
=============================================================================
