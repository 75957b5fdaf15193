------------------------------- MODULE MCWspr -------------------------------
(* Instances of WsprCycle for TLC. *)
EXTENDS WsprCycle

CONSTANTS rx1, rx2

TwoReceivers == {rx1, rx2}
TwoCycles == 0 .. 1
OneRider == {Row("psk", rx1, 0)}
=============================================================================
