------------------------------- MODULE MCGate -------------------------------
(* Instances of SinkGate for TLC. *)
EXTENDS SinkGate

\* A now-anchored pipeline the switches govern, and the heartbeat.
GatePipes == {"psk", "heartbeat"}
OnePipe == {"psk"}
Heartbeat == {"heartbeat"}
Between == {"down", "wait"}
AnyTime == {"down", "build", "wait", "check", "pump"}
=============================================================================
