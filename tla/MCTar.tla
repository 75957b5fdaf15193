-------------------------------- MODULE MCTar --------------------------------
(* Instances of TarUpload for TLC. *)
EXTENDS TarUpload

CONSTANTS gw1, gw2

TwoServers == <<gw1, gw2>>
=============================================================================
