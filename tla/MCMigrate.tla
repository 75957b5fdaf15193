----------------------------- MODULE MCMigrate -----------------------------
(* Instances of Migrate for TLC. *)
EXTENDS Migrate, TLC

CONSTANTS psk, meteor

TwoProducers == {psk, meteor}
Symmetry == Permutations(TwoProducers)
=============================================================================
