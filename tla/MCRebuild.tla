------------------------------ MODULE MCRebuild ------------------------------
(* Instances of Rebuild for TLC. *)
EXTENDS Rebuild

Entry(name, key, producer) == [name |-> name, key |-> key, producer |-> producer]
E1 == Entry("p1", "k1", FALSE)
E2 == Entry("p2", "k2", TRUE)
E3 == Entry("p3", "k1", FALSE)
TwoFiles == <<"a", "b">>
SomeContents == {{E1}, {E2}, {E3}, {E1, E2}}
OldManifest == {[client |-> "a", entry |-> Entry("old", "k2", FALSE)]}
MayFail == {E2}
=============================================================================
