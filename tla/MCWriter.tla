------------------------------ MODULE MCWriter ------------------------------
(* Instances of SinkWriter for TLC. *)
EXTENDS SinkWriter, TLC

CONSTANTS r1, r2, r3, r4, r5, batcher, main, psk, meteor

BothThreads == {batcher, main}
OneThread == {batcher}

\* Rows of two producers, one of them a row json.dumps refuses.
MixedRows == {r1, r2, r3, r4, r5}
MixedOwner == [r \in MixedRows |-> IF r = r1 THEN meteor ELSE psk]
PoisonRow == {r5}

PskRows == {r1, r2, r3}
PskOwner == [r \in PskRows |-> psk]

Symmetry == Permutations({r2, r3, r4}) \cup Permutations(BothThreads)
=============================================================================
