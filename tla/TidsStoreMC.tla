----------------------------- MODULE TidsStoreMC -----------------------------
(* Instances of TidsStore for TLC *)
EXTENDS TidsStore, TLC

\* What one transaction inserts, its own TID for each triple
OneTid == {T \X {tid} : T \in SUBSET Triple, tid \in Tid}

\* What a batch of a snapshot inserts, or a fused operation: any TIDs
AnyTids == SUBSET (Triple \X Tid)

\* TIDs are alike, and so are the triples that no snapshot reads
Symmetry == Permutations(Tid) \cup Permutations(Triple \ Streamed)
=============================================================================
