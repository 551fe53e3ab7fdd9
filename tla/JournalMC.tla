------------------------------- MODULE JournalMC -------------------------------
(* Constants of the runs of Journal *)
EXTENDS Journal, TLC

CONSTANTS x, y

OneTriple == {x}
TwoTriples == {x, y}

Symmetric == Permutations({x, y})

=============================================================================
