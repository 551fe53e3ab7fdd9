----------------------------- MODULE RecoveryMC -----------------------------
(***************************************************************************)
(* Model checking of module Recovery.                                      *)
(***************************************************************************)
EXTENDS Recovery

\* One operation of the third clone, two of me, and two more of b
Few == [p \in Writer |-> CASE p = "me" -> 2 [] p = "b" -> 3 [] p = "c" -> 1]

=============================================================================
