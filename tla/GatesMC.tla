------------------------------ MODULE GatesMC -------------------------------
(* Instances of Gates for model checking. *)
EXTENDS Gates, TLC

CONSTANTS r1, w1, o1, q1, d1

None == {}
Reader1 == {r1}
Writer1 == {w1}
Remote1 == {o1}
Request1 == {q1}
Connect1 == {d1}
=============================================================================
