------------------------------ MODULE TidTable ------------------------------
(***************************************************************************)
(* What the TIDs store promises to the SU-Set, and SuSet.tla takes for     *)
(* granted: a table of triples and the TIDs of their insertion, to which a *)
(* transaction's patch is applied whole, or not at all.                    *)
(***************************************************************************)
CONSTANTS Triple, Tid

VARIABLES table,    \* the pairs of a triple and a TID
          request   \* the patch of the transaction that is committing, or {}

vars == <<table, request>>

Patch == [deletes : SUBSET (Triple \X Tid), inserts : SUBSET (Triple \X Tid)]

Patched(s, p) == (s \ p.deletes) \cup p.inserts

Init ==
  /\ table = {}
  /\ request = {}

Request(p) ==
  /\ request = {}
  /\ request' = {p}
  /\ UNCHANGED table

Commit ==
  /\ \E p \in request : table' = Patched(table, p)
  /\ request' = {}

Fail ==
  /\ request # {}
  /\ request' = {}
  /\ UNCHANGED table

Next == (\E p \in Patch : Request(p)) \/ Commit \/ Fail

Spec == Init /\ [][Next]_vars

=============================================================================
