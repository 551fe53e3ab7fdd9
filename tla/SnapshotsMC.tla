---------------------------- MODULE SnapshotsMC -----------------------------
(***************************************************************************)
(* Model checking of module Snapshots.                                     *)
(***************************************************************************)
EXTENDS Snapshots

CONSTANTS t1, t2

Triples == {t1, t2}

=============================================================================
