------------------------------ MODULE Operations ------------------------------
(***************************************************************************)
(* Operations of the SU-Set and the arithmetic of their times: fusing two  *)
(* that are causally contiguous, and cutting what has been seen from a     *)
(* fused one (engine/ops.ts).                                              *)
(*                                                                         *)
(* There are two processes.  A time is of the process "by": its own ticks, *)
(* the ticks at which its identity was last forked, and the ticks of the   *)
(* other process that it has seen.  A transaction identity (TID) is the    *)
(* hash of a time.  Deletes and inserts are sets of pairs of a triple and  *)
(* a TID.                                                                  *)
(***************************************************************************)
EXTENDS Naturals, Sequences, FiniteSets, SequencesExt

\* TreeClock.ticked(ticks): going back before a fork drops it
Ticked(time, tick) ==
  [time EXCEPT !.tick = tick, !.base = IF tick < @ THEN 0 ELSE @]

\* TreeClock.isZeroId: no tick since the fork
IsZeroId(time) == time.tick = time.base

\* TreeClock.hash: a fork with no further ticks has the hash of its parent
Hash(time) == IF IsZeroId(time) THEN [time EXCEPT !.base = 0] ELSE time

\* CausalTimeRange.contiguous: "two" continues from "one" with no other cause
Contiguous(one, two) ==
  /\ one.time.tick + 1 = two.from
  /\ Ticked(one.time, two.from) = Ticked(two.time, two.from)

\* Mutant: a delete of what the first one inserts stays.
Fuse1(one, two) ==
  [from |-> one.from, time |-> two.time,
   deletes |-> one.deletes \cup two.deletes,
   inserts |-> (one.inserts \ two.deletes) \cup two.inserts]

\* FusableCausalOperation.fusion: what the first inserts and the second deletes
\* is in neither
Fuse(one, two) ==
  [from |-> one.from, time |-> two.time,
   deletes |-> (one.deletes \cup two.deletes) \ (one.inserts \cap two.deletes),
   inserts |-> (one.inserts \ two.deletes) \cup two.inserts]

\* Mutant: what the seen part inserted and the rest deletes is not deleted.
Cut1(op, prev) ==
  LET shared == {Hash(Ticked(op.time, tick)) : tick \in op.from .. prev.time.tick}
  IN  [from |-> prev.time.tick + 1, time |-> op.time,
       deletes |-> op.deletes \ prev.deletes,
       inserts |-> op.inserts \ {x \in prev.inserts : x[2] \in shared}]

\* FusableCausalOperation.cutting: "prev", which has been seen, is cut from "op".
\* What prev inserted and op, which includes it, does not is deleted in the rest.
Cut(op, prev) ==
  LET before == {Hash(Ticked(op.time, tick)) : tick \in prev.from .. op.from - 1}
      shared == {Hash(Ticked(op.time, tick)) : tick \in op.from .. prev.time.tick}
      seen == {x \in prev.inserts : x[2] \in shared}
      stale == {x \in op.deletes : x[2] \in before /\ x \notin prev.inserts}
  IN  [from |-> prev.time.tick + 1, time |-> op.time,
       deletes |-> ((op.deletes \ prev.deletes) \ stale) \cup (seen \ op.inserts),
       inserts |-> op.inserts \ seen]

\* Operations in a row, as one
Fused(run) == FoldLeft(Fuse, Head(run), Tail(run))
CutAll(op, run) == FoldLeft(Cut, op, run)

Triples(pairs) == {x[1] : x \in pairs}

\* TidsStore.commit: what can be written of the pairs that are inserted.  Each is
\* added to a copy of its triple's TIDs, of which the last is written, unless the
\* TIDs have been "read" into the cache.
Written(pairs, read) ==
  {kept \in SUBSET pairs :
     \A triple \in Triples(pairs) :
       LET given == {x \in pairs : x[1] = triple}
       IN  IF triple \in read THEN given \subseteq kept
                              ELSE Cardinality(given \cap kept) = 1}

\* What can be written of an operation's inserts.  Deletes read the TIDs of their
\* triples (processSuDeletions), and so may others before.
Keeps(op) == UNION {Written(op.inserts, Triples(op.deletes) \cup read) :
                      read \in SUBSET Triples(op.inserts)}

\* An operation applied to the TIDs that a clone has, of which the inserts in "kept"
\* are written (SuSetDataset.apply)
Applied(tids, op, kept) == (tids \ op.deletes) \cup kept

\* What a set of operations amounts to, in whatever order
Meaning(ops) == UNION {op.inserts : op \in ops} \ UNION {op.deletes : op \in ops}

=============================================================================
