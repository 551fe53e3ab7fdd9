------------------------------ MODULE Snapshots ------------------------------
(***************************************************************************)
(* A newcomer gets a snapshot from a collaborator which goes on applying   *)
(* operations (SuSetDataset.ts takeSnapshot and applySnapshot,             *)
(* DatasetEngine.ts snapshot and processSnapshot).                         *)
(*                                                                         *)
(* The quads come from an iterator which is opened under the state lock,   *)
(* when the global clock is read, and which does not see later writes; the *)
(* TIDs of each triple are read, one by one, when a batch is to be sent.   *)
(* Operations are numbered in the order in which the collaborator applies  *)
(* them, and the newcomer applies those since the snapshot in that order.  *)
(***************************************************************************)
EXTENDS Naturals, Sequences

CONSTANTS Triple,
          MaxOps   \* bound: operations in all

ASSUME SnapshotsAssumption == MaxOps \in Nat

VARIABLES
  ops,    \* operations that the collaborator has applied
  phase,  \* of the snapshot: "none", "data", "applied" at the newcomer
  gwc,    \* the last operation of the snapshot's global clock
  quads,  \* triples that the iterator has yet to give
  sent,   \* data on their way, of a triple and its TIDs each
  has,    \* the collaborator's dataset
  got,    \* the newcomer's dataset
  next,   \* the operation which the newcomer is to apply next
  lost    \* pairs of a triple and a TID that a datum had and the newcomer dropped

vars == <<ops, phase, gwc, quads, sent, has, got, next, lost>>

\* A dataset is a graph, and the TIDs of its triples, as pairs
Empty == [graph |-> {}, tids |-> {}]

TidsOf(data, t) == {x \in data.tids : x[1] = t}

\* processSuDeletions: the triples of which the operation deletes all our TIDs,
\* there being some
Gone(data, op) ==
  {t \in Triple : TidsOf(data, t) # {} /\ TidsOf(data, t) \subseteq op.deletes}

\* SuSetDataset.apply of operation n
Applied(data, op, n) ==
  [graph |-> (data.graph \ Gone(data, op)) \cup op.inserts,
   tids |-> (data.tids \ op.deletes) \cup (op.inserts \X {n})]

Init ==
  /\ ops = <<>>
  /\ phase = "none"
  /\ gwc = 0
  /\ quads = {}
  /\ sent = {}
  /\ has = Empty
  /\ got = Empty
  /\ next = 1
  /\ lost = {}

\* The collaborator applies an operation.  Its author had some of the TIDs that
\* are here, and it may be of triples that have none left.
Apply ==
  /\ Len(ops) < MaxOps
  /\ \E deletes \in SUBSET has.tids, inserts \in SUBSET Triple :
       LET op == [deletes |-> deletes, inserts |-> inserts]
       IN  /\ inserts \cap {x[1] : x \in deletes} = {}
           /\ ops' = Append(ops, op)
           /\ has' = Applied(has, op, Len(ops'))
  /\ UNCHANGED <<phase, gwc, quads, sent, got, next, lost>>

\* Mutant: the global clock is that of the next operation.
ClockNow1 == Len(ops) + 1

\* The last operation in the journal's global clock
ClockNow == Len(ops)

\* SuSetDataset.takeSnapshot, under the state lock
Take ==
  /\ phase = "none"
  /\ phase' = "data"
  /\ gwc' = ClockNow
  /\ quads' = has.graph
  /\ UNCHANGED <<ops, sent, has, got, next, lost>>

\* The TIDs of a quad from the iterator are found, there being none or more
Send(t) ==
  /\ t \in quads
  /\ quads' = quads \ {t}
  /\ sent' = sent \cup {[triple |-> t, tids |-> TidsOf(has, t)]}
  /\ UNCHANGED <<ops, phase, gwc, has, got, next, lost>>

\* What TidsStore.commit writes of the TIDs that are given for one triple, which is
\* not in the cache: each is added to a set of its own, and one of the sets is written
Written(tids) == IF tids = {} THEN {{}} ELSE {{x} : x \in tids}

\* A datum of applySnapshot
Insert(d) ==
  /\ d \in sent
  /\ sent' = sent \ {d}
  /\ \E kept \in Written(d.tids) :
       /\ got' = [graph |-> got.graph \cup {d.triple}, tids |-> got.tids \cup kept]
       /\ lost' = lost \cup (d.tids \ kept)
  /\ UNCHANGED <<ops, phase, gwc, quads, has, next>>

\* The data are complete: updates need no longer wait
Complete ==
  /\ phase = "data"
  /\ quads = {} /\ sent = {}
  /\ phase' = "applied"
  /\ next' = gwc + 1
  /\ UNCHANGED <<ops, gwc, quads, sent, has, got, lost>>

\* The newcomer applies an operation that is not in the snapshot's global clock
Update ==
  /\ phase = "applied"
  /\ next <= Len(ops)
  /\ got' = Applied(got, ops[next], next)
  /\ next' = next + 1
  /\ UNCHANGED <<ops, phase, gwc, quads, sent, has, lost>>

Next ==
  \/ Apply \/ Take \/ Complete \/ Update
  \/ \E t \in Triple : Send(t)
  \/ \E d \in sent : Insert(d)

Spec == Init /\ [][Next]_vars

-----------------------------------------------------------------------------
(* Properties *)

\* The newcomer has had all the data and all the operations
CaughtUp == phase = "applied" /\ next > Len(ops)

\* What commit dropped of the snapshot itself: a TID that was read too late comes again
\* with its operation
Dropped == {x \in lost : x[2] <= gwc}

\* The newcomer's TIDs are then those of the collaborator but for what commit dropped of
\* the snapshot, whatever was applied in between: TIDs that were read too late are added
\* or deleted again, and no other is missing or too many (applySnapshot).
TidsConverge == CaughtUp => got.tids = has.tids \ Dropped

\* The newcomer then has every triple that the collaborator has, unless one of the
\* triple's TIDs was dropped: those of which the snapshot had one TID, or which came by
\* an operation, are there (takeSnapshot).
NothingLost == CaughtUp => has.graph \ {x[1] : x \in Dropped} \subseteq got.graph

\* The same of every triple, which fails: a later operation that deletes the TID that
\* was kept is taken to delete the last one (TidsStore.commit).
NoTripleLost == CaughtUp => has.graph \subseteq got.graph

\* "these operations combine to realise the final convergent state of every clone":
\* the newcomer has no other triples than that (concurrency.md).
Converged == CaughtUp => got.graph = has.graph

=============================================================================
