-------------------------------- MODULE SuSet --------------------------------
(***************************************************************************)
(* The SU-Set: a clone's replicated set of triples (SuSetDataset.ts), its  *)
(* triple-to-transaction-ID table (TidsStore.ts) and the clock handling    *)
(* that DatasetEngine.ts wraps around every transaction and every remote   *)
(* operation.                                                              *)
(*                                                                         *)
(* Each action is one dataset transaction, which commits graph, TIDs and   *)
(* journal state in a single batch under the 'txn' lock.  An operation,    *)
(* once journalled, is in ops for ever: it may reach any clone by live     *)
(* publication or by rev-up, in any order, any number of times.            *)
(*                                                                         *)
(* The group of clones is fixed, so a TreeClock is a vector with one entry *)
(* for each process identity; forking identities is module Clones.  An *)
(* operation is a single transaction: fused operations belong to the       *)
(* journal.                                                                *)
(***************************************************************************)
EXTENDS Naturals, FiniteSets

CONSTANTS Clone,       \* the process identities of the domain
          Triple,      \* the triples a transaction may delete or insert
          Assertions,  \* the patches the constraints may add to a remote operation
          MaxOps,      \* bound: operations journalled in all
          MaxTicks     \* bound: ticks a clone takes without an operation

Clock == [Clone -> Nat]

\* The hash of an operation's time: who made it, and at which tick
Tid == Clone \X Nat

Patch == {p \in [deletes : SUBSET Triple, inserts : SUBSET Triple] :
            p.deletes \cap p.inserts = {}}

NoPatch == [deletes |-> {}, inserts |-> {}]

Operation == [src : Clone, time : Clock, prev : Nat,
              deletes : SUBSET (Triple \X Tid), inserts : SUBSET Triple]

ASSUME SuSetAssumption ==
  /\ NoPatch \in Assertions
  /\ Assertions \subseteq Patch
  /\ MaxOps \in Nat
  /\ MaxTicks \in Nat

VARIABLES graph,    \* graph[c]: the triples in the user graph of clone c
          tids,     \* tids[c]: its TidsStore, as pairs of a triple and a TID
          time,     \* time[c]: its clock in memory (the message service)
          journal,  \* journal[c]: the journal state it has saved
          ops       \* every operation journalled by its own source

vars == <<graph, tids, time, journal, ops>>

-----------------------------------------------------------------------------
(* Clocks, as vectors *)

Ticked(t, c, n) == [t EXCEPT ![c] = @ + n]

Join(t, u) == [c \in Clone |-> IF t[c] < u[c] THEN u[c] ELSE t[c]]

Ticks(o) == o.time[o.src]

TidOf(o) == <<o.src, Ticks(o)>>

Withs(T, tid) == T \X {tid}

\* Mutant: deliver without looking at third parties
ReadyForUnchecked(c, o) == TRUE

\* No process but the sender and the receiver is known to be further on
ReadyFor(c, o) == \A d \in Clone \ {c, o.src} : o.time[d] <= time[c][d]

\* The receiver has the sender's previous operation, and not yet this one
InSequence(c, o) == o.prev <= time[c][o.src] /\ time[c][o.src] < Ticks(o)

-----------------------------------------------------------------------------
(* Patches to the graph and to the TIDs *)

\* MutableOperation.append: the later of an insert and a delete wins
Append(p, q) ==
  LET inserts == (p.inserts \ q.deletes) \cup q.inserts
  IN  [deletes |-> (p.deletes \cup q.deletes) \ inserts, inserts |-> inserts]

Patched(s, p) == (s \ p.deletes) \cup p.inserts

FindTids(c, T) == {tt \in tids[c] : tt[1] \in T}

\* Mutant: all the TIDs of a deleted triple go, claimed or not
ToRemoveAll(c, o) == FindTids(c, {tt[1] : tt \in o.deletes})

ToRemove(c, o) == o.deletes \cap tids[c]

\* Mutant: one TID lost is enough to take the triple out of the graph
EmptiedEarly(c, o) == {t \in Triple : FindTids(c, {t}) \cap ToRemove(c, o) # {}}

\* The triples which lose the last of our TIDs
Emptied(c, o) ==
  {t \in Triple : /\ FindTids(c, {t}) # {}
                  /\ FindTids(c, {t}) \subseteq ToRemove(c, o)}

AppliedPatch(c, o) ==
  Append([deletes |-> Emptied(c, o), inserts |-> {}],
         [deletes |-> {}, inserts |-> o.inserts])

\* The operation's inserts which survive the constraint
Kept(o, a) == o.inserts \ a.deletes

\* Mutant: the constraint's operation says nothing of the inserts it dropped
CxnDeletesExisting(c, o, a) == FindTids(c, a.deletes)

\* The TIDs a constraint's own operation deletes: those we have, and those of
\* the triples it has taken out of the applied operation
CxnDeletes(c, o, a) ==
  FindTids(c, a.deletes) \cup Withs(o.inserts \cap a.deletes, TidOf(o))

\* A constraint's deletes which are of triples already in the graph
Existing(c, a) == {t \in a.deletes : FindTids(c, {t}) # {}}

GraphPatch(c, o, a) ==
  Append([deletes |-> AppliedPatch(c, o).deletes, inserts |-> Kept(o, a)],
         [deletes |-> Existing(c, a), inserts |-> a.inserts])

TidPatch(c, o, a, cxnTid) ==
  Append([deletes |-> ToRemove(c, o) \ Withs(Kept(o, a), TidOf(o)),
          inserts |-> Withs(Kept(o, a), TidOf(o))],
         [deletes |-> FindTids(c, a.deletes),
          inserts |-> Withs(a.inserts, cxnTid)])

-----------------------------------------------------------------------------
(* The operations a clone makes, and what its journal then holds *)

\* Mutant: prev counts the ticks which are internal to the clone
OperationMessageInternalPrev(c, t, dels, ins) ==
  [src |-> c, time |-> t, prev |-> time[c][c], deletes |-> dels, inserts |-> ins]

OperationMessage(c, t, dels, ins) ==
  [src |-> c, time |-> t, prev |-> journal[c].gwc[c],
   deletes |-> dels, inserts |-> ins]

\* Mutant: the clock is not saved with the entry
JournalledWithoutTime(j, t, o) == [time |-> j.time, gwc |-> Join(j.gwc, o.time)]

\* Mutant: the global clock is that of the last operation
JournalledAtOpTime(j, t, o) == [time |-> t, gwc |-> o.time]

Journalled(j, t, o) == [time |-> t, gwc |-> Join(j.gwc, o.time)]

-----------------------------------------------------------------------------
Init ==
  /\ graph = [c \in Clone |-> {}]
  /\ tids = [c \in Clone |-> {}]
  /\ time = [c \in Clone |-> [d \in Clone |-> 0]]
  /\ journal = [c \in Clone |-> [time |-> [d \in Clone |-> 0],
                                 gwc |-> [d \in Clone |-> 0]]]
  /\ ops = {}

\* A local transaction
Transact(c, patch) ==
  LET now == Ticked(time[c], c, 1)
      op == OperationMessage(c, now, FindTids(c, patch.deletes), patch.inserts)
  IN  /\ patch # NoPatch
      /\ Cardinality(ops) < MaxOps
      /\ graph' = [graph EXCEPT ![c] = Patched(@, patch)]
      /\ tids' = [tids EXCEPT ![c] =
           Patched(@, [deletes |-> op.deletes,
                       inserts |-> Withs(op.inserts, TidOf(op))])]
      /\ time' = [time EXCEPT ![c] = now]
      /\ journal' = [journal EXCEPT ![c] = Journalled(@, now, op)]
      /\ ops' = ops \cup {op}

\* A local transaction that turns out empty, or is refused by a constraint or
\* for its size: its tick is spent in memory and nothing is saved
TransactNothing(c) ==
  /\ time[c][c] < MaxTicks
  /\ time' = [time EXCEPT ![c] = Ticked(@, c, 1)]
  /\ UNCHANGED <<graph, tids, journal, ops>>

\* A constraint inserts no triple that the operation inserts.  One that does gives it
\* a second TID, and TidsStore.commit may write only one (README, "Findings").
InsertsOther(o, a) == a.inserts \cap o.inserts = {}

\* A remote operation: the engine joins its time and takes two ticks, one for
\* the operation and one for what the constraints make of it
Apply(c, o, a) ==
  LET joined == Join(time[c], o.time)
      localTime == Ticked(joined, c, 1)
      cxnTime == Ticked(joined, c, 2)
      cxn == OperationMessage(c, cxnTime, CxnDeletes(c, o, a), a.inserts)
      applied == Journalled(journal[c], localTime, o)
  IN  /\ o \in ops
      /\ ReadyFor(c, o)
      /\ InSequence(c, o)
      /\ InsertsOther(o, a)
      /\ a # NoPatch => Cardinality(ops) < MaxOps
      /\ graph' = [graph EXCEPT ![c] = Patched(@, GraphPatch(c, o, a))]
      /\ tids' = [tids EXCEPT ![c] = Patched(@, TidPatch(c, o, a, TidOf(cxn)))]
      /\ time' = [time EXCEPT ![c] = cxnTime]
      /\ journal' = [journal EXCEPT ![c] =
           IF a = NoPatch THEN applied ELSE Journalled(applied, cxnTime, cxn)]
      /\ ops' = IF a = NoPatch THEN ops ELSE ops \cup {cxn}

\* The process stops and starts again: what was not saved is gone
Restart(c) ==
  /\ time[c] # journal[c].time
  /\ time' = [time EXCEPT ![c] = journal[c].time]
  /\ UNCHANGED <<graph, tids, journal, ops>>

Next ==
  \E c \in Clone :
    \/ \E patch \in Patch : Transact(c, patch)
    \/ TransactNothing(c)
    \/ \E o \in ops, a \in Assertions : Apply(c, o, a)
    \/ Restart(c)

Spec == Init /\ [][Next]_vars

\* Every operation a clone can accept eventually reaches it
FairSpec ==
  /\ Spec
  /\ \A c \in Clone : WF_vars(\E o \in ops, a \in Assertions : Apply(c, o, a))

-----------------------------------------------------------------------------
(* Properties *)

\* The operations a clone has in its journal, by its global clock
Applied(c) == {o \in ops : Ticks(o) <= journal[c].gwc[o.src]}

Inserted(S) == UNION {Withs(o.inserts, TidOf(o)) : o \in S}

Deleted(S) == UNION {o.deletes : o \in S}

\* o is in the causal past of p
Before(o, p) == o # p /\ Ticks(o) <= p.time[o.src]

\* Every variable has its type (persisted and in-memory state of every clone).
TypeOK ==
  /\ graph \in [Clone -> SUBSET Triple]
  /\ tids \in [Clone -> SUBSET (Triple \X Tid)]
  /\ time \in [Clone -> Clock]
  /\ journal \in [Clone -> [time : Clock, gwc : Clock]]
  /\ ops \subseteq Operation

\* Whatever the order in which operations reached it, and whatever crashes came
\* between, a clone's TID table holds exactly the TIDs inserted and not deleted
\* by the operations in its journal (SuSetDataset.apply, processSuDeletions).
TidsAreOrSet ==
  \A c \in Clone : tids[c] = Inserted(Applied(c)) \ Deleted(Applied(c))

\* The user graph and the TID table, patched separately, agree: a triple is in
\* the graph if and only if at least one of its TIDs is left.
GraphShowsTids ==
  \A c \in Clone : graph[c] = {t \in Triple : FindTids(c, {t}) # {}}

\* Strong convergence: two clones which have the same operations show the user
\* the same graph, in whatever order each of them applied them.
Converged ==
  \A c, d \in Clone : Applied(c) = Applied(d) => graph[c] = graph[d]

\* An applied insert stays visible unless an applied operation that knew of it
\* deleted it: no delete concurrent with the insert can take the triple away.
AddWins ==
  \A c \in Clone : \A o \in Applied(c) : \A t \in o.inserts :
    \/ t \in graph[c]
    \/ \E p \in Applied(c) : Before(o, p) /\ <<t, TidOf(o)>> \in p.deletes

\* A clone never puts two operations at one tick, so no two operations share a
\* TID, even though ticks taken in memory are forgotten by a restart.
TicksIdentifyOps ==
  \A o, p \in ops : o.src = p.src /\ Ticks(o) = Ticks(p) => o = p

\* No step, a restart included, makes a clone lose an operation it has applied.
AppliedOnlyGrows == [][\A c \in Clone : Applied(c) \subseteq Applied(c)']_vars

\* Causal delivery: when a clone takes on an operation which existed before the
\* step, everything its source had when making it is there already.  The two
\* checks on receipt (readyFor, which looks at third processes, and prev against
\* the ticks seen of the sender) add up to this.
DeliveredInOrder ==
  [][\A c \in Clone : \A o \in Applied(c)' \cap ops :
       o \notin Applied(c) => \A p \in ops : Before(p, o) => p \in Applied(c)]_vars

\* Every clone always catches up with all operations there are: ticks spent
\* without an operation, or forgotten by a restart, never leave a gap that a
\* receiver waits for ever to see filled.
AlwaysCatchesUp == \A c \in Clone : []<>(Applied(c) = ops)

=============================================================================
