------------------------------- MODULE Journal -------------------------------
(***************************************************************************)
(* The journal of a clone ("self") and the clerk that fuses its entries in *)
(* the background (engine/journal, SuSetDataset.operationsSince), while a  *)
(* peer reads it for a rev-up and operations of another clone ("remote")   *)
(* arrive, fused or not.                                                   *)
(*                                                                         *)
(* The journal is in a key-value store, of which each action is one        *)
(* transaction: entries under the local tick, the previous operation of    *)
(* an entry's process under the entry's TID, and operations under their    *)
(* TID.  The clerk's fusion and queue are in memory.                       *)
(***************************************************************************)
EXTENDS Operations, FiniteSetsExt

CONSTANTS
  Triple,
  MaxOps,        \* bound: operations of both processes
  MaxEvents,     \* bound: what happens besides operations, each kind once
  MaxFootprint,  \* JournalClerk.maxEntryFootprint
  Adverse        \* which of the circumstances below may come about

\* Circumstances in which the code is known to go wrong (README, "Findings"):
\* a fused operation comes next after a snapshot, or after one to which it is not
\* contiguous; a snapshot comes while the clerk holds entries; and a peer that has
\* our last operation before our snapshot, but not all of the snapshot, asks for a
\* rev-up.
ASSUME JournalAssumption ==
  /\ {MaxOps, MaxEvents, MaxFootprint} \subseteq Nat
  /\ Adverse \subseteq {"fused-after-snapshot", "fused-after-gap",
                       "snapshot-while-fusing", "ask-at-start"}

Proc == {"self", "remote"}
Other(p) == CHOOSE q \in Proc : q # p

VARIABLES
  hist,     \* for each process, the operations it has made, one for each transaction
  remote,   \* the remote clone: its ticks, fork, and number of our operations it has
  store,    \* the journal and the TIDs of the clone's dataset, and, as history, those
            \* ("lost") that were given to it but not written
  base,     \* the tick of the clone's last fork
  tail,     \* entries and checkpoints for the clerk to process
  due,      \* an entry has been made since the last checkpoint
  fusion,   \* what the clerk is fusing, if anything
  reader,   \* the peer that is revving-up, if any
  events    \* kinds of what has happened besides operations

vars == <<hist, remote, store, base, tail, due, fusion, reader, events>>

None == [none |-> TRUE]
Admin == [checkpoint |-> "admin"]
Savepoint == [checkpoint |-> "savepoint"]

NoTid == [by |-> "self", tick |-> 0, base |-> 0, dep |-> 0]  \* TreeClock.GENESIS

-----------------------------------------------------------------------------
(* What was done before the journal *)

Range1(p, n) == {hist[p][i] : i \in 1 .. n}
TickAt(p, n) == IF n = 0 THEN 0 ELSE hist[p][n].time.tick
IndexOf(p, tick) == CHOOSE n \in 0 .. Len(hist[p]) :
                      TickAt(p, n) <= tick
                      /\ (n = Len(hist[p]) \/ tick < TickAt(p, n + 1))

\* A transaction which deletes and inserts triples, by a process that has "tids"
\* (SuSetDataset.txnOperation)
Transaction(time, tids, deletes, inserts) ==
  [from |-> time.tick, time |-> time,
   deletes |-> {x \in tids : x[1] \in deletes},
   inserts |-> inserts \X {Hash(time)}]

\* Triples to delete, which are there, and to insert
Patches(tids) ==
  {p \in (SUBSET Triples(tids)) \X (SUBSET Triple) :
     p[1] \cap p[2] = {} /\ p[1] \cup p[2] # {}}

\* Operations i to j of p follow one another, so that p's clerk may have fused them
InARow(p, i, j) == \A k \in i .. j - 1 : Contiguous(hist[p][k], hist[p][k + 1])

-----------------------------------------------------------------------------
(* The store: journal/index.ts and JournalState.ts *)

\* Entries are indexed by their last local tick and by TID
Entry(key, prev, op) == [key |-> key, prev |-> prev, op |-> op]

Without(f, keys) == [k \in DOMAIN f \ keys |-> f[k]]
With(f, k, v) == [x \in DOMAIN f \cup {k} |-> IF x = k THEN v ELSE f[x]]

\* Journal.commitEntry
Committed(s, e) ==
  LET tid == Hash(e.op.time)
  IN  [s EXCEPT !.entries = With(@, e.key, [prev |-> e.prev, tid |-> tid]),
                !.prevs = With(@, tid, e.prev),
                !.ops = With(@, tid, e.op)]

\* Mutant: what was fused is not removed.
Spliced1(s, remove, e) == Committed(s, e)

\* Journal.spliceEntries
Spliced(s, remove, e) ==
  LET tids == {r.tid : r \in remove}
  IN  Committed([s EXCEPT !.entries = Without(@, {r.key : r \in remove}),
                          !.prevs = Without(@, tids),
                          !.ops = Without(@, tids)], e)

\* EntryBuilder.next and commit: the entry that the operation makes
NewEntry(s, op, tick) ==
  LET gwc == s.gwc[op.time.by] IN Entry(tick, <<gwc.tick, gwc.tid>>, op)

\* JournalState.withTime
Journaled(s, e, time) ==
  [Committed(s, e) EXCEPT
     !.gwc[e.op.time.by] = [tick |-> e.op.time.tick, tid |-> Hash(e.op.time)],
     !.time = time]

\* Journal.entryAfter
After(s, tick) == {key \in DOMAIN s.entries : key > tick}

\* Journal.causalReduce: the TIDs of the operations that lead to "tid" without a
\* gap, none of them before minFrom.  They are followed by the entries' "prev".
History(s, tid, minFrom) ==
  LET Reaches(t) ==
        /\ t \in DOMAIN s.prevs /\ t \in DOMAIN s.ops
        /\ LET prev == s.prevs[t] op == s.ops[t]
           IN  /\ prev[1] >= minFrom
               /\ prev[1] = op.from - 1
               /\ ~IsZeroId(Ticked(op.time, prev[1]))
      back[t \in DOMAIN s.ops \cup {x[2] : x \in {s.prevs[y] : y \in DOMAIN s.prevs}}
                   \cup {tid}] ==
        IF Reaches(t) THEN Append(back[s.prevs[t][2]], t) ELSE <<t>>
  IN  back[tid]

\* "Journal corrupted: operation is missing"
Intact(s, tid, minFrom) == \A i \in DOMAIN History(s, tid, minFrom) :
                             History(s, tid, minFrom)[i] \in DOMAIN s.ops

OpsOf(s, tids) == [i \in DOMAIN tids |-> s.ops[tids[i]]]

\* JournalState.applicableOperation: a fused operation is cut by what has been seen
Applicable(s, op) ==
  LET tid == Hash(Ticked(op.time, s.gwc[op.time.by].tick))
  IN  IF op.from < op.time.tick /\ tid \in DOMAIN s.ops
      THEN CutAll(op, OpsOf(s, History(s, tid, op.from)))
      ELSE op

-----------------------------------------------------------------------------
Init ==
  /\ hist = [p \in Proc |-> <<>>]
  /\ remote = [tick |-> 0, base |-> 0, known |-> 0]
  /\ store = [entries |-> <<>>, prevs |-> <<>>, ops |-> <<>>,
              gwc |-> [p \in Proc |-> [tick |-> 0, tid |-> NoTid]],
              start |-> 0, time |-> 0, tids |-> {}, lost |-> {}]
  /\ base = 0
  /\ tail = <<>>
  /\ due = FALSE
  /\ fusion = None
  /\ reader = None
  /\ events = {}

Happens(event) ==
  /\ event \notin events /\ Cardinality(events) < MaxEvents
  /\ events' = events \cup {event}

\* An operation applied to a dataset, with what is not written of it
Takes(d, op, kept) ==
  LET tids == Applied(d.tids, op, kept)
  IN  [d EXCEPT !.tids = tids, !.lost = @ \cup (op.inserts \ tids)]

OpsLeft == Len(hist["self"]) + Len(hist["remote"]) < MaxOps

\* An entry is put in the journal and in the clerk's queue
PutEntry(s, op, tick, time) ==
  LET e == NewEntry(s, op, tick)
  IN  /\ \E kept \in Keeps(op) : store' = Takes(Journaled(s, e, time), op, kept)
      /\ tail' = Append(tail, e)
      /\ due' = TRUE

\* A transaction before this one took a tick and turned out to be empty
Skips(skip) == IF skip = 0 THEN UNCHANGED events ELSE Happens("empty")

\* SuSetDataset.transact
Write ==
  /\ OpsLeft
  /\ \E p \in Patches(store.tids), skip \in {0, 1} :
       LET tick == store.time + 1 + skip
           time == [by |-> "self", tick |-> tick, base |-> base,
                    dep |-> store.gwc["remote"].tick]
           op == Transaction(time, store.tids, p[1], p[2])
       IN  /\ Skips(skip)
           /\ hist' = [hist EXCEPT !["self"] = Append(@, op)]
           /\ PutEntry(store, op, tick, tick)
  /\ UNCHANGED <<remote, base, fusion, reader>>

\* The remote clone makes an operation, having had some of ours: two ticks for each
RemoteWrite ==
  /\ OpsLeft
  /\ \E n \in remote.known .. Len(hist["self"]), skip \in {0, 1} :
       LET tids == Meaning(Range1("self", n)
                             \cup Range1("remote", Len(hist["remote"])))
           tick == remote.tick + 2 * (n - remote.known) + 1 + skip
           time == [by |-> "remote", tick |-> tick, base |-> remote.base,
                    dep |-> TickAt("self", n)]
       IN  \E p \in Patches(tids) :
             /\ hist' = [hist EXCEPT !["remote"] =
                           Append(@, Transaction(time, tids, p[1], p[2]))]
             /\ Skips(skip)
             /\ remote' = [remote EXCEPT !.tick = tick, !.known = n]
  /\ UNCHANGED <<store, base, tail, due, fusion, reader>>

\* DatasetEngine.newClock: the identity is forked at the last public tick
Fork ==
  /\ Happens("fork")
  /\ \/ /\ base < store.gwc["self"].tick
        /\ base' = store.gwc["self"].tick
        /\ UNCHANGED remote
     \/ /\ remote.base < TickAt("remote", Len(hist["remote"]))
        /\ remote' = [remote EXCEPT !.base = TickAt("remote", Len(hist["remote"]))]
        /\ UNCHANGED base
  /\ UNCHANGED <<hist, store, tail, due, fusion, reader>>

\* The last operation of the remote clone came with a snapshot
FromSnapshot == LET tid == store.gwc["remote"].tid
                IN  tid \in DOMAIN store.ops /\ tid \notin DOMAIN store.prevs

\* SuSetDataset.apply of a message which DatasetEngine.acceptRemoteOperation does
\* not ignore and for which no other is missing.  Its operation and its
\* constraint's have a tick each, and there is no constraint.
Receive ==
  /\ \E i, j \in DOMAIN hist["remote"] :
       LET seen == store.gwc["remote"].tick
           op == Fused(SubSeq(hist["remote"], i, j))
       IN  /\ i <= j /\ InARow("remote", i, j)
           /\ seen < op.time.tick /\ TickAt("remote", i - 1) <= seen
           /\ "fused-after-snapshot" \in Adverse \/ i = j \/ ~FromSnapshot
           /\ "fused-after-gap" \in Adverse \/ i = j \/ op.from <= seen + 1
           /\ PutEntry(store, Applicable(store, op), store.time + 1, store.time + 2)
  /\ UNCHANGED <<hist, remote, base, fusion, reader, events>>

-----------------------------------------------------------------------------
(* JournalClerk.ts *)

Index(e) == [key |-> e.key, tid |-> Hash(e.op.time)]

\* new Fusion(first): prev is that of the first, and the operation grows
NewFusion(e) == [prev |-> e.prev, op |-> e.op, last |-> e, removals |-> {Index(e)}]

Appendable(f) ==
  Cardinality(f.op.deletes) + Cardinality(f.op.inserts) <= MaxFootprint

\* Mutant: the fused entry is under the tick of its first.
Commit1(s, f) ==
  IF Cardinality(f.removals) > 1
  THEN Spliced(s, f.removals,
               Entry(Min({r.key : r \in f.removals}), f.prev, f.op))
  ELSE s

\* Fusion.commit: the fused entry is under the tick of its last
FusedEntry(f) == Entry(f.last.key, f.prev, f.op)
Commit(s, f) ==
  IF Cardinality(f.removals) > 1 THEN Spliced(s, f.removals, FusedEntry(f)) ELSE s

\* Fusion.next: whether the entry is appended
Fuses(f, e) == Appendable(f) /\ Contiguous(f.last.op, e.op)

\* JournalClerk.disposePrevOperationIfIsolated, Journal.disposeOperationIfUnreferenced
Disposed(s, e) ==
  LET tick == e.prev[1] tid == e.prev[2]
  IN  IF /\ tick > 0 /\ tick < e.op.time.tick - 1
         /\ tid \notin DOMAIN s.prevs
         /\ \A p \in Proc : s.gwc[p].tid # tid
      THEN [s EXCEPT !.ops = Without(@, {tid})]
      ELSE s

IsEntry(x) == "key" \in DOMAIN x

\* JournalClerk.processEntry
ClerkEntry ==
  /\ tail # <<>> /\ IsEntry(Head(tail))
  /\ LET e == Head(tail) s == Disposed(store, e)
     IN  IF fusion = None
         THEN fusion' = NewFusion(e) /\ store' = s
         ELSE IF Fuses(fusion, e)
         THEN /\ fusion' = [fusion EXCEPT !.op = Fuse(@, e.op), !.last = e,
                                          !.removals = @ \cup {Index(e)}]
              /\ store' = s
         ELSE fusion' = NewFusion(e) /\ store' = Commit(s, fusion)
  /\ tail' = Tail(tail)
  /\ UNCHANGED <<hist, remote, base, due, reader, events>>

\* JournalClerk.checkpoint: the fusion is committed, and may go on if only for
\* administration
ClerkCheckpoint ==
  /\ tail # <<>> /\ ~IsEntry(Head(tail))
  /\ IF fusion = None
     THEN UNCHANGED <<fusion, store>>
     ELSE /\ store' = Commit(store, fusion)
          /\ fusion' = IF Head(tail) = Savepoint \/ ~Appendable(fusion)
                       THEN None
                       ELSE [fusion EXCEPT !.removals = {Index(FusedEntry(fusion))},
                                           !.last = FusedEntry(fusion)]
  /\ tail' = Tail(tail)
  /\ UNCHANGED <<hist, remote, base, due, reader, events>>

\* A while after the last entry, or by request: JournalClerk's checkpoints
Checkpoint(c) ==
  /\ due
  /\ tail' = Append(tail, c)
  /\ due' = FALSE
  /\ UNCHANGED <<hist, remote, store, base, fusion, reader, events>>

\* The clone stops, with no warning, and starts again: the store is what it was
Restart ==
  /\ Happens("restart")
  /\ tail' = <<>>
  /\ due' = FALSE
  /\ fusion' = None
  /\ reader' = None
  /\ UNCHANGED <<hist, remote, store, base>>

\* The operations of p up to the n-th which lead to it without a gap
Run(p, n) == SubSeq(hist[p], Min({i \in 1 .. n : InARow(p, i, n)}), n)

\* SuSetDataset.applySnapshot, of a collaborator that has all our operations: the
\* store is cleared, and has the latest operations, each fused with all that lead to
\* it (JournalState.latestOperations).  Nothing has been read, so that one TID of each
\* triple is written.  No rev-up is being given.
Snapshot ==
  /\ Happens("snapshot") /\ reader = None
  /\ "snapshot-while-fusing" \in Adverse \/ (tail = <<>> /\ fusion = None)
  /\ \E n \in IndexOf("remote", store.gwc["remote"].tick) .. Len(hist["remote"]) :
       LET last == [p \in Proc |-> IF p = "self" THEN Len(hist[p]) ELSE n]
           some == {p \in Proc : last[p] > 0}
           tid == [p \in some |-> Hash(hist[p][last[p]].time)]
           tids == Meaning(UNION {Range1(p, last[p]) : p \in Proc})
       IN  \E kept \in Written(tids, {}) :
           store' = [entries |-> <<>>, prevs |-> <<>>,
                     ops |-> [t \in Range(tid) |-> Fused(Run(t.by, last[t.by]))],
                     gwc |-> [p \in Proc |->
                                IF p \in some
                                THEN [tick |-> TickAt(p, last[p]), tid |-> tid[p]]
                                ELSE [tick |-> 0, tid |-> NoTid]],
                     start |-> store.time, time |-> store.time,
                     tids |-> kept, lost |-> tids \ kept]
  /\ UNCHANGED <<hist, remote, base, tail, due, fusion, reader>>

-----------------------------------------------------------------------------
(* A rev-up: SuSetDataset.operationsSince and its reader *)

\* A peer that has some operations of each process, and what these rest on, asks
\* for those since.  There are none to give if they are from before the journal.
AskRevup ==
  /\ Happens("rev-up") /\ reader = None
  /\ \E n \in 0 .. Len(hist["self"]), m \in 0 .. Len(hist["remote"]) :
       /\ n > 0 => hist["self"][n].time.dep <= TickAt("remote", m)
       /\ m > 0 => hist["remote"][m].time.dep <= TickAt("self", n)
       /\ TickAt("self", n) >= store.start
       /\ \/ "ask-at-start" \in Adverse
          \/ "snapshot" \notin events
          \/ TickAt("self", n) > store.start
       /\ LET since == [p \in Proc |-> TickAt(p, IF p = "self" THEN n ELSE m)]
          IN  reader' = [since |-> since, seen |-> since, at |-> since["self"],
                         tids |-> Meaning(Range1("self", n) \cup Range1("remote", m)),
                         lost |-> {}, disordered |-> FALSE]
  /\ UNCHANGED <<hist, remote, store, base, tail, due, fusion>>

\* The peer cuts what it has seen, as it has it in its own journal
SeenRun(op, seen) ==
  LET last == IndexOf(op.time.by, seen)
      run == {i \in 1 .. last : /\ hist[op.time.by][i].time.tick >= op.from
                                /\ InARow(op.time.by, i, last)}
  IN  [i \in 1 .. Cardinality(run) |-> hist[op.time.by][Min(run) + i - 1]]

\* JournalEntry.asMessage
Prev(e, op) == e.prev[1]

\* The next entry is read, and its message sent if the peer had not all of it.
\* Read by JournalEntry.next, entry by entry, and filtered by operationsSince.
ReadEntry ==
  /\ reader # None /\ After(store, reader.at) # {}
  /\ LET key == Min(After(store, reader.at))
         e == store.entries[key]
         op == store.ops[e.tid]
         by == op.time.by
         sent == \/ reader.since[by] < op.time.tick
                 \/ reader.since[Other(by)] < op.time.dep
         seen == reader.seen[by]
         cut == CutAll(op, SeenRun(op, seen))
         skipped == ~sent \/ op.time.tick <= seen
         early == Prev(e, op) > seen \/ op.time.dep > reader.seen[Other(by)]
     IN  /\ e.tid \in DOMAIN store.ops
         /\ \/ skipped /\ reader' = [reader EXCEPT !.at = key]
            \/ /\ ~skipped /\ early
               /\ reader' = [reader EXCEPT !.at = key, !.disordered = TRUE]
            \/ /\ ~skipped /\ ~early
               /\ \E kept \in Keeps(cut) :
                    reader' = [Takes(reader, cut, kept) EXCEPT
                                 !.at = key, !.seen[by] = op.time.tick]
  /\ UNCHANGED <<hist, remote, store, base, tail, due, fusion, events>>

\* The journal has no more entries
EndRead ==
  /\ reader # None /\ After(store, reader.at) = {}
  /\ reader' = None
  /\ UNCHANGED <<hist, remote, store, base, tail, due, fusion, events>>

Next ==
  \/ Write \/ RemoteWrite \/ Fork \/ Receive
  \/ ClerkEntry \/ ClerkCheckpoint \/ Checkpoint(Admin) \/ Checkpoint(Savepoint)
  \/ Restart \/ Snapshot
  \/ AskRevup \/ ReadEntry \/ EndRead

Spec == Init /\ [][Next]_vars

-----------------------------------------------------------------------------
(* Properties *)

\* The operations of p that the clone has, in order
Has(p) == 1 .. IF p = "self" THEN Len(hist[p]) ELSE IndexOf(p, store.gwc[p].tick)

Tids == DOMAIN store.ops

\* A TID of an entry is a time, keys are local ticks, and the clerk holds back
\* an operation that has been journaled.
TypeOK ==
  /\ \A key \in DOMAIN store.entries : key \in Nat /\ key <= store.time
  /\ \A t \in Tids : t.by \in Proc /\ Hash(store.ops[t].time) = t
  /\ store.start <= store.time
  /\ \A e \in {x \in Range(tail) : IsEntry(x)} : e.key <= store.time
  /\ fusion # None => fusion.last.key <= store.time /\ fusion.removals # {}

\* "Every TID in the GWC except genesis should be represented", and so should each
\* entry's and all that its history leads to: no read of the journal throws "Journal
\* corrupted" (JournalState.latestOperations, Journal.operation).
NeverCorrupted ==
  /\ \A key \in DOMAIN store.entries : store.entries[key].tid \in Tids
  /\ \A p \in Proc : store.gwc[p].tick > 0 => Intact(store, store.gwc[p].tid, 1)

\* What has been fused and cut, in whatever pieces, is what the transactions of its
\* ticks amount to, and no other cause came between these (FusableCausalOperation,
\* Fusion, applicableOperation).
OpsFaithful ==
  \A t \in Tids :
    LET op == store.ops[t]
        run == {i \in DOMAIN hist[t.by] : hist[t.by][i].time.tick \in op.from .. op.time.tick}
        inserts == UNION {hist[t.by][i].inserts : i \in run}
        deletes == UNION {hist[t.by][i].deletes : i \in run}
    IN  /\ op.inserts = inserts \ deletes
        /\ op.deletes = deletes \ inserts
        /\ op.from = TickAt(t.by, Min(run))
        /\ InARow(t.by, Min(run), Max(run))

\* Each operation since the journal's start is in one entry, fused or not
\* (spliceEntries, commitEntry).
EntriesTile ==
  LET Covering(p, i) == {key \in After(store, store.start) :
                           LET op == store.ops[store.entries[key].tid]
                           IN  op.time.by = p
                               /\ hist[p][i].time.tick \in op.from .. op.time.tick}
  IN  \A p \in Proc :
        /\ \A i \in Has(p) : Cardinality(Covering(p, i)) <= 1
        /\ \A i \in Has(p) :
             Covering(p, i) # {} => \A j \in Has(p) : j > i => Covering(p, j) # {}
        /\ p = "self" =>
             \A i \in Has(p) : hist[p][i].time.tick > store.start => Covering(p, i) # {}

\* The data are what the operations that the clone has amount to, though they may
\* have come fused, and overlapping what it had (SuSetDataset.apply, cutSeen).  Only
\* TIDs which TidsStore.commit did not write are missing (README, "Findings").
DataFollows ==
  store.tids =
    Meaning(UNION {{hist[p][i] : i \in Has(p)} : p \in Proc}) \ store.lost

\* The data are all that the operations amount to.
DataComplete ==
  store.tids = Meaning(UNION {{hist[p][i] : i \in Has(p)} : p \in Proc})

\* A peer that is given the entries since its time is never given one for which it
\* is not ready, though entries are fused while it reads (operationsSince, asMessage).
RevupInOrder == reader # None => ~reader.disordered

\* When it has been given the last, it has the operations that the clone has, and
\* their data, but for TIDs which it did not write (operationsSince, TidsStore.commit).
RevupComplete ==
  (reader # None /\ After(store, reader.at) = {}) =>
     /\ \A p \in Proc : \A i \in Has(p) : hist[p][i].time.tick <= reader.seen[p]
     /\ reader.tids =
          Meaning(UNION {Range1(p, IndexOf(p, reader.seen[p])) : p \in Proc})
            \ reader.lost

\* The journal has each operation since its start in one place, and nothing that it
\* leads to is missing, whatever the clerk has fused and disposed of.
JournalWhole == TypeOK /\ EntriesTile /\ NeverCorrupted

\* A rev-up is given in an order that the peer can take, and to the end of what it
\* lacked (operationsSince).
RevupExact == RevupInOrder /\ RevupComplete

=============================================================================
