-------------------------------- MODULE Lists --------------------------------
(***************************************************************************)
(* A list which two clones edit (DefaultList.ts, LseqIndexRewriter).  The  *)
(* list's triples relate a position to a slot and are shared like any      *)
(* other; every clone keeps for itself the index of each slot, entailed    *)
(* from the positions.  Items are asked for by index; the constraint makes *)
(* positions for them, and rewrites the indexes after every transaction,   *)
(* its own or another clone's.                                             *)
(***************************************************************************)
EXTENDS Lseq, FiniteSets
LOCAL INSTANCE SequencesExt
LOCAL INSTANCE FiniteSetsExt
LOCAL INSTANCE Functions

CONSTANTS MaxEdits,     \* bound: transactions of the two clones
          MaxInFlight,  \* bound: operations on their way to one clone
          MaxLength,    \* bound: items of a list that is added to
          Adverse       \* which of the circumstances below may come about

\* Circumstances in which the code is known to go wrong (README, "Findings"): an item
\* goes before one at a zero place of a site with an earlier name; an item is replaced
\* at its own index; a new item gets the position of one deleted with it; the loop at a
\* receiver ends before it has come to an insert; a slot that was moved is moved
\* towards the end; and an update both inserts and changes the next.
Circumstances == {"prepended-elsewhere", "replaced", "position-reused", "queue-left",
                  "moved-back", "mixed-update"}

ASSUME ListsAssumption ==
  {MaxEdits, MaxInFlight, MaxLength} \subseteq Nat /\ Adverse \subseteq Circumstances

Clone == {1, 2}   \* in the order of their sites

VARIABLES list,     \* per clone, the list's triples with their TIDs: [pos, slot, tid]
          index,    \* per clone, the pairs of a slot and its index
          channel,  \* per clone, the operations that come from the other
          edits,    \* per clone, its transactions so far
          slots,    \* the slots that have been made
          gone,     \* the slots that have been deleted by a user
          asked,    \* the list that the last transaction was to leave, if it was a user's
          view      \* per clone, the items as an app has them that applies every update

vars == <<list, index, channel, edits, slots, gone, asked, view>>

Other(c) == 3 - c

PairsOf(entries) == {<<e.pos, e.slot>> : e \in entries}

-----------------------------------------------------------------------------
(* The rewriter of one list, in one transaction *)

\* loadRelevantSlots: the slots with a position and an index, a sparse array
Indexed(entries, indexes) ==
  LET pair(i) == CHOOSE p \in PairsOf(entries) : <<p[2], i>> \in indexes
      mine == {x[2] : x \in {y \in indexes : \E e \in entries : e.slot = y[1]}}
  IN  [i \in mine |-> [pos |-> pair(i)[1], slot |-> pair(i)[2], index |-> i]]

Existing(c) == Indexed(list[c], index[c])

\* What is asked of it: positions that are deleted, slots at known positions in
\* their order, and slots to insert at an index
Rewriter(deletes, posIdInserts, at, values) ==
  [deletes |-> deletes, queue |-> Sorted(posIdInserts, LAMBDA p, q : Before(p[1], q[1])),
   at |-> at, values |-> values]

AtNoIndex == -1

NoBatch == [start |-> AtNoIndex, values |-> <<>>, old |-> AtNoIndex]

\* A notification of the rewriter: the index, and for an insert the old index before
\* which it goes
Note(what, slot, pos, i, old) ==
  [what |-> what, slot |-> slot, pos |-> pos, index |-> i, old |-> old]

\* IndexInsertBatch.flush: as many values as there are positions
Flushed(s, made) ==
  [s EXCEPT !.pos = IF made = <<>> THEN @ ELSE Last(made),
            !.batch = NoBatch,
            !.notes = @ \o [i \in DOMAIN made |->
              Note("inserted", s.batch.values[i], made[i], s.batch.start + i - 1, s.batch.old)]]

Flush(s, upper, site) ==
  IF s.batch = NoBatch THEN s
  ELSE Flushed(s, Between(s.pos, upper, site, Len(s.batch.values)))

\* Mutant: the index is that of the item to insert after.
DueAfter(s, rw) == IF s.index = rw.at + 1 THEN rw.values ELSE <<>>

Due(s, rw) == IF s.index = rw.at THEN rw.values ELSE <<>>

\* The inserts before the upper position, and those at this index
Prepared(s, upper, length, rw) ==
  LET due == Len(SelectSeq(s.queue, LAMBDA p : Before(p[1], upper)))
      queued == [i \in 1 .. due |->
                   Note("inserted", s.queue[i][2], s.queue[i][1], s.newIndex + i - 1, s.index)]
      new == Due(s, rw)
  IN  [s EXCEPT !.prev = s.pos,
                !.pos = IF due = 0 THEN @ ELSE s.queue[due][1],
                !.queue = SubSeq(@, due + 1, Len(@)),
                !.newIndex = @ + due + Len(new),
                !.batch = IF new = <<>> THEN @
                          ELSE [start |-> s.newIndex + due, values |-> new,
                                old |-> Min({s.index, length})],
                !.notes = @ \o queued]

\* The item that was at this index, which may have another now
Stays(s, item) ==
  [s EXCEPT !.pos = item.pos, !.newIndex = @ + 1,
            !.notes = IF s.newIndex = s.index THEN @
                      ELSE Append(@, Note("reindexed", item.slot, item.pos, s.newIndex, s.index))]

Passed(s, item, rw, site) ==
  IF item.pos \in rw.deletes
  THEN [s EXCEPT !.notes = Append(@, Note("deleted", item.slot, item.pos, s.index, s.index))]
  ELSE Stays(Flush(s, item.pos, site), item)

\* rewriteIndexes, from the state s of its loop.  The loop stops when the last round
\* left the position as it was, and there is nothing to insert and nothing to move.
RECURSIVE Rewritten(_, _, _, _)
Rewritten(s, existing, rw, site) ==
  LET length == IF existing = <<>> THEN 0 ELSE Max(DOMAIN existing) + 1
      exists == s.index \in DOMAIN existing
      upper == IF exists THEN existing[s.index].pos ELSE MaxPos
      prepared == Prepared(s, upper, length, rw)
      next == IF exists THEN Passed(prepared, existing[s.index], rw, site) ELSE prepared
  IN  IF s.index <= rw.at \/ s.pos # s.prev \/ (s.index < length /\ s.index # s.newIndex)
      THEN Rewritten([next EXCEPT !.index = @ + 1], existing, rw, site)
      ELSE Range(Flush(s, MaxPos, site).notes)

RewriteIndexes(existing, rw, site) ==
  LET first == IF existing = <<>> THEN 0 ELSE Min(DOMAIN existing)
  IN  Rewritten([index |-> first, newIndex |-> first, pos |-> MinPos, prev |-> <<>>,
                 queue |-> rw.queue, batch |-> NoBatch, notes |-> <<>>], existing, rw, site)

\* doRewrite: what the notifications entail.  moving has the slots that are deleted
\* at one position and inserted at another.
Entailed(c, existing, notes, moving) ==
  LET old(slot) == {<<r.slot, r.index>> : r \in {q \in Range(existing) : q.slot = slot}}
      lost == UNION {old(n.slot) : n \in {m \in notes : m.what # "deleted" \/ m.slot \notin moving}}
      new == {<<n.slot, n.index>> : n \in {m \in notes : m.what # "deleted"}}
  IN  (index[c] \ lost) \cup new

\* The list as it is shown, in the order of its indexes
InOrderOfIndex(rows) ==
  LET order == Sorted(DOMAIN rows, <)
  IN  [i \in DOMAIN order |-> rows[order[i]].slot]

Shown(c) == InOrderOfIndex(Existing(c))

\* What a user asks for: the items without the deleted one, and the new ones before
\* the one that had the index
AsAsked(shown, deleted, at, values) ==
  LET before == IF at > Len(shown) THEN Len(shown) ELSE IF at = AtNoIndex THEN 0 ELSE at
      kept(s) == SelectSeq(s, LAMBDA slot : slot \notin {r.slot : r \in deleted})
  IN  kept(SubSeq(shown, 1, before)) \o values \o kept(SubSeq(shown, before + 1, Len(shown)))

-----------------------------------------------------------------------------
(* What an app makes of the update: SubjectUpdater.updateListIndexes *)

\* The old indexes of deleted items, and for an old index the items inserted there
ListUpdate(notes, kept) ==
  LET inserts == {n \in notes : n.what = "inserted"}
      at(i) == Sorted({n \in inserts : n.old = i}, LAMBDA n, m : n.index < m.index)
  IN  [deletes |-> {n.index : n \in {m \in notes : m.what = "deleted" /\ <<m.pos, m.slot>> \notin kept}},
       inserts |-> [i \in {n.old : n \in inserts} |-> [k \in DOMAIN at(i) |-> at(i)[k].slot]]]

\* Neighbouring indexes that the update has, from each first one up
RunFrom(indexes, first) == {i \in indexes : i >= first /\ first .. i \subseteq indexes}

\* Mutant: from the start of the list, where the indexes after a splice are no more.
FirstsUp(indexes) == Sorted({i \in indexes : i - 1 \notin indexes}, <)

Firsts(indexes) == Sorted({i \in indexes : i - 1 \notin indexes}, >)

\* One splice for each run of neighbours, from the end of the list
Spliced(items, update) ==
  LET indexes == update.deletes \cup DOMAIN update.inserts
      splice(seq, first) ==
        LET run == RunFrom(indexes, first)
            new == FlattenSeq([k \in 1 .. Cardinality(run) |->
                     IF first + k - 1 \in DOMAIN update.inserts
                     THEN update.inserts[first + k - 1] ELSE <<>>])
            rest == first + Cardinality(run \cap update.deletes) + 1
        IN  SubSeq(seq, 1, Min({first, Len(seq)})) \o new \o SubSeq(seq, rest, Len(seq))
  IN  FoldLeft(splice, items, Firsts(indexes))

\* Something is inserted before an item that stays, and the item after that changes too
Mixed(update) ==
  \E i \in DOMAIN update.inserts \ update.deletes :
    i + 1 \in update.deletes \cup DOMAIN update.inserts

\* The app applies the update; or else, if it is mixed, it reads the list again
Viewed(c, update, rows) ==
  IF Mixed(update) /\ "mixed-update" \notin Adverse THEN InOrderOfIndex(rows)
  ELSE Spliced(view[c], update)

-----------------------------------------------------------------------------
(* Transactions *)

NotAsked == [by |-> 0, list |-> <<>>]

Init ==
  /\ list = [c \in Clone |-> {}]
  /\ index = [c \in Clone |-> {}]
  /\ channel = [c \in Clone |-> <<>>]
  /\ edits = [c \in Clone |-> 0]
  /\ slots = {}
  /\ gone = {}
  /\ asked = NotAsked
  /\ view = [c \in Clone |-> <<>>]

\* The identity of a transaction of the clone
Tid(c) == <<c, edits[c]>>

Operation(inserts, deletes) == [inserts |-> inserts, deletes |-> deletes]

\* The positions between which an item at the index goes
Lower(existing, deleted, at) ==
  LET before == {i \in DOMAIN existing : i < at /\ existing[i] \notin deleted}
  IN  IF before = {} THEN MinPos ELSE existing[Max(before)].pos

Upper(existing, deleted, at) ==
  LET after == {i \in DOMAIN existing : i >= at /\ existing[i] \notin deleted}
  IN  IF after = {} THEN MaxPos ELSE existing[Min(after)].pos

\* Lower, filled up as cloneWith does, leads to the upper position but for a zero place,
\* which there is of an earlier site than ours
PrependedElsewhere(lower, upper, site) ==
  LET filled(l) == IF SiteAt(lower, l) = NoSite THEN site ELSE SiteAt(lower, l)
  IN  \E l \in DOMAIN upper :
        /\ \A k \in 1 .. l - 1 : At(lower, k) = upper[k].pos /\ filled(k) = upper[k].site
        /\ At(lower, l) = 0 /\ SiteAt(lower, l) = NoSite
        /\ upper[l].pos = 0 /\ upper[l].site < site

ReplacedInPlace(existing, deleted, at) ==
  \E r \in deleted : r.index = at /\ at + 1 \in DOMAIN existing

\* The circumstances of a transaction which are not in Adverse do not come about
Permitted(existing, deleted, at, inserted, site) ==
  /\ "prepended-elsewhere" \in Adverse \/ at = AtNoIndex
     \/ ~ PrependedElsewhere(Lower(existing, deleted, at), Upper(existing, deleted, at), site)
  /\ "replaced" \in Adverse \/ ~ ReplacedInPlace(existing, deleted, at)
  /\ "position-reused" \in Adverse \/ {e.pos : e \in inserted} \cap {r.pos : r \in deleted} = {}

\* A transaction of the clone's own, checked: items deleted, and the values to insert
\* at an index get their positions.  del(a), ins(a) = ins(a).
Transact(c, deleted, at, values) ==
  LET existing == Existing(c)
      rw == Rewriter({r.pos : r \in deleted}, {}, at, values)
      notes == RewriteIndexes(existing, rw, c)
      removed == {e \in list[c] : \E r \in deleted : e.pos = r.pos /\ e.slot = r.slot}
      inserted == {[pos |-> n.pos, slot |-> n.slot, tid |-> Tid(c)] :
                     n \in {m \in notes : m.what = "inserted"}}
      kept == {e \in removed : <<e.pos, e.slot>> \in PairsOf(inserted)}
  IN  /\ edits[1] + edits[2] < MaxEdits /\ Len(channel[Other(c)]) < MaxInFlight
      /\ Permitted(existing, deleted, at, inserted, c)
      /\ list' = [list EXCEPT ![c] = (@ \ (removed \ kept)) \cup inserted]
      /\ index' = [index EXCEPT ![c] = Entailed(c, existing, notes, Range(values))]
      /\ channel' = [channel EXCEPT ![Other(c)] = Append(@, Operation(inserted, removed \ kept))]
      /\ edits' = [edits EXCEPT ![c] = @ + 1]
      /\ view' = [view EXCEPT ![c] = Viewed(c, ListUpdate(notes, PairsOf(kept)), Existing(c)')]
      /\ asked' = [by |-> c, list |-> AsAsked(Shown(c), deleted, at, values)]

Slot(c, n) == [made |-> Tid(c), n |-> n]

\* Up to two new items at an index, or beyond the end
Insert(c, at, count) ==
  /\ Cardinality(PairsOf(list[c])) + count <= MaxLength
  /\ Transact(c, {}, at, [n \in 1 .. count |-> Slot(c, n)])
  /\ slots' = slots \cup {Slot(c, n) : n \in 1 .. count}
  /\ UNCHANGED gone

Delete(c, item) ==
  /\ Transact(c, {item}, AtNoIndex, <<>>)
  /\ gone' = gone \cup {item.slot}
  /\ UNCHANGED slots

\* The item in one transaction with another, at an index
Replace(c, item, at) ==
  /\ Transact(c, {item}, at, <<Slot(c, 1)>>)
  /\ slots' = slots \cup {Slot(c, 1)}
  /\ gone' = gone \cup {item.slot}

\* The item has another position than the slot was made with
WasMoved(c, item) ==
  \E e \in list[c] : e.pos = item.pos /\ e.slot = item.slot /\ e.tid # e.slot.made

\* The same slot, at an index
Move(c, item, at) ==
  /\ "moved-back" \in Adverse \/ at <= item.index + 1 \/ ~ WasMoved(c, item)
  /\ Transact(c, {item}, at, <<item.slot>>)
  /\ UNCHANGED <<slots, gone>>

\* Mutant: of the two positions of a slot, the one that came stays.
LosersLatest(existing, deletes, inserts) ==
  UNION {{<<r.pos, p[2]>> : r \in {q \in Range(existing) :
             q.slot = p[2] /\ q.pos \notin deletes /\ q.pos # p[1]}} : p \in inserts}

\* preProcess: a slot that has a position gets another, and keeps the lower
Losers(existing, deletes, inserts) ==
  UNION {{<<IF Before(r.pos, p[1]) THEN p[1] ELSE r.pos, p[2]>> :
             r \in {q \in Range(existing) :
                      q.slot = p[2] /\ q.pos \notin deletes /\ q.pos # p[1]}} : p \in inserts}

\* addItemIfPosId: the items with a position in an operation, but for those that
\* preProcess or addDelete leave out
Arrived(existing, inserts, out) ==
  {p \in inserts : p[1] \notin out
     /\ ~ \E r \in Range(existing) : r.pos = p[1] /\ r.slot = p[2]}

\* The last item goes, and others come after it: the loop ends before it has come to them
EndReplaced(existing, out, arrived) ==
  existing # <<>> /\ LET last == existing[Max(DOMAIN existing)].pos
                     IN  last \in out /\ \E p \in arrived : Before(last, p[1])

\* An operation of the other clone.  The constraint's deletions of redundant
\* positions are an operation of its own, which is published.
Receive(c) ==
  /\ channel[c] # <<>>
  /\ LET op == Head(channel[c])
         existing == Existing(c)
         left == list[c] \ op.deletes
         inserts == PairsOf(op.inserts)
         dropped == {p \in PairsOf(list[c] \cap op.deletes) : p \notin PairsOf(left) \cup inserts}
         deletes == {p[1] : p \in dropped}
         losers == Losers(existing, deletes, inserts)
         out == deletes \cup {p[1] : p \in losers}
         arrived == Arrived(existing, inserts, out)
         rw == Rewriter(out, arrived, AtNoIndex, <<>>)
         notes == RewriteIndexes(existing, rw, c)
         redundant == {e \in left \cup op.inserts : <<e.pos, e.slot>> \in losers}
     IN  /\ "queue-left" \in Adverse \/ ~ EndReplaced(existing, out, arrived)
         /\ list' = [list EXCEPT ![c] = (left \cup op.inserts) \ redundant]
         /\ index' = [index EXCEPT ![c] =
                        Entailed(c, existing, notes, {p[2] : p \in inserts})]
         /\ channel' = [channel EXCEPT ![c] = Tail(@),
                          ![Other(c)] = IF redundant = {} THEN @
                                        ELSE Append(@, Operation({}, redundant))]
         /\ view' = [view EXCEPT ![c] = Viewed(c, ListUpdate(notes, {}), Existing(c)')]
  /\ asked' = NotAsked
  /\ UNCHANGED <<edits, slots, gone>>

Items(c) == Range(Existing(c))

\* The indexes of a list, and its end
Indexes(c) == 0 .. Min({Cardinality(Items(c)), MaxLength})

Next ==
  \E c \in Clone :
    \/ \E at \in Indexes(c) \cup {MaxLength}, n \in 1 .. 2 : Insert(c, at, n)
    \/ \E item \in Items(c) : Delete(c, item)
    \/ \E item \in Items(c), at \in Indexes(c) : Replace(c, item, at)
    \/ \E item \in Items(c), at \in Indexes(c) : Move(c, item, at)
    \/ Receive(c)

Spec == Init /\ [][Next]_vars

-----------------------------------------------------------------------------
(* Properties *)

TypeOK ==
  /\ \A c \in Clone :
       /\ \A e \in list[c] : e.slot \in slots /\ e.tid \in Clone \X (0 .. MaxEdits)
                             /\ \A l \in DOMAIN e.pos : e.pos[l].site \in Clone
       /\ \A x \in index[c] : x[1] \in slots /\ x[2] \in Nat
  /\ edits \in [Clone -> 0 .. MaxEdits]
  /\ gone \subseteq slots

\* The index of every item is its place in the order of the positions, in every
\* clone after every transaction; and no slot is twice in a list.
IndexesFollowPositions ==
  \A c \in Clone :
    LET pairs == PairsOf(list[c])
    IN  /\ index[c] = {<<p[2], Cardinality({q \in pairs : Before(q[1], p[1])})>> : p \in pairs}
        /\ Cardinality({p[2] : p \in pairs}) = Cardinality(pairs)

\* When each clone has the other's operations they have the same list, and it has every
\* item that no user has deleted: a slot that is moved by two clones at once is not
\* lost between its positions.
NothingVanishes ==
  (\A c \in Clone : channel[c] = <<>>) =>
    /\ PairsOf(list[1]) = PairsOf(list[2]) /\ index[1] = index[2]
    /\ slots \ gone \subseteq {e.slot : e \in list[1]}

\* A transaction leaves its own clone's list as the user asked for.
ShownAsAsked == asked.by \in Clone => Shown(asked.by) = asked.list

\* An app that applies every update to its own copy of the list has the list.
ViewFollows == \A c \in Clone : view[c] = Shown(c)

\* Lists are of slots at positions, and indexes follow these.
ListsSound == TypeOK /\ IndexesFollowPositions

=============================================================================
