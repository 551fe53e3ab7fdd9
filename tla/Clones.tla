------------------------------- MODULE Clones -------------------------------
(***************************************************************************)
(* Clones that join a domain while others write: where each one's process  *)
(* identity and clock come from (DatasetEngine.ts, clocks.ts), and the     *)
(* ordering of the operations it receives (messages.ts).                   *)
(*                                                                         *)
(* An operation is its time and the claim it makes about its predecessor;  *)
(* what it does to the data is module SuSet.  Once journalled it is in ops *)
(* for ever, and may reach any clone at any time and any number of times,  *)
(* be it by publication, by rev-up or forwarded by a collaborator.  No     *)
(* constraint adds an operation of its own (SuSet has that too).           *)
(***************************************************************************)
EXTENDS TreeClock
LOCAL INSTANCE SequencesExt
LOCAL INSTANCE FiniteSetsExt
LOCAL INSTANCE Functions

CONSTANTS Clone,
          Genesis0,   \* the clone with the genesis claim
          OneHelper,  \* a newcomer has its clock and its snapshot from one clone
          MaxOps,     \* bound: operations in all
          MaxDepth    \* bound: forks of one line of identities

ASSUME ClonesAssumption ==
  /\ Genesis0 \in Clone
  /\ OneHelper \in BOOLEAN
  /\ MaxOps \in Nat /\ MaxDepth \in Nat

VARIABLES
  phase,    \* of each clone: it has no clock, needs a snapshot, or is live
  time,     \* the local time of its message service
  saved,    \* the local time in its journal
  gwc,      \* the ticks of the global clock in its journal
  applied,  \* the operations that its dataset has, by index
  buffer,   \* its ordering buffer, of indices
  ops,      \* all operations
  offers,   \* new clocks on their way, each with the clone it is from
  helper    \* of each clone, the one its clock is from

vars == <<phase, time, saved, gwc, applied, buffer, ops, offers, helper>>

Live == {c \in Clone : phase[c] = "live"}

Init ==
  /\ phase = [c \in Clone |-> IF c = Genesis0 THEN "live" ELSE "none"]
  /\ time = [c \in Clone |-> Genesis]
  /\ saved = time
  /\ gwc = [c \in Clone |-> Genesis.tree]
  /\ applied = [c \in Clone |-> {}]
  /\ buffer = [c \in Clone |-> <<>>]
  /\ ops = <<>>
  /\ offers = {}
  /\ helper = [c \in Clone |-> c]

-----------------------------------------------------------------------------
(* Joining *)

\* The clock is back-dated to its last public tick before it is forked, and the
\* clone's own half has the internal ticks again.
ForkOf(c) ==
  LET public == TickedTo(time[c], GetTicks(gwc[c], time[c].id))
  IN  [left |-> TickedTo(Forked(public, 0), TicksOf(time[c])),
       right |-> Forked(public, 1)]

\* Mutant: the clone's half of the fork is not saved.
NewClockUnsaved(c) ==
  /\ c \in Live
  /\ Len(time[c].id) < MaxDepth
  /\ time' = [time EXCEPT ![c] = ForkOf(c).left]
  /\ offers' = offers \cup {[clock |-> ForkOf(c).right, from |-> c]}
  /\ UNCHANGED <<phase, saved, gwc, applied, buffer, ops, helper>>

\* DatasetEngine.newClock, for another clone; the reply may never arrive
NewClock(c) ==
  /\ c \in Live
  /\ Len(time[c].id) < MaxDepth
  /\ LET fork == ForkOf(c)
     IN  /\ time' = [time EXCEPT ![c] = fork.left]
         /\ saved' = [saved EXCEPT ![c] = fork.left]
         /\ offers' = offers \cup {[clock |-> fork.right, from |-> c]}
  /\ UNCHANGED <<phase, gwc, applied, buffer, ops, helper>>

\* DatasetEngine.initialise of a clone with no journal
ResetClock(c) ==
  /\ phase[c] = "none"
  /\ \E o \in offers :
       /\ time' = [time EXCEPT ![c] = o.clock]
       /\ saved' = [saved EXCEPT ![c] = o.clock]
       /\ gwc' = [gwc EXCEPT ![c] = Merge(Genesis.tree, o.clock.tree)]
       /\ helper' = [helper EXCEPT ![c] = o.from]
       /\ offers' = offers \ {o}
  /\ phase' = [phase EXCEPT ![c] = "joining"]
  /\ UNCHANGED <<applied, buffer, ops>>

\* DatasetEngine.processSnapshot: the newcomer has what another clone has
Snapshot(c) ==
  /\ phase[c] = "joining"
  /\ \E d \in Live :
       /\ OneHelper => d = helper[c]
       /\ time' = [time EXCEPT ![c] = Update(@, gwc[d])]
       /\ saved' = [saved EXCEPT ![c] = time'[c]]
       /\ gwc' = [gwc EXCEPT ![c] = gwc[d]]
       /\ applied' = [applied EXCEPT ![c] = applied[d]]
  /\ phase' = [phase EXCEPT ![c] = "live"]
  /\ UNCHANGED <<buffer, ops, offers, helper>>

-----------------------------------------------------------------------------
(* Writing *)

\* The previous public tick of this clone, which its operation tells
PrevOf(c) == GetTicks(gwc[c], time[c].id)

\* DatasetEngine.write of something that changes the data
Write(c) ==
  /\ c \in Live
  /\ Len(ops) < MaxOps
  /\ time' = [time EXCEPT ![c] = Ticked(@)]
  /\ saved' = [saved EXCEPT ![c] = time'[c]]
  /\ gwc' = [gwc EXCEPT ![c] = Merge(@, time'[c].tree)]
  /\ ops' = Append(ops, [time |-> time'[c],
                         prev |-> PrevOf(c),
                         past |-> applied[c]])
  /\ applied' = [applied EXCEPT ![c] = @ \cup {Len(ops')}]
  /\ UNCHANGED <<phase, buffer, offers, helper>>

-----------------------------------------------------------------------------
(* Receiving.  The message service works on a record of the local time, the *)
(* ordering buffer, and the operations taken so far, each with the local    *)
(* time at which it is to be applied.                                       *)

\* MessageService.readyFor: we lack no tick that the sender has of a third clone
ReadyFor(t, i) == ~ AnyNonIdLt(t, ops[i].time)

Seen(t, i) == GetTicks(t.tree, ops[i].time.id)

\* "Already had this message."
Outdated(t, i) == TicksOf(ops[i].time) <= Seen(t, i)

\* Mutant: the predecessor is not checked.
NeverOutOfOrder(t, i) == FALSE

\* "We're missing a message."
OutOfOrder(t, i) == ~ Outdated(t, i) /\ ops[i].prev > Seen(t, i)

\* Mutant: the clock is read after it has joined the operation's.
DeliverJoined(s, i) ==
  LET joined == Update(s.time, ops[i].time.tree)
  IN  IF OutOfOrder(joined, i) THEN [s EXCEPT !.time = joined, !.failed = TRUE]
      ELSE IF Outdated(joined, i) THEN [s EXCEPT !.time = joined]
      ELSE [s EXCEPT !.time = Ticked(Ticked(joined)),
                     !.taken = Append(@, [op |-> i, time |-> Ticked(joined)])]

\* MessageService.deliver and the process of acceptRemoteOperation.  A clock is
\* ticked once for the operation, once for a constraint.
Deliver(s, i) ==
  LET joined == Update(s.time, ops[i].time.tree)
  IN  IF OutOfOrder(s.time, i) THEN [s EXCEPT !.time = joined, !.failed = TRUE]
      ELSE IF Outdated(s.time, i) THEN [s EXCEPT !.time = joined]
      ELSE [s EXCEPT !.time = Ticked(Ticked(joined)),
                     !.taken = Append(@, [op |-> i, time |-> Ticked(joined)])]

\* MessageService.reconsider, once: the first in the buffer that is ready
Reconsider(s) ==
  LET ready == {k \in DOMAIN s.buffer : ReadyFor(s.time, s.buffer[k])}
      k == Min(ready)
  IN  IF s.failed \/ ready = {} THEN s
      ELSE Deliver([s EXCEPT !.buffer = RemoveAt(@, k)], s.buffer[k])

\* MessageService.receive
Received(c, i) ==
  LET start == [time |-> time[c], buffer |-> buffer[c], taken |-> <<>>, failed |-> FALSE]
  IN  IF ReadyFor(time[c], i)
      THEN FoldLeft(LAMBDA s, k : Reconsider(s), Deliver(start, i), buffer[c])
      ELSE [start EXCEPT !.buffer = Append(@, i)]

\* Mutant: the clock is not reset if there is an operation out of order.
AcceptedNotReset(c, i) ==
  LET s == Received(c, i)
  IN  IF s.failed THEN [s EXCEPT !.buffer = <<>>, !.taken = <<>>] ELSE s

\* Any operation out of order undoes the lot: the clock is reset, and the
\* ordering buffer is discarded with the connection.
Accepted(c, i) ==
  LET s == Received(c, i)
  IN  IF s.failed THEN [s EXCEPT !.time = time[c], !.buffer = <<>>, !.taken = <<>>] ELSE s

\* The entries in the journal, from a global clock g (EntryBuilder.next)
Journalled(g, taken) == FoldLeft(LAMBDA h, x : Merge(h, ops[x.op].time.tree), g, taken)

\* DatasetEngine.acceptRemoteOperation, and the transactions that apply what it takes
Receive(c, i) ==
  /\ c \in Live
  /\ i \in DOMAIN ops \ Range(buffer[c])  \* bound: buffered once
  /\ LET s == Accepted(c, i)
     IN  /\ time' = [time EXCEPT ![c] = s.time]
         /\ buffer' = [buffer EXCEPT ![c] = s.buffer]
         /\ saved' = [saved EXCEPT ![c] =
                        IF s.taken = <<>> THEN @ ELSE Last(s.taken).time]
         /\ gwc' = [gwc EXCEPT ![c] = Journalled(@, s.taken)]
         /\ applied' = [applied EXCEPT ![c] = @ \cup {x.op : x \in Range(s.taken)}]
  /\ UNCHANGED <<phase, ops, offers, helper>>

\* Chronic buffering: the clone re-connects
Discard(c) ==
  /\ buffer[c] # <<>>
  /\ buffer' = [buffer EXCEPT ![c] = <<>>]
  /\ UNCHANGED <<phase, time, saved, gwc, applied, ops, offers, helper>>

\* The process stops, and starts again from its journal
Restart(c) ==
  /\ c \in Live
  /\ time' = [time EXCEPT ![c] = saved[c]]
  /\ buffer' = [buffer EXCEPT ![c] = <<>>]
  /\ UNCHANGED <<phase, saved, gwc, applied, ops, offers, helper>>

Next ==
  \E c \in Clone :
    \/ NewClock(c) \/ ResetClock(c) \/ Snapshot(c)
    \/ Write(c) \/ Discard(c) \/ Restart(c)
    \/ \E i \in DOMAIN ops : Receive(c, i)

Spec == Init /\ [][Next]_vars

-----------------------------------------------------------------------------
(* Properties *)

Members == {c \in Clone : phase[c] # "none"}

\* Every clock in the domain is a tree, of which the identity is a leaf.
TypeOK ==
  \A clock \in {time[c] : c \in Members} \cup {saved[c] : c \in Members}
                 \cup {o.clock : o \in offers} \cup {ops[i].time : i \in DOMAIN ops} :
    /\ clock.id \in DOMAIN clock.tree
    /\ ~ IsFork(clock.tree, clock.id)
    /\ \A p \in DOMAIN clock.tree : p = <<>> \/ Children(Front(p)) \subseteq DOMAIN clock.tree

\* No process identity is that of another, nor the parent of it: not those in use
\* in memory, in a journal to be restarted from, or on their way to a newcomer
\* (newClock in DatasetEngine.ts).
IdentitiesDisjoint ==
  LET holders == {<<c, time[c].id>> : c \in Members} \cup {<<c, saved[c].id>> : c \in Members}
                   \cup {<<o, o.clock.id>> : o \in offers}
  IN  \A x, y \in holders : x[1] # y[1] => ~ IsPrefix(x[2], y[2])

\* An operation that a clone will ignore as outdated is one that its dataset has
\* (acceptRemoteOperation, "Already had this message").
IgnoredWasHad ==
  \A c \in Live : \A i \in DOMAIN ops : Outdated(time[c], i) => i \in applied[c]

\* A dataset that has an operation has all that its author's had: no fork, buffer,
\* restart or snapshot lets an effect overtake its cause.
CausalDelivery ==
  \A c \in Live : \A i \in applied[c] : ops[i].past \subseteq applied[c]

\* A clone that lacks operations always can take one of those: none of them waits
\* for one that waits for it, nor claims a predecessor that there is not.
NeverStuck ==
  \A c \in Live : applied[c] # DOMAIN ops =>
    \E i \in DOMAIN ops \ applied[c] :
      ReadyFor(time[c], i) /\ ~ Outdated(time[c], i) /\ ~ OutOfOrder(time[c], i)

\* The hash of an operation's time, which identifies it as a transaction, is that
\* of no other operation (TreeClock.hash).
UniqueTids ==
  Cardinality({Hash(ops[i].time) : i \in DOMAIN ops}) = Len(ops)

\* The global clock in the journal has the ticks of just the operations that the
\* dataset has, so that rev-ups are of those it lacks (operationsSince).
JournalTellsApplied ==
  \A c \in Live : \A i \in DOMAIN ops :
    i \in applied[c] <=> TicksOf(ops[i].time) <= GetTicks(gwc[c], ops[i].time.id)

\* No clock is updated from one that has forked its identity, nor is the global
\* clock, which would close the clone (update in clocks.ts).
NeverThrows ==
  \A c \in Live : \A i \in DOMAIN ops :
    /\ ~ Overlaps(time[c], ops[i].time.tree)
    /\ i \notin applied[c] => ~ InFuture(gwc[c], ops[i].time)

\* No process identity is ever in use twice, so that no operation is taken for
\* another's and no clock throws on a clash of identities (forked, update).
IdentitiesUnique == TypeOK /\ IdentitiesDisjoint /\ UniqueTids /\ NeverThrows

\* What a clone ignores it has, and what it has came after its causes: its clock
\* tells the truth of its dataset (acceptRemoteOperation).
ClockTellsDataset == IgnoredWasHad /\ CausalDelivery

=============================================================================
