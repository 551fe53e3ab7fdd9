------------------------------ MODULE Recovery ------------------------------
(***************************************************************************)
(* How a clone that was away gets back on track (DatasetEngine.ts,         *)
(* RemoteOperations.ts, and the sources of util.ts and AbstractMeld.ts):   *)
(* "me" decides whether it is live, asks the collaborator "b" for what it  *)
(* has missed, re-emits what b has missed, and meanwhile takes, holds back *)
(* or ignores what is published by b and by a third clone, "c".            *)
(*                                                                         *)
(* An operation is its writer and its place among the writer's, and a time *)
(* is how many operations of each writer it covers: ticks, and how they    *)
(* are compared, are in modules Clones and TreeClock, fused operations and *)
(* cuts in Journal.                                                        *)
(*                                                                         *)
(* Circumstances in which the code does not keep its promises happen only  *)
(* if they are in Adverse.  Each is described in the README, "Findings".   *)
(***************************************************************************)
EXTENDS Naturals, Sequences, SequencesExt, FiniteSetsExt

CONSTANTS MaxOps,   \* bound: operations of each writer
          MaxTotal, \* bound: operations in all
          MaxEvents,\* bound: times that the remotes come or go, a request or a
                    \* recovery fails, or the process stops
          Adverse

Writer == {"me", "b", "c"}

Circumstances == {"before-attach", "collaborator-lags", "write-unconnected",
                  "snapshot-behind", "snapshot-fails", "late-delivery",
                  "crash-while-applying", "crash-when-new"}

ASSUME RecoveryAssumption ==
  /\ MaxOps \in [Writer -> Nat] /\ MaxOps["b"] > 0
  /\ MaxTotal \in Nat /\ MaxEvents \in Nat
  /\ Adverse \subseteq Circumstances

Zero == [p \in Writer |-> 0]
Join(s, t) == [p \in Writer |-> IF s[p] < t[p] THEN t[p] ELSE s[p]]
AtMost(s, t) == \A p \in Writer : s[p] <= t[p]

Covered(t) == UNION {{[p |-> p, n |-> n] : n \in 1..t[p]} : p \in Writer}

NoAnswer == [kind |-> "none", gwc |-> Zero, data |-> {}, updates |-> <<>>]
NotServing == [open |-> FALSE, at |-> Zero, ticked |-> FALSE, forward |-> <<>>]

VARIABLES
  log,      \* of each writer, the time that each of its operations had seen
  \* The collaborator
  bJournal, \* its operations, in order
  bTicked,  \* its last tick is an internal one, which no one else has seen
  serving,  \* the recovery that it is sending: its time, and what to forward
  \* The network
  toMe,     \* publications on their way to me, of each writer
  toB,      \* publications on their way to b: of me, and of c
  remote,   \* liveness of the remotes: TRUE, or FALSE for null, gone
  \* The database of me
  data,     \* operations that the data shows
  journal,  \* operations of the journal, in order
  start,    \* own operations that the journal does not go back to
  disk,     \* the saved local time
  \* The process of me
  time,     \* local time of the message service
  newClone,
  buffer,   \* ordering buffer, of messages
  queue,    \* received messages, to be accepted one by one
  taking,   \* the message whose turn it is, if any, in a sequence
  source,   \* where messages are received from: "never", "revups", "live"
  revups,   \* recovery updates that are still to come
  held,     \* publications held back until the rev-ups are through
  outdated,
  opps,     \* opportunities to decide liveness that are not yet taken up
  retries,  \* attempts to be made again, at once or after a delay
  attempt,  \* how far the attempt is that has the live lock
  answer,   \* the recovery that it was given
  out,      \* operations that wait for the pause of output to end
  \* Bookkeeping
  events,   \* comings and goings, failures and crashes so far
  told,     \* the global clock of the recovery that was attached last
  bMissed   \* b was sent an operation of me without the one before

collaborator == <<bJournal, bTicked, serving, bMissed>>
network == <<toMe, toB, remote>>
database == <<data, journal, start, disk>>
receiving == <<queue, taking, source, revups, held>>
deciding == <<opps, retries, attempt, answer, told>>
vars == <<log, collaborator, network, database, time, newClone, buffer,
          receiving, outdated, deciding, out, events>>

-----------------------------------------------------------------------------
(* The journals *)

\* How many operations of each writer there are in a journal
TimeOf(j) ==
  [p \in Writer |-> Max({0} \cup {j[i].n : i \in {k \in DOMAIN j : j[k].p = p}})]

BHas == TimeOf(bJournal)

CanWrite(p) ==
  /\ Len(log[p]) < MaxOps[p]
  /\ Len(log["me"]) + Len(log["b"]) + Len(log["c"]) < MaxTotal

\* What the author of an operation had seen
SeenBy(op) == log[op.p][op.n]

\* SuSetDataset.operationsSince, when the journal goes back as far
Since(j, t) ==
  LET first[i \in 0 .. Len(j)] ==
        IF i = 0 THEN <<>>
        ELSE IF j[i].n > t[j[i].p] THEN Append(first[i - 1], j[i]) ELSE first[i - 1]
  IN  first[Len(j)]

-----------------------------------------------------------------------------
(* Received messages have a mark: "last" if theirs is the last rev-up so    *)
(* far, "due" if the clone is not outdated any more when they are delivered *)

Message(op, mark) == [op |-> op, mark |-> mark]
Live(ops) == [i \in DOMAIN ops |-> Message(ops[i], "none")]

\* The sequence with another mark for those of one
Remark(msgs, from, to) ==
  [i \in DOMAIN msgs |-> IF msgs[i].mark = from THEN [msgs[i] EXCEPT !.mark = to]
                                               ELSE msgs[i]]

\* MessageService.readyFor: the receiver has all that the author had of others
ReadyFor(t, op) == \A p \in Writer \ {op.p} : SeenBy(op)[p] <= t[p]

\* DatasetEngine.acceptRemoteOperation, without its effects: the message is ignored,
\* or is disordered, or is applied
Deliver(r, msg) ==
  LET op == msg.op
      seen == r.time[op.p]
  IN  IF op.n - 1 > seen THEN [r EXCEPT !.disordered = TRUE]
      ELSE [r EXCEPT !.time[op.p] = IF seen < op.n THEN op.n ELSE seen,
                     !.applied = IF op.n <= seen THEN @ ELSE Append(@, op),
                     !.due = @ \/ msg.mark = "due"]

\* MessageService.reconsider, once: the first in the buffer that is ready
Reconsider(r) ==
  LET ready == {i \in DOMAIN r.buffer : ReadyFor(r.time, r.buffer[i].op)}
  IN  IF r.disordered \/ ready = {} THEN r
      ELSE Deliver([r EXCEPT !.buffer = RemoveAt(@, Min(ready))], r.buffer[Min(ready)])

\* The message, and then those in the buffer that it was waited for
Accepted(msg) ==
  LET asIs == [time |-> time, buffer |-> buffer, applied |-> <<>>,
               due |-> FALSE, disordered |-> FALSE]
      after[k \in 0 .. Len(buffer)] ==
        IF k = 0 THEN Deliver(asIs, msg) ELSE Reconsider(after[k - 1])
  IN  after[Len(buffer)]

-----------------------------------------------------------------------------
(* Output and attention *)

\* DatasetEngine.decideLive pauses output until the attempt has ended.
Paused == opps > 0 \/ attempt # "idle"

\* Publications reach the collaborator if the remotes are there.
Published(ops) ==
  toB' = IF remote THEN [toB EXCEPT !.me = @ \o ops] ELSE toB

\* The decision on an opportunity is begun: this replaces any pause there is,
\* and PauseableSource drops what has waited for that one.
Opportunity(n) ==
  /\ opps' = opps + n
  /\ out' = IF n = 0 THEN out ELSE <<>>

\* RemoteOperations.nextPeriod to NEVER.  Messages of an earlier period are
\* discarded when their turn comes, which is as good as now.
Detached ==
  /\ source' = "never"
  /\ queue' = <<>>
  /\ revups' = <<>>
  /\ held' = <<>>

-----------------------------------------------------------------------------
(* Before *)

\* The collaborator has written one operation.  Either me has it and is back from
\* somewhere, or me is new to the domain, with a clock that was forked from b's.
Init ==
  /\ log = [p \in Writer |-> IF p = "b" THEN <<Zero>> ELSE <<>>]
  /\ bJournal = <<[p |-> "b", n |-> 1]>>
  /\ bTicked = FALSE /\ serving = NotServing /\ bMissed = FALSE
  /\ toMe = [p \in {"b", "c"} |-> <<>>]
  /\ toB = [p \in {"me", "c"} |-> <<>>]
  /\ remote = FALSE
  /\ newClone \in BOOLEAN
  /\ journal = IF newClone THEN <<>> ELSE bJournal
  /\ data = IF newClone THEN {} ELSE {bJournal[1]}
  /\ start = 0
  /\ time = TimeOf(bJournal) /\ disk = time
  /\ buffer = <<>>
  /\ queue = <<>> /\ taking = <<>> /\ source = "never" /\ revups = <<>> /\ held = <<>>
  /\ outdated = TRUE
  /\ opps = 0 /\ retries = 0 /\ attempt = "idle" /\ answer = NoAnswer /\ told = Zero
  /\ out = <<>>
  /\ events = 0

-----------------------------------------------------------------------------
(* The others *)

\* What b does with a message that is new to it: it has the operation, ticks, and
\* forwards it if a recovery is being sent and the operation is stamped prior to
\* the time of that (DatasetEngine.remoteUpdatesBeforeNow).
Forwarded(op) ==
  /\ serving.open
  /\ serving.ticked \/ \E p \in Writer : SeenBy(op)[p] < serving.at[p]

BHas1(op) ==
  /\ bJournal' = Append(bJournal, op)
  /\ bTicked' = TRUE
  /\ serving' = IF Forwarded(op) THEN [serving EXCEPT !.forward = Append(@, op)] ELSE serving

BWrites ==
  LET op == [p |-> "b", n |-> Len(log["b"]) + 1]
  IN  /\ CanWrite("b")
      /\ log' = [log EXCEPT !["b"] = Append(@, BHas)]
      /\ bJournal' = Append(bJournal, op)
      /\ bTicked' = FALSE
      /\ toMe' = IF remote THEN [toMe EXCEPT !.b = Append(@, op)] ELSE toMe
      /\ UNCHANGED <<serving, bMissed, toB, remote, database, time, newClone, buffer,
                     receiving, outdated, deciding, out, events>>

\* The third clone has seen some of b's operations, and none of me.
CWrites ==
  LET op == [p |-> "c", n |-> Len(log["c"]) + 1]
      had == IF op.n = 1 THEN 0 ELSE Last(log["c"])["b"]
  IN  /\ CanWrite("c")
      /\ \E n \in had..BHas["b"] :
           log' = [log EXCEPT !["c"] = Append(@, [Zero EXCEPT !["b"] = n, !["c"] = op.n - 1])]
      /\ toMe' = IF remote THEN [toMe EXCEPT !.c = Append(@, op)] ELSE toMe
      /\ toB' = [toB EXCEPT !.c = Append(@, op)]
      /\ UNCHANGED <<collaborator, remote, database, time, newClone, buffer,
                     receiving, outdated, deciding, out, events>>

\* A publication arrives at b.  One of me that leaves a gap is not accepted.
BReceives(p) ==
  /\ toB[p] # <<>>
  /\ LET op == Head(toB[p])
     IN  /\ ReadyFor(BHas, op)
         /\ IF op.n = BHas[op.p] + 1
            THEN BHas1(op) ELSE UNCHANGED <<bJournal, bTicked, serving>>
         /\ bMissed' = (bMissed \/ op.n > BHas[op.p] + 1)
  /\ toB' = [toB EXCEPT ![p] = Tail(@)]
  /\ UNCHANGED <<log, toMe, remote, database, time, newClone, buffer,
                 receiving, outdated, deciding, out, events>>

\* The remotes come or go.  Publications are lost while they are gone.
Change ==
  /\ events < MaxEvents
  /\ events' = events + 1
  /\ remote' = ~ remote
  /\ toMe' = [p \in {"b", "c"} |-> <<>>]
  /\ Opportunity(1)
  /\ UNCHANGED <<log, collaborator, toB, database, time, newClone, buffer,
                 receiving, outdated, retries, attempt, answer, told>>

-----------------------------------------------------------------------------
(* Writing, and the end of output's pause *)

\* DatasetEngine.write.  The live lock is needed, and so an attempt that has begun
\* is waited for; one that is yet to take the locks, or to be made again, may find a
\* write under way.
\* Bound: a new clone does not write before its first recovery is complete.
Write ==
  LET op == [p |-> "me", n |-> Len(log["me"]) + 1]
  IN  /\ CanWrite("me")
      /\ attempt = "idle" /\ ~ newClone
      /\ opps > 0 \/ (remote /\ retries > 0) => "write-unconnected" \in Adverse
      /\ log' = [log EXCEPT !["me"] = Append(@, time)]
      /\ time' = [time EXCEPT !["me"] = op.n]
      /\ disk' = time'
      /\ journal' = Append(journal, op)
      /\ data' = data \cup {op}
      /\ IF Paused THEN out' = Append(out, op) /\ UNCHANGED toB
                   ELSE Published(<<op>>) /\ UNCHANGED out
      /\ UNCHANGED <<collaborator, toMe, remote, start, newClone, buffer,
                     receiving, outdated, deciding, events>>

-----------------------------------------------------------------------------
(* Deciding on liveness: DatasetEngine.decideLive *)

\* The last rev-up of a recovery whose updates have all come is yet to be applied.
Undelivered == \E msg \in ToSet(queue \o taking \o buffer) : msg.mark = "due"

\* An attempt has the state lock, shared, and the live lock.
Decide ==
  /\ attempt = "idle" /\ opps > 0
  /\ Undelivered => "late-delivery" \in Adverse
  /\ IF remote
     THEN /\ attempt' = "asking"
          /\ UNCHANGED <<opps, out, toB, receiving>>
     ELSE /\ opps' = opps - 1
          /\ Detached
          /\ IF opps = 1 THEN Published(out) /\ out' = <<>> ELSE UNCHANGED <<toB, out>>
          /\ UNCHANGED <<attempt, taking>>
  /\ UNCHANGED <<log, collaborator, toMe, remote, database, time, newClone, buffer,
                 outdated, retries, answer, told, events>>

\* The attempt is over: with the last one, what output has waited is published.
Over ==
  /\ attempt' = "idle" /\ answer' = NoAnswer
  /\ opps' = opps - 1
  /\ IF opps = 1 THEN Published(out) /\ out' = <<>> ELSE UNCHANGED <<toB, out>>

\* DatasetEngine.revupFrom of b: the operations since the time of me, or nothing
\* if its journal does not go back as far; then, and at once for a new clone,
\* DatasetEngine.snapshot.
Reply ==
  /\ attempt = "asking" /\ remote
  /\ ~ serving.open
  /\ toB.c = <<>> \/ "collaborator-lags" \in Adverse
  /\ \E kind \in {"revup", "snapshot"} :
       /\ newClone => kind = "snapshot"
       /\ kind = "snapshot" => AtMost(time, BHas) \/ "snapshot-behind" \in Adverse
       /\ answer' = [kind |-> kind, gwc |-> BHas,
                     data |-> IF kind = "snapshot" THEN ToSet(bJournal) ELSE {},
                     updates |-> IF kind = "revup" THEN Since(bJournal, time) ELSE <<>>]
  /\ serving' = [open |-> TRUE, at |-> BHas, ticked |-> bTicked, forward |-> <<>>]
  /\ attempt' = "answered"
  /\ UNCHANGED <<log, bJournal, bTicked, bMissed, network, database, time, newClone,
                 buffer, receiving, outdated, opps, retries, told, out, events>>

\* No one answers in time; b may itself be asking for a recovery, of me.
Fail ==
  /\ attempt = "asking"
  /\ remote => events < MaxEvents
  /\ events' = IF remote THEN events + 1 ELSE events
  /\ retries' = retries + 1
  /\ Over
  /\ UNCHANGED <<log, collaborator, toMe, remote, database, time, newClone, buffer,
                 receiving, outdated, told>>

\* Another attempt, at once or after the delay
Retry ==
  /\ retries > 0
  /\ retries' = retries - 1
  /\ Opportunity(1)
  /\ UNCHANGED <<log, collaborator, network, database, time, newClone, buffer,
                 receiving, outdated, attempt, answer, told, events>>

\* Mutant: nothing is emitted again.
EmittedNot == <<>>

\* What b lacks, of all that is in the journal of me, is emitted again.  A new
\* clone has nothing to tell.
Emitted == IF newClone THEN <<>> ELSE Since(journal, answer.gwc)

\* The state lock is released, the clock joins that of a snapshot, and operations
\* are re-emitted: DatasetEngine.connect, processRevup, processSnapshot,
\* emitOpsSince.  A journal that does not go back to what b has fails the attempt
\* for ever; then a snapshot has been behind.
Connect ==
  /\ attempt = "answered"
  /\ answer.gwc["me"] >= start
  /\ attempt' = "connected"
  /\ out' = out \o Emitted
  /\ IF answer.kind = "revup"
     THEN UNCHANGED <<time, answer>>
     ELSE /\ time' = Join(time, answer.gwc)
          /\ answer' = [answer EXCEPT !.updates = @ \o Emitted]
  /\ UNCHANGED <<log, collaborator, network, database, newClone, buffer, receiving,
                 outdated, opps, retries, told, events>>

\* RemoteOperations.attach, in a later task: another period, whose last rev-up
\* none of the messages is that were received before.
Attach ==
  /\ attempt = "connected"
  /\ attempt' = "attached"
  /\ source' = "revups"
  /\ revups' = answer.updates /\ told' = answer.gwc
  /\ queue' = <<>> /\ held' = <<>>
  /\ taking' = Remark(taking, "last", "none")
  /\ buffer' = Remark(buffer, "last", "none")
  /\ UNCHANGED <<log, collaborator, network, database, time, newClone,
                 outdated, opps, retries, answer, out, events>>

\* SuSetDataset.applySnapshot: the database is cleared, and the journal begins at
\* the local time with nothing in it; then the data is inserted, in transactions.
Clear ==
  /\ attempt = "attached" /\ answer.kind = "snapshot"
  /\ attempt' = "cleared"
  /\ data' = {} /\ journal' = <<>>
  /\ start' = time["me"] /\ disk' = time
  /\ UNCHANGED <<log, collaborator, network, time, newClone, buffer, receiving,
                 outdated, opps, retries, answer, told, out, events>>

Insert ==
  /\ attempt = "cleared"
  /\ attempt' = "inserted"
  /\ data' = data \cup answer.data
  /\ UNCHANGED <<log, collaborator, network, journal, start, disk, time, newClone, buffer,
                 receiving, outdated, opps, retries, answer, told, out, events>>

\* The snapshot's data stops coming.  What there is of it stays.
SnapshotFails ==
  /\ attempt = "cleared" /\ events < MaxEvents
  /\ newClone \/ "snapshot-fails" \in Adverse
  /\ events' = events + 1
  /\ retries' = retries + 1
  /\ Detached
  /\ Over
  /\ UNCHANGED <<log, collaborator, toMe, remote, database, time, newClone, buffer,
                 taking, outdated, told>>

\* The clone is live, and output goes on.
Connected ==
  /\ attempt = IF answer.kind = "revup" THEN "attached" ELSE "inserted"
  /\ Over
  /\ UNCHANGED <<log, collaborator, toMe, remote, database, time, newClone, buffer,
                 receiving, outdated, retries, told, events>>

-----------------------------------------------------------------------------
(* Receiving: RemoteOperations, and DatasetEngine.operationProblems *)

\* Mutant: they are not held back.
ApplyingNot == FALSE

\* A snapshot's updates are held back until it has been applied.
Applying == attempt \in {"attached", "cleared"} /\ answer.kind = "snapshot"

\* b has sent all, and then forwards what it was to forward.
SentAll ==
  /\ serving.open
  /\ serving' = NotServing
  /\ IF attempt \in {"answered", "connected"}
     THEN /\ answer' = [answer EXCEPT !.updates = @ \o serving.forward]
          /\ UNCHANGED revups
     ELSE /\ revups' = IF source = "revups" THEN revups \o serving.forward ELSE revups
          /\ UNCHANGED answer
  /\ UNCHANGED <<log, bJournal, bTicked, bMissed, network, database, time, newClone, buffer,
                 queue, taking, source, held, outdated, opps, retries, attempt, told, out,
                 events>>

\* A recovery update arrives, the last one so far.
Revup ==
  /\ source = "revups" /\ ~ Applying
  /\ revups # <<>>
  /\ revups' = Tail(revups)
  /\ queue' = Append(Remark(queue, "last", "none"), Message(Head(revups), "last"))
  /\ taking' = Remark(taking, "last", "none")
  /\ buffer' = Remark(buffer, "last", "none")
  /\ UNCHANGED <<log, collaborator, network, database, time, newClone, source, held,
                 outdated, deciding, out, events>>

\* Mutant: the delivery of the last rev-up is not waited for.
RevupsEndNow ==
  /\ source = "revups" /\ ~ Applying
  /\ revups = <<>> /\ ~ serving.open
  /\ attempt \in {"asking", "answered", "connected"} => "late-delivery" \in Adverse
  /\ source' = "live"
  /\ queue' = queue \o Live(held)
  /\ held' = <<>>
  /\ outdated' = FALSE
  /\ newClone' = FALSE
  /\ UNCHANGED <<log, collaborator, network, database, time, taking, buffer, revups,
                 deciding, out, events>>

\* There are no more: publications that were held back are let through, and the
\* clone is up to date when the last rev-up has been delivered.
RevupsEnd ==
  /\ source = "revups" /\ ~ Applying
  /\ revups = <<>> /\ ~ serving.open
  /\ attempt \in {"asking", "answered", "connected"} => "late-delivery" \in Adverse
  /\ source' = "live"
  /\ queue' = Remark(queue, "last", "due") \o Live(held)
  /\ held' = <<>>
  /\ taking' = Remark(taking, "last", "due")
  /\ buffer' = Remark(buffer, "last", "due")
  /\ outdated' = (outdated /\ \E msg \in ToSet(queue \o taking \o buffer) : msg.mark = "last")
  /\ newClone' = FALSE
  /\ UNCHANGED <<log, collaborator, network, database, time, revups, deciding, out, events>>

\* Mutant: no other attempt is made.
RevupsFailQuietly ==
  /\ source = "revups" /\ ~ Applying
  /\ events < MaxEvents
  /\ events' = events + 1
  /\ Detached
  /\ UNCHANGED <<log, collaborator, network, database, time, newClone, buffer, taking,
                 outdated, deciding, out>>

\* The recovery's updates break off: another attempt is made at once.
RevupsFail ==
  /\ source = "revups" /\ ~ Applying
  /\ events < MaxEvents
  /\ events' = events + 1
  /\ retries' = retries + 1
  /\ Detached
  /\ UNCHANGED <<log, collaborator, network, database, time, newClone, buffer, taking,
                 outdated, opps, attempt, answer, told, out>>

\* A publication arrives.  It is dropped when nothing is attached; and whatever comes
\* after the answer to a request and before it is attached is lost with the period.
Arrive(p) ==
  /\ toMe[p] # <<>>
  /\ toMe' = [toMe EXCEPT ![p] = Tail(@)]
  /\ LET op == Head(toMe[p])
     IN  /\ attempt \in {"answered", "connected"} =>
              op.n <= answer.gwc[p] \/ "before-attach" \in Adverse
         /\ queue' = IF source = "live" THEN Append(queue, Message(op, "none")) ELSE queue
         /\ held' = IF source = "revups" THEN Append(held, op) ELSE held
  /\ UNCHANGED <<log, collaborator, toB, remote, database, time, newClone, buffer, taking,
                 source, revups, outdated, deciding, out, events>>

\* The next message has its turn, and waits for the state lock.
Take ==
  /\ taking = <<>> /\ queue # <<>>
  /\ taking' = <<Head(queue)>>
  /\ queue' = Tail(queue)
  /\ UNCHANGED <<log, collaborator, network, database, time, newClone, buffer, source,
                 revups, held, outdated, deciding, out, events>>

\* The state lock is free, even while a snapshot is yet to be applied.
StateFree == attempt \notin {"asking", "answered"}

\* DatasetEngine.acceptRemoteOperation
Accept ==
  /\ taking # <<>> /\ StateFree
  /\ LET msg == taking[1]
         r == Accepted(msg)
     IN  /\ ReadyFor(time, msg.op) /\ ~ r.disordered
         /\ time' = r.time
         /\ buffer' = r.buffer
         /\ disk' = IF r.applied = <<>> THEN disk ELSE r.time
         /\ journal' = journal \o r.applied
         /\ data' = data \cup ToSet(r.applied)
         /\ outdated' = (outdated /\ ~ r.due)
  /\ taking' = <<>>
  /\ UNCHANGED <<log, collaborator, network, start, newClone, queue, source, revups, held,
                 deciding, out, events>>

\* It is not ready for the message, which is put in the buffer.
Buffer ==
  /\ taking # <<>> /\ StateFree
  /\ ~ ReadyFor(time, taking[1].op)
  /\ buffer' = Append(buffer, taking[1])
  /\ taking' = <<>>
  /\ UNCHANGED <<log, collaborator, network, database, time, newClone, queue, source, revups,
                 held, outdated, deciding, out, events>>

\* The clone is outdated, which empties its buffer, and detaches; another attempt
\* is begun.
Reconnect ==
  /\ outdated' = TRUE
  /\ buffer' = <<>>
  /\ Detached
  /\ Opportunity(1)
  /\ UNCHANGED <<log, collaborator, network, database, time, newClone, retries, attempt,
                 answer, told, events>>

\* An operation is missing before this one, or before one in the buffer that this
\* one lets go; none of them is applied.
Disordered ==
  /\ taking # <<>> /\ StateFree
  /\ ReadyFor(time, taking[1].op) /\ Accepted(taking[1]).disordered
  /\ taking' = <<>>
  /\ Reconnect

\* There have been messages in the buffer for longer than the network timeout.
BackingUp ==
  /\ buffer # <<>>
  /\ Reconnect
  /\ UNCHANGED taking

-----------------------------------------------------------------------------
(* The process stops, and starts again from its journal *)

Restart ==
  /\ events < MaxEvents
  /\ newClone /\ data = {} => "crash-when-new" \in Adverse
  /\ attempt = "cleared" => "crash-while-applying" \in Adverse
  /\ events' = events + 1
  /\ time' = disk /\ newClone' = FALSE
  /\ buffer' = <<>> /\ taking' = <<>> /\ outdated' = TRUE
  /\ Detached
  /\ toMe' = [p \in {"b", "c"} |-> <<>>]
  /\ opps' = 1 /\ retries' = 0 /\ attempt' = "idle" /\ answer' = NoAnswer
  /\ out' = <<>>
  /\ UNCHANGED <<log, collaborator, toB, remote, database, told>>

-----------------------------------------------------------------------------
Environment ==
  BWrites \/ CWrites \/ Change \/ Write \/ RevupsFail \/ SnapshotFails \/ Restart

Process ==
  \/ Decide \/ Reply \/ Fail \/ Retry \/ Connect \/ Attach \/ Clear \/ Insert \/ Connected
  \/ SentAll \/ Revup \/ RevupsEnd \/ Take \/ Accept \/ Buffer \/ Disordered \/ BackingUp
  \/ \E p \in {"b", "c"} : Arrive(p)
  \/ \E p \in {"me", "c"} : BReceives(p)

Next == Environment \/ Process

Spec == Init /\ [][Next]_vars

\* Whatever waits for the network, a lock or a timer has its turn in the end, and
\* all that may go wrong is bounded.
FairSpec == Spec /\ WF_vars(Process)

-----------------------------------------------------------------------------
(* Properties *)

Marks == {"none", "last", "due"}
IsMessages(s) == \A m \in ToSet(s) : m.op \in Covered(MaxOps) /\ m.mark \in Marks

TypeOK ==
  /\ \A p \in Writer : time[p] \in 0..Len(log[p]) /\ disk[p] <= time[p]
  /\ AtMost(BHas, [p \in Writer |-> Len(log[p])])
  /\ data \subseteq Covered(MaxOps) /\ IsInjective(journal)
  /\ IsMessages(buffer) /\ IsMessages(queue) /\ IsMessages(taking) /\ Len(taking) <= 1
  /\ source \in {"never", "revups", "live"} /\ remote \in BOOLEAN /\ outdated \in BOOLEAN
  /\ attempt \in {"idle", "asking", "answered", "connected", "attached", "cleared", "inserted"}
  /\ (attempt \in {"idle", "asking"}) <=> (answer = NoAnswer)
  /\ opps \in Nat /\ retries \in Nat /\ (attempt # "idle" => opps > 0)

\* While no snapshot is being applied, and once a new clone has its data, the data
\* shows just the operations that the clone's time covers: an operation covered and
\* not shown would be ignored as outdated for ever (DatasetEngine.ts:248).
NothingLost ==
  \/ newClone
  \/ attempt \in {"connected", "attached", "cleared"} /\ answer.kind = "snapshot"
  \/ data = Covered(time)

\* Own operations that the collaborator does not have, and is not being sent, can be
\* emitted again: they are in the journal (DatasetEngine.emitOpsSince).
OwnKept ==
  newClone \/ \A n \in (BHas["me"] + 1)..disk["me"] : [p |-> "me", n |-> n] \in ToSet(journal)

\* Own operations are published in order: the pause of output sees to it that none
\* is published before those that the collaborator has missed (decideLive).
PublishedInOrder == ~ bMissed

\* All is quiet
Quiet ==
  /\ remote /\ source = "live" /\ opps = 0 /\ retries = 0
  /\ queue \o taking \o buffer = <<>>
  /\ \A p \in {"b", "c"} : toMe[p] = <<>>
  /\ \A p \in {"me", "c"} : toB[p] = <<>>

\* When all is quiet, a clone that says that it is not outdated has every operation
\* that there is, and so has its collaborator.
UpToDate ==
  Quiet /\ ~ outdated =>
    \A p \in Writer : time[p] = Len(log[p]) /\ BHas[p] = Len(log[p])

\* A clone says that it is up to date when it has all that its collaborator had when
\* it answered, not before the rev-ups have been applied, and not on account of an
\* earlier recovery (RemoteOperations.attach).
RecoveredWhenSaid == [][outdated /\ ~ outdated' => AtMost(told, time')]_vars

\* If the remotes stay, the clone gets up to date, and all is quiet: attempts,
\* rev-ups and messages in the buffer do not wait for each other.
CatchesUp == <>[]remote => <>[](Quiet /\ ~ outdated)

\* An operation that a clone has seen or made is not lost to it (SuSetDataset.apply,
\* applySnapshot, DatasetEngine.emitOpsSince).
OperationsKept == TypeOK /\ OwnKept /\ NothingLost

\* To be no longer outdated is to have what there was to be had, and in the end
\* what there is.
RecoveredInTruth == []UpToDate /\ RecoveredWhenSaid

=============================================================================
