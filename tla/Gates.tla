------------------------------- MODULE Gates --------------------------------
(***************************************************************************)
(* The gates of one clone: who holds its 'state' and 'live' locks, and     *)
(* what they see.  The procedures of the app, by StateEngine.ts and the    *)
(* read and write of DatasetEngine.ts; operations from remote clones;      *)
(* requests of other clones for a rev-up or a snapshot; and decisions on   *)
(* liveness, which may recover the clone by either.                        *)
(*                                                                         *)
(* The data are the number of their changes.  A state of the engine is the *)
(* data that it was made for, which is its identity too.                   *)
(***************************************************************************)
EXTENDS Locks, FiniteSets

CONSTANTS
  Reader, Writer,  \* procedures of the app
  Remote,          \* operations from remote clones
  Request,         \* requests for a rev-up or a snapshot
  Connect,         \* decisions on liveness
  Nests,           \* a procedure reads while it iterates over what it read before
  Snaps,           \* a recovery may be by snapshot
  MaxReads,        \* bound: reads of one procedure
  MaxWrites,       \* bound: writes of one procedure
  MaxTaken         \* bound: operations taken on the receipt of one

ASSUME GatesAssumption ==
  /\ Reader \cap Writer = {} /\ Remote \cap (Reader \cup Writer) = {}
  /\ Request \cap (Reader \cup Writer \cup Remote) = {}
  /\ Connect \cap (Reader \cup Writer \cup Remote \cup Request) = {}
  /\ "next" \notin Reader \cup Writer \cup Remote \cup Request \cup Connect
  /\ Nests \in BOOLEAN /\ Snaps \in BOOLEAN
  /\ MaxReads \in Nat /\ MaxWrites \in Nat /\ MaxTaken \in Nat

App == Reader \cup Writer
Actor == App \cup Remote \cup Request \cup Connect

VARIABLES
  state, live,  \* the locks
  pc,           \* of each actor: how far it is
  data,         \* of the dataset
  current,      \* the state of the StateEngine
  scope,        \* of each procedure, its state
  reads,        \* of each procedure, its reads
  count,        \* of each actor, its writes or the operations taken
  closed,       \* the procedures whose subscription is closed
  heard,        \* of each procedure, the last update its handler was told of, or 0
  handling      \* the handlers that run, each with its state

vars == <<state, live, pc, data, current, scope, reads, count, closed, heard, handling>>
locks == <<state, live>>
content == <<data, current, heard, handling>>
procs == <<scope, reads, count, closed>>

Init ==
  /\ state = Open /\ live = Open
  /\ pc = [a \in Actor |-> "idle"]
  /\ data = 0 /\ current = 0
  /\ scope = [p \in App |-> 0]
  /\ reads = [p \in App |-> <<>>]
  /\ count = [a \in Writer \cup Remote |-> 0]
  /\ closed = {}
  /\ heard = [p \in Reader |-> 0]
  /\ handling = {}

Goes(a, from, to) == pc[a] = from /\ pc' = [pc EXCEPT ![a] = to]

\* The task of an actor itself, on either lock; others are of its reads
Own(a) == <<a, 0>>

-----------------------------------------------------------------------------
(* The state engine *)

\* A handler is registered when its procedure runs, unless that was cancelled.
Following == {p \in Reader : pc[p] \in {"running", "ended"}} \ closed

\* The data change, with an update: StateEngine.nextState
NextState ==
  /\ data' = data + 1
  /\ current' = data'
  /\ handling' = handling \cup {<<p, data'>> : p \in Following}
  /\ heard' = [p \in Reader |-> IF p \in Following THEN data' ELSE heard[p]]
  /\ state' = IF Following = {} THEN state ELSE Extend(state, <<"next", data'>>)

\* A handler ends.  The lock waits for all those of the same update.
Handled(p, s) ==
  /\ <<p, s>> \in handling
  /\ handling' = handling \ {<<p, s>>}
  /\ state' = IF \E h \in handling' : h[2] = s THEN state ELSE End(state, <<"next", s>>)
  /\ UNCHANGED <<live, pc, data, current, heard, procs>>

\* StateEngine.read
ReadProc(p) ==
  /\ Goes(p, "idle", "queued")
  /\ state' = Share(state, Own(p))
  /\ UNCHANGED <<live, content, procs>>

\* StateEngine.write
WriteProc(p) ==
  /\ Goes(p, "idle", "queued")
  /\ state' = Exclusive(state, Own(p))
  /\ UNCHANGED <<live, content, procs>>

Begin(p) ==
  /\ Runs(state, Own(p))
  /\ p \notin closed
  /\ Goes(p, "queued", "running")
  /\ scope' = [scope EXCEPT ![p] = current]
  /\ UNCHANGED <<locks, content, reads, count, closed>>

\* The subscription to a procedure and its handler is closed.
Unsubscribe(p) ==
  /\ pc[p] # "idle" /\ p \notin closed
  /\ closed' = closed \cup {p}
  /\ UNCHANGED <<locks, pc, content, scope, reads, count>>

\* A procedure ends, or does not begin.  Reads of it may go on.
EndProc(p) ==
  /\ \/ Goes(p, "running", "ended")
     \/ /\ p \in closed /\ Runs(state, Own(p))
        /\ Goes(p, "queued", "ended")
  /\ state' = End(state, Own(p))
  /\ UNCHANGED <<live, content, procs>>

-----------------------------------------------------------------------------
(* Reading and writing *)

Done(p, k) == reads[p][k].status = "done"

\* Mutant: the read itself does not hold the state.
ReadUnheld(p) ==
  /\ pc[p] = "running" /\ Len(reads[p]) < MaxReads
  /\ scope[p] = current
  /\ reads' = [reads EXCEPT ![p] = Append(@, [status |-> "asked", whole |-> FALSE])]
  /\ live' = Share(live, <<p, Len(reads'[p])>>)
  /\ UNCHANGED <<state, pc, content, scope, count, closed>>

\* DatasetEngine.read, by a state that is current.  The read holds the state until
\* it happens, which is when it has the live lock.
Read(p) ==
  /\ pc[p] = "running" /\ Len(reads[p]) < MaxReads
  /\ scope[p] = current
  /\ reads' = [reads EXCEPT ![p] = Append(@, [status |-> "asked", whole |-> FALSE])]
  /\ live' = Share(live, <<p, Len(reads'[p])>>)
  /\ state' = Extend(state, <<p, Len(reads'[p])>>)
  /\ UNCHANGED <<pc, content, scope, count, closed>>

\* Mutant: a describe lets go of the state when its first query is open.
OpenReadOnce(p, k) ==
  /\ Runs(live, <<p, k>>) /\ reads[p][k].status = "asked"
  /\ \E whole \in BOOLEAN :
       reads' = [reads EXCEPT ![p][k] = [status |-> "open", whole |-> whole]]
  /\ state' = End(state, <<p, k>>)
  /\ UNCHANGED <<live, pc, content, scope, count, closed>>

\* The query of a select finds all it will; a describe has more queries to come,
\* and holds the state until the last (JrqlGraph.describe).
OpenRead(p, k) ==
  /\ Runs(live, <<p, k>>) /\ reads[p][k].status = "asked"
  /\ \E whole \in BOOLEAN :
       /\ reads' = [reads EXCEPT ![p][k] = [status |-> "open", whole |-> whole]]
       /\ state' = IF whole THEN state ELSE End(state, <<p, k>>)
  /\ UNCHANGED <<live, pc, content, scope, count, closed>>

\* The results have been consumed.
Consume(p, k) ==
  /\ reads[p][k].status = "open"
  /\ Nests => \A j \in k+1 .. Len(reads[p]) : Done(p, j)
  /\ reads' = [reads EXCEPT ![p][k] = [status |-> "done", whole |-> FALSE]]
  /\ live' = End(live, <<p, k>>)
  /\ state' = IF reads[p][k].whole THEN End(state, <<p, k>>) ELSE state
  /\ UNCHANGED <<pc, content, scope, count, closed>>

\* The write of a state, when the handlers of the last update are done: the app has
\* consumed what it read from the state that it is about to leave.
AskWrite(p) ==
  /\ Goes(p, "running", "writing") /\ count[p] < MaxWrites
  /\ scope[p] = current
  /\ handling = {}
  /\ \A k \in DOMAIN reads[p] : Done(p, k)
  /\ live' = Share(live, Own(p))
  /\ UNCHANGED <<state, content, procs>>

\* DatasetEngine.write, which may turn out to change nothing
Write(p) ==
  /\ Runs(live, Own(p))
  /\ Goes(p, "writing", "running")
  /\ count' = [count EXCEPT ![p] = @ + 1]
  /\ NextState \/ UNCHANGED <<state, content>>
  /\ scope' = [scope EXCEPT ![p] = current']
  /\ live' = End(live, Own(p))
  /\ UNCHANGED <<reads, closed>>

-----------------------------------------------------------------------------
(* Remote operations.  One at a time is offered to the message service, which *)
(* may take some from the ordering buffer too, or none.                       *)

\* DatasetEngine.acceptRemoteOperation
AcceptRemote(r) ==
  /\ \A s \in Remote : pc[s] # "queued"
  /\ Goes(r, "idle", "queued")
  /\ state' = Exclusive(state, Own(r))
  /\ UNCHANGED <<live, content, procs>>

\* SuSetDataset.apply of one of those taken
Apply(r) ==
  /\ Runs(state, Own(r)) /\ count[r] < MaxTaken
  /\ count' = [count EXCEPT ![r] = @ + 1]
  /\ NextState
  /\ UNCHANGED <<live, pc, scope, reads, closed>>

EndRemote(r) ==
  /\ Runs(state, Own(r)) /\ Goes(r, "queued", "ended")
  /\ state' = End(state, Own(r))
  /\ UNCHANGED <<live, content, procs>>

-----------------------------------------------------------------------------
(* Other clones ask, and this clone decides whether it is live.  Both share the *)
(* state, then have the live lock to themselves.                                *)

\* DatasetEngine.withLocalState; decideLive
ShareState(a) ==
  /\ Goes(a, "idle", "queued")
  /\ state' = Share(state, Own(a))
  /\ UNCHANGED <<live, content, procs>>

\* DatasetEngine.snapshot, revupFrom; decideLive
AskLive(a) ==
  /\ Runs(state, Own(a)) /\ Goes(a, "queued", "asking")
  /\ live' = Exclusive(live, Own(a))
  /\ UNCHANGED <<state, content, procs>>

\* The journal's state is had, and then the data or the operations.
Collect(a) ==
  /\ Runs(live, Own(a)) /\ Goes(a, "asking", "collecting")
  /\ UNCHANGED <<locks, content, procs>>

Collected(a) ==
  /\ Goes(a, "collecting", "replying")
  /\ live' = End(live, Own(a))
  /\ UNCHANGED <<state, content, procs>>

Reply(a) ==
  /\ Goes(a, "replying", "ended")
  /\ state' = End(state, Own(a))
  /\ UNCHANGED <<live, content, procs>>

\* Mutant: the state is not released unless there is a reply.
NotConnectedHeld(d) ==
  /\ Runs(live, Own(d)) /\ Goes(d, "asking", "ended")
  /\ live' = End(live, Own(d))
  /\ UNCHANGED <<state, content, procs>>

\* There is nobody to connect to, or no reply.
NotConnected(d) ==
  /\ Runs(live, Own(d)) /\ Goes(d, "asking", "ended")
  /\ state' = End(state, Own(d))
  /\ live' = End(live, Own(d))
  /\ UNCHANGED <<content, procs>>

\* DatasetEngine.connect has a rev-up or a snapshot, and releases the state.
Connected(d) ==
  /\ Runs(live, Own(d))
  /\ \/ Goes(d, "asking", "revving")
     \/ Snaps /\ Goes(d, "asking", "clearing")
  /\ state' = End(state, Own(d))
  /\ UNCHANGED <<live, content, procs>>

\* SuSetDataset.applySnapshot: the data change without an update, in several
\* transactions, of which the bound is two.
ApplySnapshot(d) ==
  /\ \/ Goes(d, "clearing", "inserting")
     \/ Goes(d, "inserting", "revving")
  /\ data' = data + 1
  /\ UNCHANGED <<locks, current, heard, handling, procs>>

\* The operations since the recovery have been emitted, and the clone is live.
SetLive(d) ==
  /\ Goes(d, "revving", "ended")
  /\ live' = End(live, Own(d))
  /\ UNCHANGED <<state, content, procs>>

-----------------------------------------------------------------------------
TurnState ==
  /\ CanTurn(state)
  /\ state' = Turn(state)
  /\ UNCHANGED <<live, pc, content, procs>>

TurnLive ==
  /\ CanTurn(live)
  /\ live' = Turn(live)
  /\ UNCHANGED <<state, pc, content, procs>>

ReadStep(p) == \E k \in DOMAIN reads[p] : OpenRead(p, k) \/ Consume(p, k)

\* What an actor does once it has been queued
Step(a) ==
  \/ a \in App /\ (Begin(a) \/ EndProc(a) \/ ReadStep(a))
  \/ a \in Writer /\ Write(a)
  \/ a \in Reader /\ \E s \in 0 .. data : Handled(a, s)
  \/ a \in Remote /\ EndRemote(a)
  \/ a \in Request /\ (AskLive(a) \/ Collect(a) \/ Collected(a) \/ Reply(a))
  \/ a \in Connect /\ (AskLive(a) \/ NotConnected(a) \/ Connected(a)
                         \/ ApplySnapshot(a) \/ SetLive(a))

\* What may or may not happen
Chance ==
  \/ \E p \in Reader : ReadProc(p) \/ Unsubscribe(p)
  \/ \E p \in Writer : WriteProc(p) \/ AskWrite(p)
  \/ \E p \in App : Read(p)
  \/ \E r \in Remote : AcceptRemote(r) \/ Apply(r)
  \/ \E a \in Request \cup Connect : ShareState(a)

Next == Chance \/ TurnState \/ TurnLive \/ \E a \in Actor : Step(a)

\* Promises are settled in time; the app's procedures and handlers end, and its
\* results are consumed; and a request to the remotes has a reply or a timeout.
Fairness == WF_vars(TurnState) /\ WF_vars(TurnLive) /\ \A a \in Actor : WF_vars(Step(a))

Spec == Init /\ [][Next]_vars
FairSpec == Spec /\ Fairness

-----------------------------------------------------------------------------
(* Properties *)

Status(p, k) == reads[p][k].status

TypeOK ==
  /\ IsLock(state) /\ IsLock(live)
  /\ pc \in [Actor -> {"idle", "queued", "running", "writing", "asking", "collecting",
                       "replying", "clearing", "inserting", "revving", "ended"}]
  /\ data \in Nat /\ current \in 0 .. data
  /\ scope \in [App -> 0 .. current] /\ heard \in [Reader -> 0 .. current]
  /\ reads \in [App -> Seq([status : {"asked", "open", "done"}, whole : BOOLEAN])]
  /\ count \in [Writer \cup Remote -> Nat]
  /\ closed \subseteq Reader
  /\ handling \subseteq Reader \X (0 .. current)

\* Whatever needs a lock is a task that runs under it, so that no lock is extended
\* by those who do not hold it ("not available for sharing", locks.ts), and the
\* state is locked wherever DatasetEngine.ts checks that it is.
TasksCovered ==
  /\ \A p \in App : pc[p] \in {"running", "writing"} => Runs(state, Own(p))
  /\ \A p \in App : \A k \in DOMAIN reads[p] :
       /\ Status(p, k) = "asked" => Runs(state, <<p, k>>)
       /\ Status(p, k) = "open" => Runs(live, <<p, k>>)
       /\ Status(p, k) = "open" /\ reads[p][k].whole => Runs(state, <<p, k>>)
  /\ \A h \in handling : Runs(state, <<"next", h[2]>>)
  /\ \A a \in Request : pc[a] \in {"asking", "collecting", "replying"} => Runs(state, Own(a))
  /\ \A a \in Request : pc[a] = "collecting" => Runs(live, Own(a))
  /\ \A d \in Connect : pc[d] = "asking" => Runs(state, Own(d))
  /\ \A d \in Connect : pc[d] \in {"clearing", "inserting", "revving"} => Runs(live, Own(d))

\* The state of a procedure is never de-scoped by another's update (newState in
\* StateEngine.ts), and a handler has heard all since the state of its procedure.
StatesCurrent ==
  /\ \A p \in App : pc[p] \in {"running", "writing"} => scope[p] = current
  /\ \A p \in Following : (IF heard[p] = 0 THEN scope[p] ELSE heard[p]) = current

\* Those who count on the data not to change but by themselves
Relying ==
  {p \in Reader : pc[p] = "running"}
    \cup {p \in App : \E k \in DOMAIN reads[p] :
            Status(p, k) = "asked" \/ (Status(p, k) = "open" /\ reads[p][k].whole)}
    \cup {p \in Writer : pc[p] = "running"}
    \cup {a \in Request : pc[a] = "collecting"}

\* No update is made under a procedure, a read that is not at its last query or a
\* reply to another clone ("An update MUST happen when 'state' is exclusively
\* locked", StateEngine.ts).
UpdatesWait == [][current' # current => Relying = {}]_vars

\* An update waits for the handlers of the one before, unless both are of operations
\* taken on the receipt of one.
HandlersFinish ==
  [][current' # current =>
       handling = {} \/ \E r \in Remote : Runs(state, Own(r)) /\ count[r] > 0]_vars

\* A snapshot is not applied under a query that is open, a write, or a reply to
\* another clone ("the world must be held up by the caller", SuSetDataset.ts).
SnapshotsWait ==
  [][data' # data /\ current' = current =>
       /\ \A p \in App : \A k \in DOMAIN reads[p] : Status(p, k) # "open"
       /\ \A p \in Writer : ~ Runs(live, Own(p))
       /\ \A a \in Request : pc[a] # "collecting"]_vars

\* The data do not change under a procedure or a handler ("the immutable state is
\* guaranteed to remain 'live' until the procedure's return Promise resolves or
\* rejects", api.ts).
Immutable ==
  [][data' # data => handling = {} /\ \A p \in Reader : pc[p] # "running"]_vars

\* Whoever asks for a lock has it in time and ends, so does every read, and so does
\* every handler: in the end nothing is left waiting ("Lock ordering matters to
\* prevent deadlock", DatasetEngine.ts).
AllServed ==
  <>[] /\ \A a \in Actor : pc[a] \in {"idle", "ended"}
       /\ \A p \in App : \A k \in DOMAIN reads[p] : Done(p, k)
       /\ handling = {} /\ state = Open /\ live = Open

\* Whatever relies on a lock runs under it, and on what it reads (LockManager).
LocksCover == TypeOK /\ TasksCovered /\ StatesCurrent

\* An update waits for procedures, reads that are not at their last query and replies,
\* and, unless it was freed from the buffer by the one before, for the handlers of that;
\* a snapshot waits for open queries, writes and replies, but not for procedures and
\* handlers (newState, nextState, applySnapshot; README, "Findings").
ChangesWait == UpdatesWait /\ HandlersFinish /\ SnapshotsWait

=============================================================================
