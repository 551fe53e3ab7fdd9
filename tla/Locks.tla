------------------------------- MODULE Locks --------------------------------
(***************************************************************************)
(* LockManager of locks.ts: one lock, as a queue of batches of tasks.  The *)
(* batch at the head of the queue is the one that runs, once started.  New *)
(* tasks may join the last batch, which locks.ts calls the head.           *)
(***************************************************************************)
EXTENDS Sequences, Naturals

\* A batch and the tasks of it that have not ended
Batch(tasks, exclusive) == [tasks |-> tasks, exclusive |-> exclusive, running |-> FALSE]

Open == <<>>

\* A shared task joins the last batch if that is shared, and is else queued.
Share(q, t) ==
  IF q # Open /\ ~ q[Len(q)].exclusive THEN [q EXCEPT ![Len(q)].tasks = @ \cup {t}]
  ELSE Append(q, Batch({t}, FALSE))

Exclusive(q, t) == Append(q, Batch({t}, TRUE))

\* Something runs, so the lock can be extended.
IsRunning(q) == q # Open /\ q[1].running

\* The task runs: its procedure has been called, and has not ended.
Runs(q, t) == IsRunning(q) /\ t \in q[1].tasks

\* The running batch now waits for the task too, even if it is exclusive.
Extend(q, t) == [q EXCEPT ![1].tasks = @ \cup {t}]

End(q, t) == [q EXCEPT ![1].tasks = @ \ {t}]

\* The turn of the first batch: it starts, or if it has run, the next one can.
CanTurn(q) == q # Open /\ (q[1].running => q[1].tasks = {})

Turn(q) == IF q[1].running THEN Tail(q) ELSE [q EXCEPT ![1].running = TRUE]

IsLock(q) ==
  /\ \A i \in DOMAIN q : q[i].exclusive \in BOOLEAN /\ q[i].running \in BOOLEAN
  /\ \A i \in DOMAIN q : q[i].running => i = 1
  /\ \A i \in DOMAIN q : q[i].tasks = {} => q[i].running
=============================================================================
