---------------------------- MODULE Gates_proofs ----------------------------
(***************************************************************************)
(* The gates of a clone cover whatever relies on them (LocksCover), and no *)
(* change of the data overtakes those who rely on them (ChangesWait), for  *)
(* any number of procedures, remote operations, requests and decisions.    *)
(*                                                                         *)
(* The proof has two parts: what LockManager guarantees for a lock, by     *)
(* lemmas on the operators of Locks; and the invariant of the gates, which *)
(* says who can be in a batch of either lock together.                     *)
(***************************************************************************)
EXTENDS Gates, SequenceTheorems, TLAPS

-----------------------------------------------------------------------------
(* A lock whose exclusive tasks are of ex, and its shared tasks of sh.  A  *)
(* batch that is exclusive has just one of ex, for which it may be         *)
(* extended, and what it is extended with otherwise is of ext.             *)

BatchOf(T) == [tasks : SUBSET T, exclusive : BOOLEAN, running : BOOLEAN]

Admits(b, ex, ext, sh) ==
  IF b.exclusive THEN \E w \in ex : \A t \in b.tasks : t[1] = w \/ t[1] \in ext
  ELSE \A t \in b.tasks : t[1] \in sh

Fits(b, i, ex, ext, sh) ==
  /\ b \in BatchOf((ex \cup ext \cup sh) \X Nat)
  /\ b.running => i = 1
  /\ b.tasks = {} => b.running
  /\ Admits(b, ex, ext, sh)

LockFor(q, ex, ext, sh) ==
  /\ q \in Seq(BatchOf((ex \cup ext \cup sh) \X Nat))
  /\ \A i \in 1 .. Len(q) : Fits(q[i], i, ex, ext, sh)

\* A lock for given tasks is a queue of batches of tasks.
LEMMA LockIsLock ==
  ASSUME NEW ex, NEW ext, NEW sh, NEW q, LockFor(q, ex, ext, sh)
  PROVE  IsLock(q)
  BY LenProperties DEF LockFor, Fits, IsLock, BatchOf

\* What runs, runs in the first batch.
LEMMA RunsFirst ==
  ASSUME NEW ex, NEW ext, NEW sh, NEW q, LockFor(q, ex, ext, sh)
  PROVE  /\ Len(q) \in Nat
         /\ q # Open => 1 \in 1 .. Len(q)
         /\ 1 \in 1 .. Len(q) => q # Open
         /\ \A t : Runs(q, t) <=> (1 \in 1 .. Len(q) /\ q[1].running /\ t \in q[1].tasks)
<1>1. q # <<>> <=> 1 \in 1 .. Len(q)
  BY EmptySeq, LenProperties DEF LockFor
<1> QED
  BY <1>1, LenProperties DEF LockFor, Open, Runs, IsRunning

\* One batch changes.
LEMMA ChangedLock ==
  ASSUME NEW ex, NEW ext, NEW sh, NEW q, LockFor(q, ex, ext, sh),
         NEW i \in 1 .. Len(q), NEW b, Fits(b, i, ex, ext, sh)
  PROVE  /\ LockFor([q EXCEPT ![i] = b], ex, ext, sh)
         /\ \A t : Runs([q EXCEPT ![i] = b], t) <=>
                     IF i = 1 THEN b.running /\ t \in b.tasks ELSE Runs(q, t)
<1> DEFINE r == [q EXCEPT ![i] = b]
<1>1. /\ r \in Seq(BatchOf((ex \cup ext \cup sh) \X Nat)) /\ Len(r) = Len(q)
      /\ \A j \in 1 .. Len(q) : r[j] = IF j = i THEN b ELSE q[j]
  BY ExceptSeq DEF LockFor, Fits
<1> HIDE DEF r
<1>2. LockFor(r, ex, ext, sh)
  BY <1>1 DEF LockFor
<1>3. 1 \in 1 .. Len(q)
  BY RunsFirst
<1>4. \A t : Runs(r, t) <=> r[1].running /\ t \in r[1].tasks
  BY <1>1, <1>2, <1>3, RunsFirst
<1>5. \A t : Runs(q, t) <=> q[1].running /\ t \in q[1].tasks
  BY <1>3, RunsFirst
<1>6. r[1] = IF i = 1 THEN b ELSE q[1]
  BY <1>1, <1>3
<1>7. \A t : Runs(r, t) <=> IF i = 1 THEN b.running /\ t \in b.tasks ELSE Runs(q, t)
  BY <1>4, <1>5, <1>6
<1> QED
  BY <1>2, <1>7 DEF r

\* A batch is queued.
LEMMA QueuedLock ==
  ASSUME NEW ex, NEW ext, NEW sh, NEW q, LockFor(q, ex, ext, sh),
         NEW b \in BatchOf((ex \cup ext \cup sh) \X Nat), ~ b.running, b.tasks # {},
         Admits(b, ex, ext, sh)
  PROVE  /\ LockFor(Append(q, b), ex, ext, sh)
         /\ \A t : Runs(Append(q, b), t) <=> Runs(q, t)
<1> DEFINE r == Append(q, b)
           n == Len(q)
<1>1. /\ r \in Seq(BatchOf((ex \cup ext \cup sh) \X Nat))
      /\ Len(r) = n + 1 /\ n \in Nat
      /\ \A j \in 1 .. n : r[j] = q[j]
      /\ r[n + 1] = b
  BY AppendProperties, LenProperties DEF LockFor
<1> HIDE DEF r
<1>2. \A j \in 1 .. n + 1 : Fits(r[j], j, ex, ext, sh)
  BY <1>1 DEF LockFor, Fits
<1>3. LockFor(r, ex, ext, sh)
  BY <1>1, <1>2 DEF LockFor
<1>4. \A t : Runs(r, t) <=> r[1].running /\ t \in r[1].tasks
  BY <1>1, <1>3, RunsFirst
<1>5. \A t : Runs(r, t) <=> Runs(q, t)
  <2>1. CASE n = 0
    BY <1>1, <1>4, <2>1, RunsFirst
  <2>2. CASE n # 0
    <3>1. 1 \in 1 .. n /\ r[1] = q[1]
      BY <1>1, <2>2
    <3> QED
      BY <1>4, <3>1, RunsFirst
  <2> QED
    BY <2>1, <2>2
<1> QED
  BY <1>3, <1>5 DEF r

\* A task that shares the lock takes nothing from those that run.
LEMMA SharedLock ==
  ASSUME NEW ex, NEW ext, NEW sh, NEW q, LockFor(q, ex, ext, sh),
         NEW a \in sh, NEW k \in Nat
  PROVE  /\ LockFor(Share(q, <<a, k>>), ex, ext, sh)
         /\ \A t : Runs(q, t) => Runs(Share(q, <<a, k>>), t)
         /\ \A t : Runs(Share(q, <<a, k>>), t) => Runs(q, t) \/ t = <<a, k>>
<1> DEFINE T == (ex \cup ext \cup sh) \X Nat
           t0 == <<a, k>>
           n == Len(q)
<1>1. t0 \in T /\ t0[1] = a
  OBVIOUS
<1>2. CASE q # Open /\ ~ q[n].exclusive
  <2> DEFINE b == [q[n] EXCEPT !.tasks = @ \cup {t0}]
  <2>1. n \in 1 .. n
    BY <1>2, RunsFirst
  <2>2. Fits(q[n], n, ex, ext, sh)
    BY <2>1 DEF LockFor
  <2>3. /\ b \in BatchOf(T) /\ b.tasks = q[n].tasks \cup {t0}
        /\ b.running = q[n].running /\ ~ b.exclusive
    BY <1>1, <1>2, <2>2 DEF Fits, BatchOf
  <2> HIDE DEF b
  <2>4. Fits(b, n, ex, ext, sh)
    BY <1>1, <1>2, <2>2, <2>3 DEF Fits, Admits
  <2>5. Share(q, t0) = [q EXCEPT ![n] = b]
    BY <1>2 DEF Share, b
  <2>6. /\ LockFor([q EXCEPT ![n] = b], ex, ext, sh)
        /\ \A t : Runs([q EXCEPT ![n] = b], t) <=>
                     IF n = 1 THEN b.running /\ t \in b.tasks ELSE Runs(q, t)
    BY <2>1, <2>4, ChangedLock
  <2>7. \A t : n = 1 => (Runs(q, t) <=> q[n].running /\ t \in q[n].tasks)
    BY RunsFirst
  <2>8. \A t : Runs(q, t) => Runs([q EXCEPT ![n] = b], t)
    BY <2>3, <2>6, <2>7
  <2>9. \A t : Runs([q EXCEPT ![n] = b], t) => Runs(q, t) \/ t = t0
    BY <2>3, <2>6, <2>7
  <2> QED
    BY <2>5, <2>6, <2>8, <2>9
<1>3. CASE ~(q # Open /\ ~ q[n].exclusive)
  <2>1. Share(q, t0) = Append(q, Batch({t0}, FALSE))
    BY <1>3 DEF Share
  <2>2. /\ Batch({t0}, FALSE) \in BatchOf(T) /\ ~ Batch({t0}, FALSE).running
        /\ Batch({t0}, FALSE).tasks # {} /\ Admits(Batch({t0}, FALSE), ex, ext, sh)
    BY <1>1 DEF BatchOf, Batch, Admits
  <2> HIDE DEF T
  <2>3. /\ LockFor(Append(q, Batch({t0}, FALSE)), ex, ext, sh)
        /\ \A t : Runs(Append(q, Batch({t0}, FALSE)), t) <=> Runs(q, t)
    BY <2>2, QueuedLock DEF T
  <2> QED
    BY <2>1, <2>3
<1> QED
  BY <1>2, <1>3

\* So does a task that is to have the lock to itself.
LEMMA ExclusiveLock ==
  ASSUME NEW ex, NEW ext, NEW sh, NEW q, LockFor(q, ex, ext, sh),
         NEW a \in ex, NEW k \in Nat
  PROVE  /\ LockFor(Exclusive(q, <<a, k>>), ex, ext, sh)
         /\ \A t : Runs(Exclusive(q, <<a, k>>), t) <=> Runs(q, t)
<1> DEFINE b == Batch({<<a, k>>}, TRUE)
<1>1. /\ b \in BatchOf((ex \cup ext \cup sh) \X Nat) /\ ~ b.running
      /\ b.tasks # {} /\ Admits(b, ex, ext, sh)
  BY DEF BatchOf, Batch, Admits
<1> QED
  BY <1>1, QueuedLock DEF Exclusive

\* The lock is extended by a task that the running batch admits.
LEMMA ExtendedLock ==
  ASSUME NEW ex, NEW ext, NEW sh, NEW q, LockFor(q, ex, ext, sh),
         1 \in 1 .. Len(q), q[1].running, NEW t0 \in (ex \cup ext \cup sh) \X Nat,
         Admits([q[1] EXCEPT !.tasks = @ \cup {t0}], ex, ext, sh)
  PROVE  /\ LockFor(Extend(q, t0), ex, ext, sh)
         /\ \A t : Runs(Extend(q, t0), t) <=> Runs(q, t) \/ t = t0
<1> DEFINE b == [q[1] EXCEPT !.tasks = @ \cup {t0}]
<1>1. Fits(q[1], 1, ex, ext, sh)
  BY DEF LockFor
<1>2. /\ b \in BatchOf((ex \cup ext \cup sh) \X Nat) /\ b.tasks = q[1].tasks \cup {t0}
      /\ b.running /\ b.exclusive = q[1].exclusive
  BY <1>1 DEF Fits, BatchOf
<1>3. Fits(b, 1, ex, ext, sh)
  BY <1>2 DEF Fits
<1>4. Extend(q, t0) = [q EXCEPT ![1] = b]
  BY DEF Extend
<1> HIDE DEF b
<1>5. /\ LockFor([q EXCEPT ![1] = b], ex, ext, sh)
      /\ \A t : Runs([q EXCEPT ![1] = b], t) <=> b.running /\ t \in b.tasks
  BY <1>3, ChangedLock
<1> QED
  BY <1>2, <1>4, <1>5, RunsFirst

\* It admits those of whoever has the lock,
LEMMA ExtendedForItself ==
  ASSUME NEW ex, NEW ext, NEW sh, NEW q, LockFor(q, ex, ext, sh),
         NEW a, a \notin ext, Runs(q, <<a, 0>>), NEW k \in Nat
  PROVE  /\ LockFor(Extend(q, <<a, k>>), ex, ext, sh)
         /\ \A t : Runs(Extend(q, <<a, k>>), t) <=> Runs(q, t) \/ t = <<a, k>>
<1> DEFINE t0 == <<a, k>>
           b == [q[1] EXCEPT !.tasks = @ \cup {t0}]
<1>1. 1 \in 1 .. Len(q) /\ q[1].running /\ <<a, 0>> \in q[1].tasks
  BY RunsFirst
<1>2. Fits(q[1], 1, ex, ext, sh)
  BY <1>1 DEF LockFor
<1>3. t0 \in (ex \cup ext \cup sh) \X Nat /\ t0[1] = a /\ <<a, 0>>[1] = a
  BY <1>1, <1>2 DEF Fits, BatchOf
<1>4. b.tasks = q[1].tasks \cup {t0} /\ b.exclusive = q[1].exclusive
  BY <1>2 DEF Fits, BatchOf
<1>5. Admits(b, ex, ext, sh)
  BY <1>1, <1>2, <1>3, <1>4 DEF Fits, Admits
<1> HIDE DEF t0
<1>6. /\ LockFor(Extend(q, t0), ex, ext, sh)
      /\ \A t : Runs(Extend(q, t0), t) <=> Runs(q, t) \/ t = t0
  BY <1>1, <1>3, <1>5, ExtendedLock
<1> QED
  BY <1>6 DEF t0

\* and the others for one who has it exclusively.
LEMMA ExtendedForOne ==
  ASSUME NEW ex, NEW ext, NEW sh, NEW q, LockFor(q, ex, ext, sh),
         NEW a \in ex \ sh, a \notin ext, Runs(q, <<a, 0>>), NEW e \in ext, NEW k \in Nat
  PROVE  /\ LockFor(Extend(q, <<e, k>>), ex, ext, sh)
         /\ \A t : Runs(Extend(q, <<e, k>>), t) <=> Runs(q, t) \/ t = <<e, k>>
<1> DEFINE t0 == <<e, k>>
           b == [q[1] EXCEPT !.tasks = @ \cup {t0}]
<1>1. 1 \in 1 .. Len(q) /\ q[1].running /\ <<a, 0>> \in q[1].tasks
  BY RunsFirst
<1>2. Fits(q[1], 1, ex, ext, sh)
  BY <1>1 DEF LockFor
<1>3. t0 \in (ex \cup ext \cup sh) \X Nat /\ t0[1] = e /\ <<a, 0>>[1] = a
  OBVIOUS
<1>4. b.tasks = q[1].tasks \cup {t0} /\ b.exclusive = q[1].exclusive
  BY <1>2 DEF Fits, BatchOf
<1>5. Admits(b, ex, ext, sh)
  BY <1>1, <1>2, <1>3, <1>4 DEF Fits, Admits
<1> HIDE DEF t0
<1>6. /\ LockFor(Extend(q, t0), ex, ext, sh)
      /\ \A t : Runs(Extend(q, t0), t) <=> Runs(q, t) \/ t = t0
  BY <1>1, <1>3, <1>5, ExtendedLock
<1> QED
  BY <1>6 DEF t0

\* A task ends, and all the others run on.
LEMMA EndedLock ==
  ASSUME NEW ex, NEW ext, NEW sh, NEW q, LockFor(q, ex, ext, sh),
         NEW t0, Runs(q, t0)
  PROVE  /\ LockFor(End(q, t0), ex, ext, sh)
         /\ \A t : Runs(End(q, t0), t) <=> Runs(q, t) /\ t # t0
<1> DEFINE b == [q[1] EXCEPT !.tasks = @ \ {t0}]
<1>1. 1 \in 1 .. Len(q) /\ q[1].running
  BY RunsFirst
<1>2. Fits(q[1], 1, ex, ext, sh)
  BY <1>1 DEF LockFor
<1>3. /\ b \in BatchOf((ex \cup ext \cup sh) \X Nat) /\ b.tasks = q[1].tasks \ {t0}
      /\ b.running /\ b.exclusive = q[1].exclusive
  BY <1>1, <1>2 DEF Fits, BatchOf
<1>4. End(q, t0) = [q EXCEPT ![1] = b]
  BY DEF End
<1> HIDE DEF b
<1>5. Fits(b, 1, ex, ext, sh)
  BY <1>2, <1>3 DEF Fits, Admits
<1>6. /\ LockFor([q EXCEPT ![1] = b], ex, ext, sh)
      /\ \A t : Runs([q EXCEPT ![1] = b], t) <=> b.running /\ t \in b.tasks
  BY <1>1, <1>5, ChangedLock
<1> QED
  BY <1>1, <1>3, <1>4, <1>6, RunsFirst

\* The lock turns only when nothing runs.
LEMMA TurnedLock ==
  ASSUME NEW ex, NEW ext, NEW sh, NEW q, LockFor(q, ex, ext, sh), CanTurn(q)
  PROVE  /\ LockFor(Turn(q), ex, ext, sh)
         /\ \A t : ~ Runs(q, t)
         /\ q[1].running => \A t : ~ Runs(Turn(q), t)
<1>1. 1 \in 1 .. Len(q) /\ Len(q) \in Nat /\ q # <<>>
  BY RunsFirst DEF CanTurn, Open
<1>2. Fits(q[1], 1, ex, ext, sh)
  BY <1>1 DEF LockFor
<1>3. \A t : ~ Runs(q, t)
  BY <1>1, RunsFirst DEF CanTurn
<1>4. CASE q[1].running
  <2> DEFINE r == Tail(q)
  <2>1. /\ r \in Seq(BatchOf((ex \cup ext \cup sh) \X Nat)) /\ Len(r) = Len(q) - 1
        /\ \A i \in 1 .. Len(r) : r[i] = q[i + 1]
    BY <1>1, HeadTailProperties DEF LockFor
  <2>2. Turn(q) = r
    BY <1>4 DEF Turn
  <2> HIDE DEF r
  <2>3. \A i \in 1 .. Len(r) : Fits(r[i], i, ex, ext, sh) /\ ~ r[i].running
    <3> SUFFICES ASSUME NEW i \in 1 .. Len(r)
                 PROVE  Fits(r[i], i, ex, ext, sh) /\ ~ r[i].running
      OBVIOUS
    <3>1. i + 1 \in 1 .. Len(q) /\ i + 1 # 1 /\ r[i] = q[i + 1]
      BY <1>1, <2>1
    <3>2. Fits(q[i + 1], i + 1, ex, ext, sh)
      BY <3>1 DEF LockFor
    <3> QED
      BY <3>1, <3>2 DEF Fits
  <2>4. LockFor(r, ex, ext, sh)
    BY <2>1, <2>3 DEF LockFor
  <2>5. \A t : ~ Runs(r, t)
    BY <2>3, <2>4, RunsFirst
  <2> QED
    BY <1>3, <2>2, <2>4, <2>5
<1>5. CASE ~ q[1].running
  <2> DEFINE b == [q[1] EXCEPT !.running = TRUE]
  <2>1. /\ b \in BatchOf((ex \cup ext \cup sh) \X Nat) /\ b.tasks = q[1].tasks
        /\ b.running /\ b.exclusive = q[1].exclusive
    BY <1>2 DEF Fits, BatchOf
  <2>2. Turn(q) = [q EXCEPT ![1] = b]
    BY <1>5 DEF Turn
  <2> HIDE DEF b
  <2>3. Fits(b, 1, ex, ext, sh)
    BY <1>2, <2>1 DEF Fits, Admits
  <2>4. LockFor([q EXCEPT ![1] = b], ex, ext, sh)
    BY <1>1, <2>3, ChangedLock
  <2> QED
    BY <1>3, <1>5, <2>2, <2>4
<1> QED
  BY <1>4, <1>5

\* One who has the lock to itself shares it with nobody, and with what extends it.
LEMMA HadAlone ==
  ASSUME NEW ex, NEW ext, NEW sh, NEW q, LockFor(q, ex, ext, sh),
         NEW w \in ex \ (ext \cup sh), NEW j, Runs(q, <<w, j>>),
         NEW a, NEW k, Runs(q, <<a, k>>)
  PROVE  a = w \/ a \in ext
<1>1. 1 \in 1 .. Len(q) /\ <<w, j>> \in q[1].tasks /\ <<a, k>> \in q[1].tasks
  BY RunsFirst
<1>2. Admits(q[1], ex, ext, sh)
  BY <1>1 DEF LockFor, Fits
<1>3. <<w, j>>[1] = w /\ <<a, k>>[1] = a
  OBVIOUS
<1> QED
  BY <1>1, <1>2, <1>3 DEF Admits

-----------------------------------------------------------------------------
(* The invariant of the gates.  Writers and remote operations have the     *)
(* state to themselves, requests and decisions the live lock; the reads of *)
(* a procedure extend the state on its account.                            *)

StateLock == LockFor(state, Writer \cup Remote, {"next"}, Reader \cup Request \cup Connect)

LiveLock == LockFor(live, Request \cup Connect, {}, App)

\* A handler that has not been registered has heard nothing.
HeardSince == \A p \in Reader : pc[p] \in {"idle", "queued"} => heard[p] = 0

\* While a writer writes, nobody reads on its account, and no handler runs.
WritingAlone ==
  \A p \in App : pc[p] = "writing" =>
    /\ handling = {}
    /\ \A k \in DOMAIN reads[p] : Done(p, k)

\* Handlers run under a remote operation only if it has been taken.
HandledTaken == \A r \in Remote : Runs(state, Own(r)) /\ handling # {} => count[r] > 0

IInv ==
  /\ TypeOK /\ StateLock /\ LiveLock
  /\ TasksCovered /\ StatesCurrent
  /\ HeardSince /\ WritingAlone /\ HandledTaken

\* Reads of a procedure are numbered from one.
LEMMA ReadNumbers ==
  ASSUME TypeOK
  PROVE  \A p \in App : \A k \in DOMAIN reads[p] : k \in Nat \ {0}
<1> SUFFICES ASSUME NEW p \in App
             PROVE  \A k \in DOMAIN reads[p] : k \in Nat \ {0}
  OBVIOUS
<1>1. reads[p] \in Seq([status : {"asked", "open", "done"}, whole : BOOLEAN])
  BY DEF TypeOK
<1>2. DOMAIN reads[p] = 1 .. Len(reads[p])
  BY <1>1, LenProperties
<1> QED
  BY <1>2

\* Who changes the data with an update has the state alone.
LEMMA Alone ==
  ASSUME StateLock, NEW w \in Writer \cup Remote, Runs(state, Own(w)),
         NEW a \in Actor, NEW k, Runs(state, <<a, k>>)
  PROVE  a = w
<1>1. /\ w \in (Writer \cup Remote) \ ({"next"} \cup (Reader \cup Request \cup Connect))
      /\ a \notin {"next"}
  BY GatesAssumption DEF Actor, App
<1>2. Runs(state, <<w, 0>>)
  BY DEF Own
<1> DEFINE ex == Writer \cup Remote
           ext == {"next"}
           sh == Reader \cup Request \cup Connect
<1>3. LockFor(state, ex, ext, sh) /\ w \in ex \ (ext \cup sh)
  BY <1>1 DEF StateLock
<1> HIDE DEF ex, ext, sh
<1>4. a = w \/ a \in ext
  BY <1>2, <1>3, HadAlone, ZenonT(60)
<1> QED
  BY <1>1, <1>4 DEF ext

\* And so it is with those who hold up the world.
LEMMA AloneLive ==
  ASSUME LiveLock, NEW w \in Request \cup Connect, Runs(live, Own(w)),
         NEW a \in Actor, NEW k, Runs(live, <<a, k>>)
  PROVE  a = w
<1>1. w \in (Request \cup Connect) \ ({} \cup App)
  BY GatesAssumption DEF App
<1>2. Runs(live, <<w, 0>>)
  BY DEF Own
<1> DEFINE ex == Request \cup Connect
           ext == {}
<1>3. LockFor(live, ex, ext, App) /\ w \in ex \ (ext \cup App)
  BY <1>1 DEF LiveLock
<1> HIDE DEF ex, ext
<1>4. a = w \/ a \in ext
  BY <1>2, <1>3, HadAlone, ZenonT(60)
<1> QED
  BY <1>4 DEF ext

\* No one relies on the data who does not hold the state.
LEMMA RelyingHold ==
  ASSUME IInv, NEW w \in Writer \cup Remote, Runs(state, Own(w))
  PROVE  /\ \A p \in App : pc[p] \in {"running", "writing"} => p = w
         /\ \A p \in App : \A k \in DOMAIN reads[p] :
              Status(p, k) = "asked" \/ (Status(p, k) = "open" /\ reads[p][k].whole) => p = w
         /\ \A a \in Request : pc[a] \notin {"asking", "collecting", "replying"}
         /\ \A d \in Connect : pc[d] # "asking"
<1> USE DEF IInv, TasksCovered, Actor, Own
<1>1. \A p \in App : pc[p] \in {"running", "writing"} => p = w
  BY Alone
<1>2. \A p \in App : \A k \in DOMAIN reads[p] :
        Status(p, k) = "asked" \/ (Status(p, k) = "open" /\ reads[p][k].whole) => p = w
  BY Alone
<1>3. \A a \in Request \cup Connect : a # w
  BY GatesAssumption
<1>4. \A a \in Request : pc[a] \notin {"asking", "collecting", "replying"}
  BY <1>3, Alone
<1>5. \A d \in Connect : pc[d] # "asking"
  BY <1>3, Alone
<1> QED
  BY <1>1, <1>2, <1>4, <1>5

\* The locks after each of their operations, by an actor of the gates
LEMMA StateShared ==
  ASSUME StateLock, NEW a \in Reader \cup Request \cup Connect, state' = Share(state, Own(a))
  PROVE  /\ StateLock'
         /\ \A t : Runs(state, t) => Runs(state', t)
         /\ \A t : Runs(state', t) => Runs(state, t) \/ t = Own(a)
  BY SharedLock DEF StateLock, Own

\* A task that waits for the state alone leaves running what runs.
LEMMA StateExclusive ==
  ASSUME StateLock, NEW a \in Writer \cup Remote, state' = Exclusive(state, Own(a))
  PROVE  StateLock' /\ \A t : Runs(state', t) <=> Runs(state, t)
  BY ExclusiveLock DEF StateLock, Own

\* A task that ends lets the others go on.
LEMMA StateEnded ==
  ASSUME StateLock, NEW t0, Runs(state, t0), state' = End(state, t0)
  PROVE  StateLock' /\ \A t : Runs(state', t) <=> Runs(state, t) /\ t # t0
  BY EndedLock DEF StateLock

\* Sharing the live lock stops nobody.
LEMMA LiveShared ==
  ASSUME LiveLock, NEW a \in App, NEW k \in Nat, live' = Share(live, <<a, k>>)
  PROVE  LiveLock' /\ \A t : Runs(live, t) => Runs(live', t)
  BY SharedLock DEF LiveLock

\* A task that waits to hold the live lock alone leaves running what runs.
LEMMA LiveExclusive ==
  ASSUME LiveLock, NEW a \in Request \cup Connect, live' = Exclusive(live, Own(a))
  PROVE  LiveLock' /\ \A t : Runs(live', t) <=> Runs(live, t)
  BY ExclusiveLock DEF LiveLock, Own

\* A task that ends its hold of the live lock lets the others go on.
LEMMA LiveEnded ==
  ASSUME LiveLock, NEW t0, Runs(live, t0), live' = End(live, t0)
  PROVE  LiveLock' /\ \A t : Runs(live', t) <=> Runs(live, t) /\ t # t0
  BY EndedLock DEF LiveLock

\* Both locks are queues of batches.
LEMMA LocksAre == StateLock /\ LiveLock => IsLock(state) /\ IsLock(live)
  BY LockIsLock DEF StateLock, LiveLock

\* Initially nothing is locked.
LEMMA InitIInv == Init => IInv
<1> SUFFICES ASSUME Init
             PROVE  IInv
  OBVIOUS
<1>1. LockFor(<<>>, Writer \cup Remote, {"next"}, Reader \cup Request \cup Connect)
  BY EmptySeq DEF LockFor
<1>2. LockFor(<<>>, Request \cup Connect, {}, App)
  BY EmptySeq DEF LockFor
<1>3. StateLock /\ LiveLock
  BY <1>1, <1>2 DEF Init, Open, StateLock, LiveLock
<1>4. TypeOK
  BY <1>3, LocksAre, EmptySeq DEF Init, TypeOK, App, Actor
<1>5. \A p \in App : DOMAIN reads[p] = {} /\ pc[p] = "idle"
  BY DEF Init, App, Actor
<1>6. TasksCovered /\ StatesCurrent
  BY <1>5 DEF Init, TasksCovered, StatesCurrent, Following, App, Actor
<1>7. HeardSince /\ WritingAlone /\ HandledTaken
  BY <1>5 DEF Init, HeardSince, WritingAlone, HandledTaken
<1> QED
  BY <1>3, <1>4, <1>6, <1>7 DEF IInv

\* What does not touch a lock keeps what is said of it.
LEMMA LocksStay ==
  /\ (UNCHANGED state /\ StateLock => StateLock')
  /\ (UNCHANGED live /\ LiveLock => LiveLock')
  /\ (StateLock' /\ LiveLock' => IsLock(state') /\ IsLock(live'))
  BY LockIsLock DEF StateLock, LiveLock

\* Nobody is a handler, and a read is not its procedure.
LEMMA TasksDiffer ==
  ASSUME TypeOK
  PROVE  /\ \A a \in Actor : \A k, s : <<a, k>> # <<"next", s>>
         /\ \A a, b \in Actor : Own(a) = Own(b) => a = b
         /\ \A a \in Actor : \A p \in App : \A k \in DOMAIN reads[p] : Own(a) # <<p, k>>
<1>1. "next" \notin Actor
  BY GatesAssumption DEF Actor, App
<1> QED
  BY <1>1, ReadNumbers DEF Own

\* The app asks for a procedure, or some other one asks for the state.
LEMMA QueueStep ==
  ASSUME IInv, NEW a \in Actor,
         Goes(a, "idle", "queued"),
         \/ a \in Reader \cup Request \cup Connect /\ state' = Share(state, Own(a))
         \/ a \in Writer \cup Remote /\ state' = Exclusive(state, Own(a)),
         UNCHANGED <<live, content, procs>>
  PROVE  IInv'
<1>1. StateLock' /\ \A t : Runs(state, t) => Runs(state', t)
  BY StateShared, StateExclusive DEF IInv
<1>2. LiveLock' /\ live' = live
  BY LocksStay DEF IInv
<1>3. TypeOK'
  BY <1>1, <1>2, LocksStay DEF IInv, TypeOK, Goes, content, procs
<1>4. /\ pc' = [pc EXCEPT ![a] = "queued"] /\ DOMAIN pc = Actor /\ pc[a] = "idle"
  BY DEF Goes, IInv, TypeOK
<1>5. TasksCovered'
  BY <1>1, <1>2, <1>4 DEF IInv, TasksCovered, content, procs, Actor, App, Status
<1>6. StatesCurrent' /\ HeardSince' /\ WritingAlone'
  BY <1>4 DEF IInv, StatesCurrent, HeardSince, WritingAlone, Following, content, procs, Actor, App, Done
<1>7. HandledTaken'
  <2>1. CASE a \in Writer \cup Remote
    BY <2>1, StateExclusive, GatesAssumption DEF IInv, HandledTaken, content, procs
  <2>2. CASE a \in Reader \cup Request \cup Connect
    BY <2>2, StateShared, GatesAssumption DEF IInv, HandledTaken, content, procs, Own
  <2> QED
    BY <2>1, <2>2 DEF Actor, App
<1> QED
  BY <1>1, <1>2, <1>3, <1>5, <1>6, <1>7 DEF IInv

\* A handler ends.
LEMMA HandledStep ==
  ASSUME IInv, NEW p \in Reader, NEW s, Handled(p, s)
  PROVE  IInv'
<1>1. /\ handling' = handling \ {<<p, s>>} /\ <<p, s>> \in handling
      /\ UNCHANGED <<live, pc, data, current, heard, scope, reads, count, closed>>
  BY DEF Handled, procs
<1>2. Runs(state, <<"next", s>>)
  BY <1>1 DEF IInv, TasksCovered
<1>3. /\ StateLock'
      /\ \A t : t # <<"next", s>> => (Runs(state', t) <=> Runs(state, t))
      /\ Runs(state', <<"next", s>>) \/ ~ \E h \in handling' : h[2] = s
  BY <1>2, StateEnded, LocksStay DEF IInv, Handled
<1>4. LiveLock' /\ live' = live
  BY <1>1, LocksStay DEF IInv
<1>5. TypeOK'
  BY <1>1, <1>3, <1>4, LocksStay DEF IInv, TypeOK
<1>6. \A a \in Actor : \A k : Runs(state, <<a, k>>) <=> Runs(state', <<a, k>>)
  BY <1>3, TasksDiffer DEF IInv
<1>7. TasksCovered'
  <2>1. \A h \in handling' : Runs(state', <<"next", h[2]>>)
    BY <1>1, <1>3 DEF IInv, TasksCovered
  <2> QED
    BY <1>1, <1>4, <1>6, <2>1 DEF IInv, TasksCovered, Status, Own, Actor
<1>8. StatesCurrent' /\ HeardSince' /\ WritingAlone'
  BY <1>1 DEF IInv, StatesCurrent, HeardSince, WritingAlone, Following, Done
<1>9. HandledTaken'
  BY <1>1, <1>6 DEF IInv, HandledTaken, Own, Actor
<1> QED
  BY <1>3, <1>4, <1>5, <1>7, <1>8, <1>9 DEF IInv

\* A procedure begins, and has the state that is current.
LEMMA BeginStep ==
  ASSUME IInv, NEW p \in App, Begin(p)
  PROVE  IInv'
<1>1. /\ Runs(state, Own(p)) /\ pc[p] = "queued" /\ pc' = [pc EXCEPT ![p] = "running"]
      /\ scope' = [scope EXCEPT ![p] = current]
      /\ UNCHANGED <<state, live, data, current, heard, handling, reads, count, closed>>
  BY DEF Begin, Goes, locks, content
<1>2. StateLock' /\ LiveLock'
  BY <1>1, LocksStay DEF IInv
<1>3. TypeOK'
  BY <1>1, <1>2, LocksStay DEF IInv, TypeOK, Actor, App
<1>4. TasksCovered'
  BY <1>1 DEF IInv, TypeOK, TasksCovered, Status, Actor
<1>5. StatesCurrent' /\ HeardSince' /\ WritingAlone'
  BY <1>1 DEF IInv, TypeOK, StatesCurrent, HeardSince, WritingAlone, Following, Done, Actor, App
<1>6. HandledTaken'
  BY <1>1 DEF IInv, HandledTaken
<1> QED
  BY <1>2, <1>3, <1>4, <1>5, <1>6 DEF IInv

\* A procedure that hears no more of updates lets go of nothing.
LEMMA UnsubscribeStep ==
  ASSUME IInv, NEW p \in Reader, Unsubscribe(p)
  PROVE  IInv'
<1>1. /\ closed' = closed \cup {p}
      /\ UNCHANGED <<state, live, pc, data, current, heard, handling, reads, count, scope>>
  BY DEF Unsubscribe, locks, content
<1>2. StateLock' /\ LiveLock'
  BY <1>1, LocksStay DEF IInv
<1> QED
  BY <1>1, <1>2 DEF IInv, TypeOK, TasksCovered, Status, StatesCurrent, HeardSince, WritingAlone,
                    HandledTaken, Following, Done

\* One who has the state, and whose tasks no one else counts on, lets it go.
LEMMA ReleaseStep ==
  ASSUME IInv, NEW a \in Actor, Runs(state, Own(a)), Goes(a, pc[a], "ended"),
         pc[a] \notin {"collecting", "clearing", "inserting", "revving"},
         a \in Following' => a \in Following,
         state' = End(state, Own(a)),
         UNCHANGED <<live, content, procs>>
  PROVE  IInv'
<1>1. StateLock' /\ \A t : Runs(state', t) <=> Runs(state, t) /\ t # Own(a)
  BY StateEnded DEF IInv
<1>2. LiveLock' /\ live' = live
  BY LocksStay DEF IInv
<1>3. pc' = [pc EXCEPT ![a] = "ended"] /\ DOMAIN pc = Actor
  BY DEF Goes, IInv, TypeOK
<1>4. TypeOK'
  BY <1>1, <1>2, LocksStay DEF IInv, TypeOK, Goes, content, procs
<1>5. TasksCovered'
  <2> USE DEF IInv, TasksCovered, content, procs, Status
  <2>1. \A b \in Actor : b # a => (Runs(state, Own(b)) => Runs(state', Own(b))) /\ pc'[b] = pc[b]
    BY <1>1, <1>3, TasksDiffer
  <2>2. pc'[a] = "ended"
    BY <1>3
  <2>3. \A p \in App : \A k \in DOMAIN reads'[p] :
          /\ Status(p, k)' = Status(p, k) /\ reads'[p][k] = reads[p][k]
          /\ Runs(state, <<p, k>>) => Runs(state', <<p, k>>)
    BY <1>1, TasksDiffer
  <2>4. \A h \in handling' : Runs(state', <<"next", h[2]>>)
    BY <1>1, TasksDiffer DEF Own
  <2> QED
    BY <1>2, <2>1, <2>2, <2>3, <2>4 DEF Actor, App
<1>6. StatesCurrent' /\ HeardSince' /\ WritingAlone'
  BY <1>3 DEF IInv, StatesCurrent, HeardSince, WritingAlone, Following, Done, content, procs, Actor, App
<1>7. HandledTaken'
  BY <1>1 DEF IInv, HandledTaken, content, procs
<1> QED
  BY <1>1, <1>2, <1>4, <1>5, <1>6, <1>7 DEF IInv

\* A procedure reads, and the read holds the state too.
LEMMA ReadAsked ==
  ASSUME IInv, NEW p \in App, Read(p)
  PROVE  IInv'
<1> DEFINE n == Len(reads[p]) + 1
           asked == [status |-> "asked", whole |-> FALSE]
<1>1. /\ reads[p] \in Seq([status : {"asked", "open", "done"}, whole : BOOLEAN])
      /\ DOMAIN reads = App
  BY DEF IInv, TypeOK
<1>2. /\ reads' = [reads EXCEPT ![p] = Append(reads[p], asked)]
      /\ UNCHANGED <<pc, data, current, heard, handling, scope, count, closed>>
      /\ pc[p] = "running"
  BY DEF Read, content
<1>3. /\ reads'[p] = Append(reads[p], asked) /\ n \in Nat \ {0}
      /\ reads'[p] \in Seq([status : {"asked", "open", "done"}, whole : BOOLEAN])
      /\ Len(reads'[p]) = n /\ DOMAIN reads'[p] = 1 .. n /\ DOMAIN reads[p] = 1 .. n - 1
      /\ \A k \in 1 .. n - 1 : reads'[p][k] = reads[p][k]
      /\ reads'[p][n] = asked
  BY <1>1, <1>2, AppendProperties, LenProperties
<1>4. live' = Share(live, <<p, n>>) /\ state' = Extend(state, <<p, n>>)
  BY <1>3 DEF Read
<1> HIDE DEF n
<1>5. LiveLock' /\ \A t : Runs(live, t) => Runs(live', t)
  BY <1>3, <1>4, LiveShared DEF IInv
<1>6. StateLock' /\ \A t : Runs(state', t) <=> Runs(state, t) \/ t = <<p, n>>
  <2>1. Runs(state, <<p, 0>>) /\ p # "next"
    BY <1>2, GatesAssumption DEF IInv, TasksCovered, Own, App
  <2> DEFINE ext == {"next"}
  <2>2. p \notin ext
    BY <2>1
  <2> HIDE DEF ext
  <2>3. LockFor(state, Writer \cup Remote, ext, Reader \cup Request \cup Connect)
    BY DEF IInv, StateLock, ext
  <2> DEFINE ex == Writer \cup Remote
             sh == Reader \cup Request \cup Connect
  <2> HIDE DEF ex, sh
  <2>4. n \in Nat /\ LockFor(state, ex, ext, sh)
    BY <1>3, <2>3 DEF ex, sh
  <2>5. /\ LockFor(Extend(state, <<p, n>>), ex, ext, sh)
        /\ \A t : Runs(Extend(state, <<p, n>>), t) <=> Runs(state, t) \/ t = <<p, n>>
    BY <2>1, <2>2, <2>4, ExtendedForItself
  <2> QED
    BY <1>4, <2>5 DEF StateLock, ext, ex, sh
<1>7. TypeOK'
  <2>1. reads' \in [App -> Seq([status : {"asked", "open", "done"}, whole : BOOLEAN])]
    BY <1>2, <1>3 DEF IInv, TypeOK
  <2> QED
    BY <1>2, <1>5, <1>6, <2>1, LocksStay DEF IInv, TypeOK
<1>8. TasksCovered'
  <2> USE DEF IInv, TasksCovered, Status
  <2>1. \A q \in App : \A k \in DOMAIN reads'[q] :
          (k \in DOMAIN reads[q] /\ reads'[q][k] = reads[q][k])
            \/ (q = p /\ k = n /\ reads'[q][k] = asked)
    BY <1>1, <1>2, <1>3
  <2>2. Runs(state', <<p, n>>)
    BY <1>6
  <2> QED
    BY <1>2, <1>5, <1>6, <2>1, <2>2
<1>9. StatesCurrent' /\ HeardSince'
  BY <1>2 DEF IInv, StatesCurrent, HeardSince, Following
<1>10. WritingAlone'
  BY <1>1, <1>2 DEF IInv, WritingAlone, Done
<1>11. HandledTaken'
  BY <1>2, <1>3, <1>6 DEF IInv, HandledTaken, Own
<1> QED
  BY <1>5, <1>6, <1>7, <1>8, <1>9, <1>10, <1>11 DEF IInv

\* One of the reads of a procedure changes.
LEMMA ReadChanged ==
  ASSUME TypeOK, NEW p \in App, NEW k \in DOMAIN reads[p],
         NEW r \in [status : {"asked", "open", "done"}, whole : BOOLEAN],
         reads' = [reads EXCEPT ![p][k] = r]
  PROVE  /\ reads' \in [App -> Seq([status : {"asked", "open", "done"}, whole : BOOLEAN])]
         /\ \A q \in App : DOMAIN reads'[q] = DOMAIN reads[q]
         /\ \A q \in App : \A j \in DOMAIN reads[q] :
              IF q = p /\ j = k THEN reads'[q][j] = r ELSE reads'[q][j] = reads[q][j]
         /\ reads'[p][k] = r
<1> DEFINE R == [status : {"asked", "open", "done"}, whole : BOOLEAN]
<1>1. reads \in [App -> Seq(R)] /\ reads[p] \in Seq(R)
  BY DEF TypeOK
<1>2. k \in 1 .. Len(reads[p]) /\ DOMAIN reads[p] = 1 .. Len(reads[p])
  BY <1>1, LenProperties
<1> HIDE DEF R
<1>3. r \in R
  BY DEF R
<1>4. /\ reads' = [reads EXCEPT ![p] = [reads[p] EXCEPT ![k] = r]]
      /\ [reads[p] EXCEPT ![k] = r] \in Seq(R)
      /\ DOMAIN [reads[p] EXCEPT ![k] = r] = DOMAIN reads[p]
      /\ \A j \in 1 .. Len(reads[p]) : [reads[p] EXCEPT ![k] = r][j] = IF j = k THEN r ELSE reads[p][j]
  BY <1>1, <1>2, <1>3, ExceptSeq
<1>5. reads' \in [App -> Seq(R)] /\ reads'[p] = [reads[p] EXCEPT ![k] = r]
  BY <1>1, <1>4
<1>6. \A q \in App : q # p => reads'[q] = reads[q]
  BY <1>1, <1>4
<1> QED
  BY <1>2, <1>4, <1>5, <1>6 DEF R

\* A read happens.
LEMMA OpenReadStep ==
  ASSUME IInv, NEW p \in App, NEW k \in DOMAIN reads[p], OpenRead(p, k)
  PROVE  IInv'
<1>1. /\ UNCHANGED <<live, pc, data, current, heard, handling, scope, count, closed>>
      /\ Runs(live, <<p, k>>) /\ reads[p][k].status = "asked"
  BY DEF OpenRead, content
<1>2. PICK whole \in BOOLEAN :
        /\ reads' = [reads EXCEPT ![p][k] = [status |-> "open", whole |-> whole]]
        /\ state' = IF whole THEN state ELSE End(state, <<p, k>>)
  BY DEF OpenRead
<1>3. Runs(state, <<p, k>>)
  BY <1>1 DEF IInv, TasksCovered, Status
<1>4. /\ StateLock'
      /\ \A t : t # <<p, k>> => (Runs(state', t) <=> Runs(state, t))
      /\ whole => Runs(state', <<p, k>>)
  BY <1>2, <1>3, StateEnded, LocksStay DEF IInv
<1>5. LiveLock'
  BY <1>1, LocksStay DEF IInv
<1>6. /\ reads' \in [App -> Seq([status : {"asked", "open", "done"}, whole : BOOLEAN])]
      /\ \A q \in App : DOMAIN reads'[q] = DOMAIN reads[q]
      /\ \A q \in App : \A j \in DOMAIN reads[q] :
           (q = p /\ j = k) \/ reads'[q][j] = reads[q][j]
      /\ reads'[p][k].status = "open" /\ reads'[p][k].whole = whole
  BY <1>2, ReadChanged DEF IInv
<1>7. TypeOK'
  BY <1>1, <1>4, <1>5, <1>6, LocksStay DEF IInv, TypeOK
<1>8. \A a \in Actor : Runs(state', Own(a)) <=> Runs(state, Own(a))
  BY <1>4, TasksDiffer DEF IInv
<1>9. TasksCovered'
  <2> USE DEF IInv, TasksCovered, Status
  <2>1. \A h \in handling' : Runs(state', <<"next", h[2]>>)
    BY <1>1, <1>4, TasksDiffer DEF Actor
  <2>2. \A q \in App : \A j \in DOMAIN reads'[q] :
          /\ reads'[q][j].status = "asked" => Runs(state', <<q, j>>)
          /\ reads'[q][j].status = "open" => Runs(live', <<q, j>>)
          /\ reads'[q][j].status = "open" /\ reads'[q][j].whole => Runs(state', <<q, j>>)
    BY <1>1, <1>4, <1>6
  <2> QED
    BY <1>1, <1>8, <2>1, <2>2 DEF Actor
<1>10. StatesCurrent' /\ HeardSince'
  BY <1>1 DEF IInv, StatesCurrent, HeardSince, Following
<1>11. WritingAlone'
  BY <1>1, <1>6 DEF IInv, WritingAlone, Done
<1>12. HandledTaken'
  BY <1>1, <1>8 DEF IInv, HandledTaken, Actor
<1> QED
  BY <1>4, <1>5, <1>7, <1>9, <1>10, <1>11, <1>12 DEF IInv

\* What was read has been consumed.
LEMMA ConsumeStep ==
  ASSUME IInv, NEW p \in App, NEW k \in DOMAIN reads[p], Consume(p, k)
  PROVE  IInv'
<1> DEFINE done == [status |-> "done", whole |-> FALSE]
<1>1. /\ UNCHANGED <<pc, data, current, heard, handling, scope, count, closed>>
      /\ reads[p][k].status = "open"
      /\ reads' = [reads EXCEPT ![p][k] = done]
      /\ live' = End(live, <<p, k>>)
      /\ state' = IF reads[p][k].whole THEN End(state, <<p, k>>) ELSE state
  BY DEF Consume, content
<1>2. Runs(live, <<p, k>>) /\ (reads[p][k].whole => Runs(state, <<p, k>>))
  BY <1>1 DEF IInv, TasksCovered, Status
<1>3. StateLock' /\ \A t : t # <<p, k>> => (Runs(state', t) <=> Runs(state, t))
  BY <1>1, <1>2, StateEnded, LocksStay DEF IInv
<1>4. LiveLock' /\ \A t : t # <<p, k>> => (Runs(live', t) <=> Runs(live, t))
  BY <1>1, <1>2, LiveEnded DEF IInv
<1>5. /\ reads' \in [App -> Seq([status : {"asked", "open", "done"}, whole : BOOLEAN])]
      /\ \A q \in App : DOMAIN reads'[q] = DOMAIN reads[q]
      /\ \A q \in App : \A j \in DOMAIN reads[q] :
           (q = p /\ j = k) \/ reads'[q][j] = reads[q][j]
      /\ reads'[p][k].status = "done"
  BY <1>1, ReadChanged DEF IInv
<1>6. TypeOK'
  BY <1>1, <1>3, <1>4, <1>5, LocksStay DEF IInv, TypeOK
<1>7. \A a \in Actor : /\ Runs(state', Own(a)) <=> Runs(state, Own(a))
                       /\ Runs(live', Own(a)) <=> Runs(live, Own(a))
  BY <1>3, <1>4, TasksDiffer DEF IInv
<1>8. TasksCovered'
  <2> USE DEF IInv, TasksCovered, Status
  <2>1. \A h \in handling' : Runs(state', <<"next", h[2]>>)
    BY <1>1, <1>3, TasksDiffer DEF Actor
  <2>2. \A q \in App : \A j \in DOMAIN reads'[q] :
          /\ reads'[q][j].status = "asked" => Runs(state', <<q, j>>)
          /\ reads'[q][j].status = "open" => Runs(live', <<q, j>>)
          /\ reads'[q][j].status = "open" /\ reads'[q][j].whole => Runs(state', <<q, j>>)
    BY <1>1, <1>3, <1>4, <1>5, ZenonT(60)
  <2> QED
    BY <1>1, <1>7, <2>1, <2>2 DEF Actor
<1>9. StatesCurrent' /\ HeardSince'
  BY <1>1 DEF IInv, StatesCurrent, HeardSince, Following
<1>10. WritingAlone'
  BY <1>1, <1>5 DEF IInv, WritingAlone, Done
<1>11. HandledTaken'
  BY <1>1, <1>7 DEF IInv, HandledTaken, Actor
<1> QED
  BY <1>3, <1>4, <1>6, <1>8, <1>9, <1>10, <1>11 DEF IInv

\* A writer is to write.
LEMMA AskWriteStep ==
  ASSUME IInv, NEW p \in Writer, AskWrite(p)
  PROVE  IInv'
<1>1. /\ UNCHANGED <<state, data, current, heard, handling, reads, scope, count, closed>>
      /\ pc[p] = "running" /\ pc' = [pc EXCEPT ![p] = "writing"]
      /\ live' = Share(live, <<p, 0>>)
      /\ handling = {} /\ \A k \in DOMAIN reads[p] : Done(p, k)
  BY DEF AskWrite, Goes, content, procs, Own
<1>2. LiveLock' /\ \A t : Runs(live, t) => Runs(live', t)
  BY <1>1, LiveShared DEF IInv, App
<1>3. StateLock'
  BY <1>1, LocksStay DEF IInv
<1>4. DOMAIN pc = Actor /\ p \in Actor
  BY DEF IInv, TypeOK, Actor, App
<1>5. TypeOK'
  BY <1>1, <1>2, <1>3, <1>4, LocksStay DEF IInv, TypeOK
<1>6. TasksCovered'
  BY <1>1, <1>2, <1>4 DEF IInv, TasksCovered, Status, Actor
<1>7. StatesCurrent' /\ HeardSince' /\ WritingAlone' /\ HandledTaken'
  BY <1>1, <1>4, GatesAssumption
     DEF IInv, StatesCurrent, HeardSince, WritingAlone, HandledTaken, Following, Done, Actor, App
<1> QED
  BY <1>2, <1>3, <1>5, <1>6, <1>7 DEF IInv

\* The data change with an update: the handlers extend the state.
LEMMA NextStateLock ==
  ASSUME IInv, NEW w \in Writer \cup Remote, Runs(state, Own(w)), NextState
  PROVE  /\ StateLock'
         /\ \A t : Runs(state, t) => Runs(state', t)
         /\ \A a \in Actor : \A k : Runs(state', <<a, k>>) => Runs(state, <<a, k>>)
         /\ \A h \in handling' : Runs(state', <<"next", h[2]>>)
<1>1. data' = data + 1 /\ data \in Nat
  BY DEF NextState, IInv, TypeOK
<1>2. "next" \notin Actor
  BY GatesAssumption DEF Actor, App
<1>3. CASE Following = {}
  BY <1>3, LocksStay DEF NextState, IInv, TasksCovered
<1>4. CASE Following # {}
  <2> DEFINE ex == Writer \cup Remote
             ext == {"next"}
             sh == Reader \cup Request \cup Connect
             d == data'
  <2>1. state' = Extend(state, <<"next", d>>)
    BY <1>4 DEF NextState
  <2>2. /\ LockFor(state, ex, ext, sh) /\ w \in ex \ sh /\ w \notin ext /\ "next" \in ext
        /\ d \in Nat /\ Runs(state, <<w, 0>>)
    BY <1>1, GatesAssumption DEF IInv, StateLock, Own
  <2> HIDE DEF ex, ext, sh, d
  <2>3. /\ LockFor(Extend(state, <<"next", d>>), ex, ext, sh)
        /\ \A t : Runs(Extend(state, <<"next", d>>), t) <=> Runs(state, t) \/ t = <<"next", d>>
    BY <2>2, ExtendedForOne
  <2>4. /\ LockFor(state', ex, ext, sh)
        /\ \A t : Runs(state', t) <=> Runs(state, t) \/ t = <<"next", d>>
    BY <2>1, <2>3
  <2>5. StateLock'
    BY <2>4 DEF StateLock, ex, ext, sh
  <2>6. \A h \in handling' : Runs(state', <<"next", h[2]>>)
    <3>1. \A h \in handling' : h \in handling \/ h[2] = d
      BY DEF NextState, d
    <3> QED
      BY <2>4, <3>1 DEF IInv, TasksCovered
  <2> QED
    BY <1>2, <2>4, <2>5, <2>6
<1> QED
  BY <1>3, <1>4

\* And the gates that an update is made through
LEMMA NextStateGates ==
  ASSUME IInv, NEW w \in Writer \cup Remote, Runs(state, Own(w)), NextState
  PROVE  /\ data' \in Nat /\ current' = data' /\ current' > 0 /\ current' > current
         /\ heard' \in [Reader -> 0 .. current']
         /\ handling' \subseteq Reader \X (0 .. current')
         /\ \A p \in Reader : IF p \in Following THEN heard'[p] = current' ELSE heard'[p] = heard[p]
<1>1. data' = data + 1 /\ current' = data' /\ data \in Nat /\ current \in 0 .. data
  BY DEF NextState, IInv, TypeOK
<1>2. /\ heard' = [p \in Reader |-> IF p \in Following THEN data' ELSE heard[p]]
      /\ handling' = handling \cup {<<p, data'>> : p \in Following}
      /\ Following \subseteq Reader
  BY DEF NextState, Following
<1>3. heard \in [Reader -> 0 .. current] /\ handling \subseteq Reader \X (0 .. current)
  BY DEF IInv, TypeOK
<1>4. \A n \in 0 .. current : n \in 0 .. current'
  BY <1>1
<1>5. heard' \in [Reader -> 0 .. current']
  BY <1>1, <1>2, <1>3, <1>4
<1>6. handling' \subseteq Reader \X (0 .. current')
  BY <1>1, <1>2, <1>3, <1>4
<1> QED
  BY <1>1, <1>2, <1>5, <1>6

\* A writer writes, and changes something or not.
LEMMA WriteStep ==
  ASSUME IInv, NEW w \in Writer, Write(w)
  PROVE  IInv' /\ (current' # current => Runs(state, Own(w)) /\ pc[w] = "writing")
<1>1. /\ Runs(live, Own(w)) /\ pc[w] = "writing" /\ pc' = [pc EXCEPT ![w] = "running"]
      /\ count' = [count EXCEPT ![w] = @ + 1]
      /\ scope' = [scope EXCEPT ![w] = current']
      /\ live' = End(live, Own(w))
      /\ UNCHANGED <<reads, closed>>
  BY DEF Write, Goes
<1>2. w \in App /\ w \in Actor /\ DOMAIN pc = Actor /\ w \notin Reader /\ w \notin Request
        /\ w \notin Connect /\ w \notin Remote
  BY GatesAssumption DEF IInv, TypeOK, App, Actor
<1>3. Runs(state, Own(w))
  BY <1>1, <1>2 DEF IInv, TasksCovered
<1>4. LiveLock' /\ \A t : Runs(live', t) <=> Runs(live, t) /\ t # Own(w)
  BY <1>1, LiveEnded DEF IInv
<1>5. /\ StateLock'
      /\ \A t : Runs(state, t) => Runs(state', t)
      /\ \A a \in Actor : \A k : Runs(state', <<a, k>>) => Runs(state, <<a, k>>)
      /\ \A h \in handling' : Runs(state', <<"next", h[2]>>)
  <2>1. CASE NextState
    BY <1>3, <2>1, NextStateLock
  <2>2. CASE UNCHANGED <<state, content>>
    BY <2>2, LocksStay DEF IInv, TasksCovered, content
  <2> QED
    BY <2>1, <2>2 DEF Write
<1>6. /\ data' \in Nat /\ current' \in 0 .. data' /\ current' >= current
      /\ heard' \in [Reader -> 0 .. current'] /\ handling' \subseteq Reader \X (0 .. current')
      /\ \A p \in Reader : IF p \in Following /\ current' # current
                            THEN heard'[p] = current' /\ heard'[p] # 0 ELSE heard'[p] = heard[p]
  <2>1. CASE NextState
    <3>1. current \in Nat
      BY DEF IInv, TypeOK
    <3> QED
      BY <1>3, <2>1, <3>1, NextStateGates
  <2>2. CASE UNCHANGED <<state, content>>
    BY <2>2 DEF IInv, TypeOK, content
  <2> QED
    BY <2>1, <2>2 DEF Write
<1>7. TypeOK'
  <2>1. scope' \in [App -> 0 .. current']
    BY <1>1, <1>2, <1>6 DEF IInv, TypeOK
  <2>2. count' \in [Writer \cup Remote -> Nat]
    BY <1>1 DEF IInv, TypeOK
  <2> QED
    BY <1>1, <1>2, <1>4, <1>5, <1>6, <2>1, <2>2, LocksStay DEF IInv, TypeOK
<1>8. TasksCovered'
  <2> USE DEF IInv, TasksCovered, Status
  <2>1. \A p \in App : pc'[p] \in {"running", "writing"} => Runs(state', Own(p))
    BY <1>1, <1>2, <1>3, <1>5 DEF Actor
  <2>2. \A p \in App : \A k \in DOMAIN reads[p] :
          Runs(live, <<p, k>>) => Runs(live', <<p, k>>)
    BY <1>2, <1>4, TasksDiffer
  <2>3. \A a \in Request \cup Connect : pc'[a] = pc[a] /\ (Runs(live, Own(a)) => Runs(live', Own(a)))
    BY <1>1, <1>2, <1>4, TasksDiffer DEF Actor
  <2> QED
    BY <1>1, <1>5, <2>1, <2>2, <2>3
<1>9. StatesCurrent'
  <2>1. \A p \in App : pc'[p] \in {"running", "writing"} => p = w
    BY <1>1, <1>2, <1>3, RelyingHold DEF Actor
  <2>2. Following' = Following
    BY <1>1, <1>2 DEF Following, Actor, App
  <2>3. \A p \in Following : p \in Reader /\ scope'[p] = scope[p]
    BY <1>1, <1>2 DEF Following, IInv, TypeOK, App
  <2>4. scope'[w] = current'
    BY <1>1, <1>2 DEF IInv, TypeOK
  <2> QED
    BY <1>6, <2>1, <2>2, <2>3, <2>4 DEF IInv, StatesCurrent
<1>10. HeardSince'
  BY <1>1, <1>2, <1>6 DEF IInv, HeardSince, Following, Actor, App
<1>11. WritingAlone'
  <2>1. \A p \in App : pc'[p] # "writing"
    BY <1>1, <1>2, <1>3, RelyingHold DEF Actor
  <2> QED
    BY <2>1 DEF WritingAlone
<1>12. HandledTaken'
  <2>1. \A r \in Remote : ~ Runs(state', Own(r))
    BY <1>2, <1>3, <1>5, Alone DEF IInv, Own, Actor
  <2> QED
    BY <2>1 DEF HandledTaken
<1> QED
  BY <1>1, <1>3, <1>4, <1>5, <1>7, <1>8, <1>9, <1>10, <1>11, <1>12 DEF IInv

\* A remote operation that was taken is applied.
LEMMA ApplyStep ==
  ASSUME IInv, NEW r \in Remote, Apply(r)
  PROVE  IInv'
<1>1. /\ Runs(state, Own(r)) /\ count' = [count EXCEPT ![r] = @ + 1] /\ NextState
      /\ UNCHANGED <<live, pc, scope, reads, closed>>
  BY DEF Apply
<1>2. r \in Actor /\ r \notin App /\ count[r] \in Nat /\ count'[r] = count[r] + 1
  BY <1>1, GatesAssumption DEF IInv, TypeOK, App, Actor
<1>3. /\ StateLock'
      /\ \A t : Runs(state, t) => Runs(state', t)
      /\ \A a \in Actor : \A k : Runs(state', <<a, k>>) => Runs(state, <<a, k>>)
      /\ \A h \in handling' : Runs(state', <<"next", h[2]>>)
  BY <1>1, NextStateLock
<1>4. /\ data' \in Nat /\ current' = data' /\ current' > 0 /\ current' > current
      /\ heard' \in [Reader -> 0 .. current']
      /\ handling' \subseteq Reader \X (0 .. current')
      /\ \A p \in Reader : IF p \in Following THEN heard'[p] = current' ELSE heard'[p] = heard[p]
  BY <1>1, NextStateGates
<1>5. LiveLock'
  BY <1>1, LocksStay DEF IInv
<1>6. TypeOK'
  <2>1. scope' \in [App -> 0 .. current']
    BY <1>1, <1>4 DEF IInv, TypeOK
  <2>2. count' \in [Writer \cup Remote -> Nat]
    BY <1>1 DEF IInv, TypeOK
  <2> QED
    BY <1>1, <1>3, <1>4, <1>5, <2>1, <2>2, LocksStay DEF IInv, TypeOK
<1>7. TasksCovered'
  BY <1>1, <1>3 DEF IInv, TasksCovered, Status
<1>8. \A p \in App : pc[p] \notin {"running", "writing"}
  BY <1>1, <1>2, RelyingHold
<1>9. StatesCurrent'
  BY <1>1, <1>4, <1>8 DEF IInv, StatesCurrent, Following
<1>10. HeardSince' /\ WritingAlone'
  BY <1>1, <1>4, <1>8 DEF IInv, HeardSince, WritingAlone, Following
<1>11. HandledTaken'
  <2>1. \A s \in Remote : Runs(state', Own(s)) => s = r
    BY <1>1, <1>3, Alone DEF IInv, Own, Actor
  <2> QED
    BY <1>2, <2>1 DEF HandledTaken
<1> QED
  BY <1>3, <1>5, <1>6, <1>7, <1>9, <1>10, <1>11 DEF IInv

\* A request or a decision goes on, and does without the state or the live lock
\* only if it needs that no more.
Onward(a, to) ==
  /\ pc' = [pc EXCEPT ![a] = to]
  /\ to \in {"asking", "collecting", "replying", "clearing", "inserting", "revving", "ended"}
  /\ StateLock' /\ LiveLock'
  /\ \A t : t # Own(a) => (Runs(state', t) <=> Runs(state, t))
  /\ Runs(state', Own(a)) => Runs(state, Own(a))
  /\ \A t : t # Own(a) => (Runs(live', t) <=> Runs(live, t))
  /\ a \in Request /\ to \in {"asking", "collecting", "replying"} => Runs(state', Own(a))
  /\ a \in Connect /\ to = "asking" => Runs(state', Own(a))
  /\ a \in Request /\ to = "collecting" => Runs(live', Own(a))
  /\ a \in Connect /\ to \in {"clearing", "inserting", "revving"} => Runs(live', Own(a))
  /\ current' = current /\ heard' = heard /\ handling' = handling
  /\ UNCHANGED procs
  /\ data' \in Nat /\ data' >= data

\* A step of a request or a connection, from one place to the next, keeps the invariant.
LEMMA AskingStep ==
  ASSUME IInv, NEW a \in Request \cup Connect, NEW to, Onward(a, to)
  PROVE  IInv'
<1> USE DEF Onward
<1>1. /\ pc' = [pc EXCEPT ![a] = to] /\ DOMAIN pc = Actor /\ a \in Actor
      /\ a \notin App /\ a \notin Remote
  BY GatesAssumption DEF Goes, IInv, TypeOK, Actor, App
<1>2. TypeOK'
  <2>1. current' \in 0 .. data'
    BY DEF IInv, TypeOK
  <2>2. UNCHANGED <<current, heard, handling, scope, reads, count, closed>>
    BY DEF procs
  <2> QED
    BY <1>1, <2>1, <2>2, LocksStay DEF IInv, TypeOK
<1>3. TasksCovered'
  <2> USE DEF IInv, TasksCovered, procs, Status
  <2>1. \A p \in App : pc'[p] \in {"running", "writing"} => Runs(state', Own(p))
    BY <1>1, TasksDiffer DEF Actor
  <2>2. \A p \in App : \A k \in DOMAIN reads[p] :
          (Runs(state, <<p, k>>) <=> Runs(state', <<p, k>>))
            /\ (Runs(live, <<p, k>>) <=> Runs(live', <<p, k>>))
    BY <1>1, TasksDiffer
  <2>3. \A h \in handling' : Runs(state', <<"next", h[2]>>)
    BY <1>1, TasksDiffer DEF Own
  <2>4. \A b \in Request \cup Connect : b = a \/
          (pc'[b] = pc[b] /\ (Runs(state, Own(b)) => Runs(state', Own(b)))
             /\ (Runs(live, Own(b)) => Runs(live', Own(b))))
    BY <1>1, TasksDiffer DEF Actor
  <2>5. \A b \in Request : pc'[b] \in {"asking", "collecting", "replying"} => Runs(state', Own(b))
    BY <1>1, <2>4
  <2>6. \A b \in Request : pc'[b] = "collecting" => Runs(live', Own(b))
    BY <1>1, <2>4
  <2>7. \A d \in Connect : pc'[d] = "asking" => Runs(state', Own(d))
    BY <1>1, <2>4
  <2>8. \A d \in Connect : pc'[d] \in {"clearing", "inserting", "revving"} => Runs(live', Own(d))
    BY <1>1, <2>4
  <2> QED
    BY <2>1, <2>2, <2>3, <2>5, <2>6, <2>7, <2>8
<1>4. StatesCurrent' /\ HeardSince' /\ WritingAlone'
  BY <1>1 DEF IInv, StatesCurrent, HeardSince, WritingAlone, Following, Done, procs, Actor, App
<1>5. HandledTaken'
  BY <1>1 DEF IInv, HandledTaken, procs
<1> QED
  BY <1>2, <1>3, <1>4, <1>5 DEF IInv

\* A request or a connection, in any of its steps, keeps the invariant.
LEMMA RequestStep ==
  ASSUME IInv, NEW a \in Request \cup Connect,
         \/ AskLive(a)
         \/ a \in Request /\ (Collect(a) \/ Collected(a) \/ Reply(a))
         \/ a \in Connect /\ (NotConnected(a) \/ Connected(a) \/ ApplySnapshot(a) \/ SetLive(a))
  PROVE  IInv'
<1> USE DEF Goes, content, locks
<1>0. (a \in Request => a \notin Connect) /\ data \in Nat
  BY GatesAssumption DEF IInv, TypeOK
<1>1. CASE AskLive(a)
  <2>1. LiveLock' /\ \A t : Runs(live', t) <=> Runs(live, t)
    BY <1>1, LiveExclusive DEF AskLive, IInv
  <2>2. StateLock' /\ state' = state
    BY <1>1, LocksStay DEF AskLive, IInv
  <2>3. Onward(a, "asking")
    BY <1>0, <1>1, <2>1, <2>2 DEF Onward, AskLive
  <2> QED
    BY <2>3, AskingStep
<1>2. CASE a \in Request /\ Collect(a)
  <2>1. StateLock' /\ LiveLock' /\ state' = state /\ live' = live
    BY <1>2, LocksStay DEF Collect, IInv
  <2>2. Runs(state, Own(a))
    BY <1>2 DEF Collect, IInv, TasksCovered
  <2>3. Onward(a, "collecting")
    BY <1>0, <1>2, <2>1, <2>2 DEF Onward, Collect
  <2> QED
    BY <2>3, AskingStep
<1>3. CASE a \in Request /\ Collected(a)
  <2>1. Runs(live, Own(a)) /\ Runs(state, Own(a))
    BY <1>3 DEF Collected, IInv, TasksCovered
  <2>2. LiveLock' /\ \A t : Runs(live', t) <=> Runs(live, t) /\ t # Own(a)
    BY <1>3, <2>1, LiveEnded DEF Collected, IInv
  <2>3. StateLock' /\ state' = state
    BY <1>3, LocksStay DEF Collected, IInv
  <2>4. Onward(a, "replying")
    BY <1>0, <1>3, <2>1, <2>2, <2>3 DEF Onward, Collected
  <2> QED
    BY <2>4, AskingStep
<1>4. CASE a \in Request /\ Reply(a)
  <2>1. Runs(state, Own(a))
    BY <1>4 DEF Reply, IInv, TasksCovered
  <2>2. StateLock' /\ \A t : Runs(state', t) <=> Runs(state, t) /\ t # Own(a)
    BY <1>4, <2>1, StateEnded DEF Reply, IInv
  <2>3. LiveLock' /\ live' = live
    BY <1>4, LocksStay DEF Reply, IInv
  <2>4. Onward(a, "ended")
    BY <1>0, <1>4, <2>2, <2>3 DEF Onward, Reply
  <2> QED
    BY <2>4, AskingStep
<1>5. CASE a \in Connect /\ NotConnected(a)
  <2>1. Runs(live, Own(a)) /\ Runs(state, Own(a))
    BY <1>5 DEF NotConnected, IInv, TasksCovered
  <2>2. StateLock' /\ \A t : Runs(state', t) <=> Runs(state, t) /\ t # Own(a)
    BY <1>5, <2>1, StateEnded DEF NotConnected, IInv
  <2>3. LiveLock' /\ \A t : Runs(live', t) <=> Runs(live, t) /\ t # Own(a)
    BY <1>5, <2>1, LiveEnded DEF NotConnected, IInv
  <2>4. Onward(a, "ended")
    BY <1>0, <1>5, <2>2, <2>3 DEF Onward, NotConnected
  <2> QED
    BY <2>4, AskingStep
<1>6. CASE a \in Connect /\ Connected(a)
  <2>1. Runs(live, Own(a)) /\ Runs(state, Own(a))
    BY <1>6 DEF Connected, IInv, TasksCovered
  <2>2. StateLock' /\ \A t : Runs(state', t) <=> Runs(state, t) /\ t # Own(a)
    BY <1>6, <2>1, StateEnded DEF Connected, IInv
  <2>3. LiveLock' /\ live' = live
    BY <1>6, LocksStay DEF Connected, IInv
  <2>4. PICK to \in {"revving", "clearing"} : Goes(a, pc[a], to)
    BY <1>6 DEF Connected
  <2>5. Onward(a, to)
    BY <1>0, <1>6, <2>1, <2>2, <2>3, <2>4 DEF Onward, Connected
  <2> QED
    BY <2>5, AskingStep
<1>7. CASE a \in Connect /\ ApplySnapshot(a)
  <2>1. PICK to \in {"revving", "inserting"} :
          Goes(a, pc[a], to) /\ pc[a] \in {"clearing", "inserting"}
    BY <1>7 DEF ApplySnapshot
  <2>2. StateLock' /\ LiveLock' /\ state' = state /\ live' = live
    BY <1>7, LocksStay DEF ApplySnapshot, IInv
  <2>3. Runs(live, Own(a))
    BY <1>7, <2>1 DEF IInv, TasksCovered
  <2>4. data' = data + 1 /\ UNCHANGED <<current, heard, handling, procs>>
    BY <1>7 DEF ApplySnapshot
  <2>5. Onward(a, to)
    BY <1>0, <1>7, <2>1, <2>2, <2>3, <2>4 DEF Onward
  <2> QED
    BY <2>5, AskingStep
<1>8. CASE a \in Connect /\ SetLive(a)
  <2>1. Runs(live, Own(a))
    BY <1>8 DEF SetLive, IInv, TasksCovered
  <2>2. LiveLock' /\ \A t : Runs(live', t) <=> Runs(live, t) /\ t # Own(a)
    BY <1>8, <2>1, LiveEnded DEF SetLive, IInv
  <2>3. StateLock' /\ state' = state
    BY <1>8, LocksStay DEF SetLive, IInv
  <2>4. Onward(a, "ended")
    BY <1>0, <1>8, <2>2, <2>3 DEF Onward, SetLive
  <2> QED
    BY <2>4, AskingStep
<1> QED
  BY <1>1, <1>2, <1>3, <1>4, <1>5, <1>6, <1>7, <1>8

\* A lock turns, when nobody has it.
LEMMA TurnStep ==
  ASSUME IInv, TurnState \/ TurnLive
  PROVE  IInv'
<1>1. CASE TurnState
  <2>1. /\ StateLock' /\ \A t : ~ Runs(state, t)
        /\ state[1].running => \A t : ~ Runs(state', t)
    BY <1>1, TurnedLock DEF TurnState, IInv, StateLock
  <2>2. UNCHANGED <<live, pc, data, current, heard, handling, scope, reads, count, closed>>
    BY <1>1 DEF TurnState, content, procs
  <2>3. handling = {}
    BY <2>1 DEF IInv, TasksCovered
  <2>4. LiveLock'
    BY <2>2, LocksStay DEF IInv
  <2>5. TypeOK'
    BY <2>1, <2>2, <2>4, LocksStay DEF IInv, TypeOK
  <2>6. TasksCovered'
    BY <2>1, <2>2 DEF IInv, TasksCovered, Status
  <2>7. StatesCurrent' /\ HeardSince' /\ WritingAlone' /\ HandledTaken'
    BY <2>2, <2>3 DEF IInv, StatesCurrent, HeardSince, WritingAlone, HandledTaken, Following, Done
  <2> QED
    BY <2>1, <2>4, <2>5, <2>6, <2>7 DEF IInv
<1>2. CASE TurnLive
  <2>1. LiveLock' /\ \A t : ~ Runs(live, t)
    BY <1>2, TurnedLock DEF TurnLive, IInv, LiveLock
  <2>2. UNCHANGED <<state, pc, data, current, heard, handling, scope, reads, count, closed>>
    BY <1>2 DEF TurnLive, content, procs
  <2>3. StateLock'
    BY <2>2, LocksStay DEF IInv
  <2>4. TypeOK'
    BY <2>1, <2>2, <2>3, LocksStay DEF IInv, TypeOK
  <2>5. TasksCovered'
    BY <2>1, <2>2 DEF IInv, TasksCovered, Status
  <2>6. StatesCurrent' /\ HeardSince' /\ WritingAlone' /\ HandledTaken'
    BY <2>2 DEF IInv, StatesCurrent, HeardSince, WritingAlone, HandledTaken, Following, Done
  <2> QED
    BY <2>1, <2>3, <2>4, <2>5, <2>6 DEF IInv
<1> QED
  BY <1>1, <1>2

\* An actor leaves the state, at the end of its procedure or of an operation.
LEMMA EndStep ==
  ASSUME IInv, NEW a \in Actor, (a \in App /\ EndProc(a)) \/ (a \in Remote /\ EndRemote(a))
  PROVE  IInv'
<1>1. CASE a \in App /\ EndProc(a)
  <2>1. Runs(state, Own(a)) /\ pc[a] \in {"running", "queued"} /\ Goes(a, pc[a], "ended")
    BY <1>1 DEF EndProc, IInv, TasksCovered, Goes
  <2>2. a \in Following' => a \in Following
    BY <1>1 DEF EndProc, Following, Goes, procs
  <2> QED
    BY <1>1, <2>1, <2>2, ReleaseStep DEF EndProc
<1>2. CASE a \in Remote /\ EndRemote(a)
  <2>1. a \notin Following'
    BY <1>2, GatesAssumption DEF Following
  <2> QED
    BY <1>2, <2>1, ReleaseStep DEF EndRemote, Goes
<1> QED
  BY <1>1, <1>2

\* Every step keeps the invariant.
LEMMA InvariantStep == IInv /\ [Next]_vars => IInv'
<1> SUFFICES ASSUME IInv, [Next]_vars
             PROVE  IInv'
  OBVIOUS
<1>1. ASSUME Chance
      PROVE  IInv'
  <2>1. ASSUME NEW p \in Reader, ReadProc(p) \/ Unsubscribe(p)
        PROVE  IInv'
    BY <2>1, QueueStep, UnsubscribeStep DEF ReadProc, Actor, App
  <2>2. ASSUME NEW p \in Writer, WriteProc(p) \/ AskWrite(p)
        PROVE  IInv'
    BY <2>2, QueueStep, AskWriteStep DEF WriteProc, Actor, App
  <2>3. ASSUME NEW p \in App, Read(p)
        PROVE  IInv'
    BY <2>3, ReadAsked
  <2>4. ASSUME NEW r \in Remote, AcceptRemote(r) \/ Apply(r)
        PROVE  IInv'
    BY <2>4, QueueStep, ApplyStep DEF AcceptRemote, Actor
  <2>5. ASSUME NEW a \in Request \cup Connect, ShareState(a)
        PROVE  IInv'
    BY <2>5, QueueStep DEF ShareState, Actor
  <2> QED
    BY <1>1, <2>1, <2>2, <2>3, <2>4, <2>5 DEF Chance
<1>2. ASSUME TurnState \/ TurnLive
      PROVE  IInv'
  BY <1>2, TurnStep
<1>3. ASSUME NEW a \in Actor, Step(a)
      PROVE  IInv'
  <2>1. CASE a \in App /\ (Begin(a) \/ EndProc(a) \/ ReadStep(a))
    <3>1. CASE Begin(a)
      BY <2>1, <3>1, BeginStep
    <3>2. CASE EndProc(a)
      BY <2>1, <3>2, EndStep
    <3>3. ASSUME NEW k \in DOMAIN reads[a], OpenRead(a, k) \/ Consume(a, k)
          PROVE  IInv'
      BY <2>1, <3>3, OpenReadStep, ConsumeStep
    <3> QED
      BY <2>1, <3>1, <3>2, <3>3 DEF ReadStep
  <2>2. CASE a \in Writer /\ Write(a)
    BY <2>2, WriteStep
  <2>3. CASE a \in Reader /\ \E s \in 0 .. data : Handled(a, s)
    BY <2>3, HandledStep
  <2>4. CASE a \in Remote /\ EndRemote(a)
    BY <2>4, EndStep
  <2>5. CASE a \in Request /\ (AskLive(a) \/ Collect(a) \/ Collected(a) \/ Reply(a))
    BY <2>5, RequestStep
  <2>6. CASE a \in Connect /\ (AskLive(a) \/ NotConnected(a) \/ Connected(a)
                                 \/ ApplySnapshot(a) \/ SetLive(a))
    BY <2>6, RequestStep
  <2> QED
    BY <1>3, <2>1, <2>2, <2>3, <2>4, <2>5, <2>6 DEF Step
<1>4. CASE UNCHANGED vars
  <2>1. UNCHANGED <<state, live, pc, data, current, scope, reads, count, closed, heard, handling>>
    BY <1>4 DEF vars
  <2>2. StateLock' /\ LiveLock'
    BY <2>1, LocksStay DEF IInv
  <2> QED
    BY <2>1, <2>2 DEF IInv, TypeOK, TasksCovered, Status, StatesCurrent, HeardSince,
                      WritingAlone, HandledTaken, Following, Done
<1> QED
  BY <1>1, <1>2, <1>3, <1>4 DEF Next

-----------------------------------------------------------------------------
(* The theorems *)

\* The inductive invariant holds in every reachable state.
THEOREM Invariance == Spec => []IInv
<1>1. Init => IInv
  BY InitIInv
<1>2. IInv /\ [Next]_vars => IInv'
  BY InvariantStep
<1> QED
  BY <1>1, <1>2, PTL DEF Spec

\* Whatever relies on a lock runs under it, the states of procedures are current, and
\* handlers have heard all since (LockManager, StateEngine.newState).
THEOREM LocksCorrect == Spec => []LocksCover
<1>1. IInv => LocksCover
  BY DEF IInv, LocksCover
<1> QED
  BY <1>1, Invariance, PTL

\* What changes the data: an update by whoever has the state alone, or a snapshot.
LEMMA WhoChanges ==
  ASSUME IInv, [Next]_vars, data' # data
  PROVE  \/ \E w \in Writer : Runs(state, Own(w)) /\ pc[w] = "writing" /\ current' # current
         \/ \E r \in Remote : Runs(state, Own(r)) /\ current' # current
         \/ \E d \in Connect : ApplySnapshot(d) /\ current' = current
<1>1. ASSUME NEW w \in Writer, Write(w)
      PROVE  Runs(state, Own(w)) /\ pc[w] = "writing" /\ current' # current
  <2>1. NextState
    BY <1>1 DEF Write, content
  <2>2. current' = data + 1 /\ data \in Nat /\ current \in 0 .. data
    BY <2>1 DEF NextState, IInv, TypeOK
  <2> QED
    BY <1>1, <2>2, WriteStep
<1>2. ASSUME NEW r \in Remote, Apply(r)
      PROVE  Runs(state, Own(r)) /\ current' # current
  <2>1. NextState /\ Runs(state, Own(r))
    BY <1>2 DEF Apply
  <2>2. current' = data + 1 /\ data \in Nat /\ current \in 0 .. data
    BY <2>1 DEF NextState, IInv, TypeOK
  <2> QED
    BY <2>1, <2>2
<1>3. ASSUME NEW d \in Connect, ApplySnapshot(d)
      PROVE  current' = current
  BY <1>3 DEF ApplySnapshot
<1>4. ASSUME Chance
      PROVE  \E r \in Remote : Apply(r)
  <2> USE DEF content, locks
  <2>1. ASSUME NEW p \in Reader, ReadProc(p) \/ Unsubscribe(p)
        PROVE  FALSE
    BY <2>1 DEF ReadProc, Unsubscribe
  <2>2. ASSUME NEW p \in Writer, WriteProc(p) \/ AskWrite(p)
        PROVE  FALSE
    BY <2>2 DEF WriteProc, AskWrite
  <2>3. ASSUME NEW p \in App, Read(p)
        PROVE  FALSE
    BY <2>3 DEF Read
  <2>4. ASSUME NEW r \in Remote, AcceptRemote(r)
        PROVE  FALSE
    BY <2>4 DEF AcceptRemote
  <2>5. ASSUME NEW a \in Request \cup Connect, ShareState(a)
        PROVE  FALSE
    BY <2>5 DEF ShareState
  <2> QED
    BY <1>4, <2>1, <2>2, <2>3, <2>4, <2>5 DEF Chance
<1>5. ~ (TurnState \/ TurnLive \/ UNCHANGED vars)
  BY DEF TurnState, TurnLive, vars, content
<1>6. ASSUME NEW a \in Actor, Step(a)
      PROVE  \/ a \in Writer /\ Write(a)
             \/ a \in Connect /\ ApplySnapshot(a)
  <2> USE DEF content, locks
  <2>1. CASE a \in App /\ (Begin(a) \/ EndProc(a) \/ ReadStep(a))
    BY <2>1 DEF Begin, EndProc, ReadStep, OpenRead, Consume
  <2>2. CASE a \in Writer /\ Write(a)
    BY <2>2
  <2>3. CASE a \in Reader /\ \E s \in 0 .. data : Handled(a, s)
    BY <2>3 DEF Handled
  <2>4. CASE a \in Remote /\ EndRemote(a)
    BY <2>4 DEF EndRemote
  <2>5. CASE a \in Request /\ (AskLive(a) \/ Collect(a) \/ Collected(a) \/ Reply(a))
    BY <2>5 DEF AskLive, Collect, Collected, Reply
  <2>6. CASE a \in Connect /\ (AskLive(a) \/ NotConnected(a) \/ Connected(a)
                                 \/ ApplySnapshot(a) \/ SetLive(a))
    BY <2>6 DEF AskLive, NotConnected, Connected, SetLive
  <2> QED
    BY <1>6, <2>1, <2>2, <2>3, <2>4, <2>5, <2>6 DEF Step
<1> QED
  BY <1>1, <1>2, <1>3, <1>4, <1>5, <1>6 DEF Next

\* The current state changes only when the data has.
LEMMA CurrentFollows == IInv /\ [Next]_vars => (current' # current => data' # data)
<1> SUFFICES ASSUME IInv, [Next]_vars, data' = data
             PROVE  current' = current
  OBVIOUS
<1>1. ~ NextState
  <2>1. data \in Nat
    BY DEF IInv, TypeOK
  <2> QED
    BY <2>1 DEF NextState
<1> USE DEF content, locks
<1>2. ASSUME Chance
      PROVE  current' = current
  BY <1>1, <1>2 DEF Chance, ReadProc, Unsubscribe, WriteProc, AskWrite, Read, AcceptRemote,
                    Apply, ShareState
<1>3. CASE TurnState \/ TurnLive \/ UNCHANGED vars
  BY <1>3 DEF TurnState, TurnLive, vars
<1>4. ASSUME NEW a \in Actor, Step(a)
      PROVE  current' = current
  BY <1>1, <1>4 DEF Step, Begin, EndProc, ReadStep, OpenRead, Consume, Write, Handled, EndRemote,
       AskLive, Collect, Collected, Reply, NotConnected, Connected, ApplySnapshot, SetLive
<1> QED
  BY <1>2, <1>3, <1>4 DEF Next

\* An update is made under nobody who relies on the data.
LEMMA UpdateWaits ==
  ASSUME IInv, [Next]_vars, current' # current
  PROVE  /\ Relying = {}
         /\ handling = {} \/ \E r \in Remote : Runs(state, Own(r)) /\ count[r] > 0
<1>1. data' # data
  BY CurrentFollows
<1>2. PICK w \in Writer \cup Remote : Runs(state, Own(w)) /\ (w \in Writer => pc[w] = "writing")
  BY <1>1, WhoChanges, GatesAssumption
<1>3. w \notin Reader /\ w \notin Request /\ (w \in Remote => w \notin App)
  BY GatesAssumption DEF App
<1>4. \A p \in App : \A k \in DOMAIN reads[p] :
        ~ (Status(p, k) = "asked" \/ (Status(p, k) = "open" /\ reads[p][k].whole))
  BY <1>2, <1>3, RelyingHold DEF IInv, WritingAlone, Done, Status, App
<1>5. \A p \in App : pc[p] # "running"
  BY <1>2, <1>3, RelyingHold DEF App
<1>6. \A a \in Request : pc[a] # "collecting"
  BY <1>2, RelyingHold
<1>7. Relying = {}
  BY <1>4, <1>5, <1>6 DEF Relying, App
<1>8. handling = {} \/ \E r \in Remote : Runs(state, Own(r)) /\ count[r] > 0
  BY <1>2 DEF IInv, WritingAlone, HandledTaken, App
<1> QED
  BY <1>7, <1>8

\* A snapshot is applied under nobody who reads, writes or replies.
LEMMA SnapshotWaits ==
  ASSUME IInv, [Next]_vars, data' # data, current' = current
  PROVE  /\ \A p \in App : \A k \in DOMAIN reads[p] : Status(p, k) # "open"
         /\ \A p \in Writer : ~ Runs(live, Own(p))
         /\ \A a \in Request : pc[a] # "collecting"
<1>1. PICK d \in Connect : ApplySnapshot(d)
  BY WhoChanges
<1>2. Runs(live, Own(d))
  BY <1>1 DEF ApplySnapshot, Goes, IInv, TasksCovered
<1>3. d \notin App /\ d \notin Request
  BY GatesAssumption DEF App
<1>4. \A a \in Actor : \A k : Runs(live, <<a, k>>) => a = d
  BY <1>2, AloneLive DEF IInv
<1> QED
  BY <1>3, <1>4 DEF IInv, TasksCovered, Status, Own, Actor, App

\* An update waits for procedures, reads that are not at their last query and replies,
\* and, unless it was freed from the buffer by the one before, for the handlers of that;
\* a snapshot waits for open queries, writes and replies.  That a snapshot waits for
\* procedures and handlers, and a freed operation for handlers, is not so (Immutable).
THEOREM ChangesCorrect == Spec => ChangesWait
<1>1. IInv /\ [Next]_vars => [current' # current => Relying = {}]_vars
  BY UpdateWaits
<1>2. IInv /\ [Next]_vars =>
        [current' # current =>
           handling = {} \/ \E r \in Remote : Runs(state, Own(r)) /\ count[r] > 0]_vars
  BY UpdateWaits
<1>3. IInv /\ [Next]_vars =>
        [data' # data /\ current' = current =>
           /\ \A p \in App : \A k \in DOMAIN reads[p] : Status(p, k) # "open"
           /\ \A p \in Writer : ~ Runs(live, Own(p))
           /\ \A a \in Request : pc[a] # "collecting"]_vars
  BY SnapshotWaits
<1> QED
  BY <1>1, <1>2, <1>3, Invariance, PTL
     DEF Spec, ChangesWait, UpdatesWait, HandlersFinish, SnapshotsWait
=============================================================================
