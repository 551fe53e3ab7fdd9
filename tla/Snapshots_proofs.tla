-------------------------- MODULE Snapshots_proofs --------------------------
(***************************************************************************)
(* A snapshot that is read while its collaborator goes on, and the         *)
(* operations since, make the collaborator's dataset but for the TIDs that *)
(* commit drops: for any triples and any number of operations.             *)
(***************************************************************************)
EXTENDS Snapshots, SequenceTheorems, TLAPS

Op == [deletes : SUBSET (Triple \X (1 .. MaxOps)), inserts : SUBSET Triple]

\* A TID and its triple are of the operation of q with that number.
Made(q, x) == x[2] \in 1 .. Len(q) /\ x[1] \in q[x[2]].inserts

\* An operation from the i-th to the k-th has deleted it.
Deleted(q, x, i, k) == \E m \in i .. k : x \in q[m].deletes

\* It is in the dataset that the first k operations make.
Alive(q, x, k) == Made(q, x) /\ x[2] <= k /\ ~ Deleted(q, x, x[2] + 1, k)

-----------------------------------------------------------------------------
(***************************************************************************)
(* The inductive invariant                                                 *)
(***************************************************************************)
Pair == Triple \X (1 .. MaxOps)

Typed ==
  /\ ops \in Seq(Op) /\ Len(ops) <= MaxOps
  /\ phase \in {"none", "data", "applied"}
  /\ gwc \in 0 .. Len(ops)
  /\ quads \in SUBSET Triple
  /\ sent \subseteq [triple : Triple, tids : SUBSET Pair]
  /\ has \in [graph : SUBSET Triple, tids : SUBSET Pair]
  /\ got \in [graph : SUBSET Triple, tids : SUBSET Pair]
  /\ next \in 1 .. Len(ops) + 1
  /\ lost \in SUBSET Pair

\* An operation deletes TIDs of earlier ones.
Orderly == \A m \in 1 .. Len(ops) : \A x \in ops[m].deletes : x[2] < m

\* The collaborator has the TIDs that are alive, and their triples.
Collaborator ==
  /\ \A x \in Pair : x \in has.tids <=> Alive(ops, x, Len(ops))
  /\ has.graph = {x[1] : x \in has.tids}

\* The TIDs that the newcomer has, or has been sent
Known == got.tids \cup UNION {d.tids : d \in sent}

\* No TID is a surprise: it is of an operation to come, or is alive when the first k
\* have been applied.
Timely(k) == \A x \in Known : Made(ops, x) /\ (x[2] <= k => Alive(ops, x, k))

\* A TID that is alive after k operations is known, or was dropped, or is to be read, or
\* is going to be deleted.
Whole(k) ==
  \A x \in Pair : Alive(ops, x, k) =>
    x \in Known \cup Dropped \/ x[1] \in quads \/ Deleted(ops, x, k + 1, Len(ops))

\* How far the newcomer is: before the snapshot it has nothing
Newcomer ==
  /\ phase = "none" => sent = {} /\ quads = {} /\ got = Empty /\ lost = {}
  /\ phase = "data" => Timely(gwc) /\ Whole(gwc)
  /\ phase = "applied" => /\ sent = {} /\ quads = {} /\ gwc < next
                          /\ Timely(next - 1) /\ Whole(next - 1)

\* A triple that has a TID is in the newcomer's graph, or comes with it.
Shown ==
  /\ \A x \in got.tids : x[1] \in got.graph
  /\ \A d \in sent : \A x \in d.tids : x[1] = d.triple

\* A triple is read once and sent once, so that what was dropped comes by no other datum.
Once ==
  /\ \A d, e \in sent : d.triple = e.triple => d = e
  /\ \A d \in sent : d.triple \notin quads /\ d.triple \notin got.graph
  /\ quads \cap got.graph = {}
  /\ \A x \in Dropped : x \notin got.tids /\ (phase = "data" => x[1] \in got.graph)

IInv == Typed /\ Orderly /\ Collaborator /\ Newcomer /\ Shown /\ Once

-----------------------------------------------------------------------------
(***************************************************************************)
(* Operations one after another                                            *)
(***************************************************************************)

\* An operation more: it has made some TIDs and has deleted others.
LEMMA AliveNext ==
  ASSUME NEW q \in Seq(Op), NEW x \in Pair, NEW k \in 0 .. Len(q) - 1
  PROVE  Alive(q, x, k + 1) <=>
           \/ x[2] = k + 1 /\ x[1] \in q[k + 1].inserts
           \/ Alive(q, x, k) /\ x \notin q[k + 1].deletes
<1>1. Len(q) \in Nat /\ x[2] \in Nat /\ x[2] >= 1
  BY LenProperties, SnapshotsAssumption DEF Pair
<1>2. CASE x[2] = k + 1
  <2>1. ~ Deleted(q, x, x[2] + 1, k + 1)
    BY <1>1, <1>2 DEF Deleted
  <2> QED
    BY <1>1, <1>2, <2>1 DEF Alive, Made
<1>3. CASE x[2] <= k
  <2>1. Deleted(q, x, x[2] + 1, k + 1) <=> Deleted(q, x, x[2] + 1, k) \/ x \in q[k + 1].deletes
    BY <1>1, <1>3 DEF Deleted
  <2> QED
    BY <1>1, <1>3, <2>1 DEF Alive
<1>4. CASE x[2] > k + 1
  BY <1>1, <1>4 DEF Alive
<1> QED
  BY <1>1, <1>2, <1>3, <1>4

\* What the first operations have made stays so.
LEMMA AliveBefore ==
  ASSUME NEW q \in Seq(Op), NEW op \in Op, NEW x \in Pair, NEW k \in 0 .. Len(q)
  PROVE  /\ Alive(Append(q, op), x, k) <=> Alive(q, x, k)
         /\ Made(q, x) => Made(Append(q, op), x)
         /\ Deleted(q, x, k + 1, Len(q)) => Deleted(Append(q, op), x, k + 1, Len(q) + 1)
<1> DEFINE r == Append(q, op)
           n == Len(q)
<1>1. /\ Len(r) = n + 1 /\ n \in Nat /\ x[2] \in Nat /\ x[2] >= 1
      /\ \A i \in 1 .. n : r[i] = q[i]
  BY AppendProperties, LenProperties, SnapshotsAssumption DEF Pair
<1> HIDE DEF r, n
<1>2. x[2] <= n => (Made(r, x) <=> Made(q, x))
  BY <1>1 DEF Made, n
<1>3. k \in 0 .. n
  BY DEF n
<1>4. Deleted(r, x, x[2] + 1, k) <=> Deleted(q, x, x[2] + 1, k)
  BY <1>1, <1>3, SMTT(30) DEF Deleted
<1>5. Deleted(q, x, k + 1, n) => Deleted(r, x, k + 1, n + 1)
  BY <1>1, <1>3 DEF Deleted
<1>6. Made(q, x) => Made(r, x)
  BY <1>1 DEF Made, n
<1> QED
  BY <1>1, <1>2, <1>3, <1>4, <1>5, <1>6 DEF Alive, r, n

\* What is alive later was so all the time since it was made.
LEMMA AliveEarlier ==
  ASSUME NEW q \in Seq(Op), NEW x \in Pair, NEW k \in Nat, NEW n \in Nat, k <= n, n <= Len(q)
  PROVE  /\ Alive(q, x, n) /\ x[2] <= k => Alive(q, x, k)
         /\ Alive(q, x, k) => Alive(q, x, n) \/ Deleted(q, x, k + 1, n)
<1>1. x[2] \in Nat /\ x[2] >= 1
  BY SnapshotsAssumption DEF Pair
<1>2. x[2] <= k => (Deleted(q, x, x[2] + 1, n) <=>
                      Deleted(q, x, x[2] + 1, k) \/ Deleted(q, x, k + 1, n))
  BY <1>1 DEF Deleted
<1> QED
  BY <1>1, <1>2 DEF Alive

-----------------------------------------------------------------------------
(***************************************************************************)
(* Every action keeps the invariant.                                       *)
(***************************************************************************)

\* To begin with there is nothing.
LEMMA InitCorrect == Init => IInv
<1> SUFFICES ASSUME Init
             PROVE  IInv
  OBVIOUS
<1>1. Len(<<>>) = 0 /\ <<>> \in Seq(Op)
  OBVIOUS
<1>2. Typed
  BY <1>1, SnapshotsAssumption DEF Init, Typed, Empty
<1>3. Orderly /\ Newcomer /\ Shown /\ Once
  BY <1>1 DEF Init, Orderly, Newcomer, Shown, Once, Dropped, Empty
<1>4. Collaborator
  BY <1>1 DEF Init, Collaborator, Alive, Made, Empty
<1> QED
  BY <1>2, <1>3, <1>4 DEF IInv

\* The types of what applying an operation makes
LEMMA AppliedTyped ==
  ASSUME NEW d \in [graph : SUBSET Triple, tids : SUBSET Pair], NEW op \in Op,
         NEW n \in 1 .. MaxOps
  PROVE  /\ Applied(d, op, n) \in [graph : SUBSET Triple, tids : SUBSET Pair]
         /\ \A x \in Pair : x \in Applied(d, op, n).tids <=>
              \/ x[2] = n /\ x[1] \in op.inserts
              \/ x \in d.tids /\ x \notin op.deletes
         /\ \A t \in Triple : t \in Applied(d, op, n).graph <=>
              \/ t \in op.inserts
              \/ t \in d.graph /\ ~ (TidsOf(d, t) # {} /\ TidsOf(d, t) \subseteq op.deletes)
<1>1. op.inserts \in SUBSET Triple
  BY DEF Op
<1>2. \A x \in Pair : x \in op.inserts \X {n} <=> x[2] = n /\ x[1] \in op.inserts
  BY DEF Pair
<1>3. op.inserts \X {n} \subseteq Pair
  BY <1>1 DEF Pair
<1> QED
  BY <1>1, <1>2, <1>3 DEF Applied, Gone

\* The collaborator goes on.
LEMMA ApplyCorrect == IInv /\ Apply => IInv'
<1> SUFFICES ASSUME IInv, Apply
             PROVE  IInv'
  OBVIOUS
<1>1. PICK deletes \in SUBSET has.tids, inserts \in SUBSET Triple :
        /\ inserts \cap {x[1] : x \in deletes} = {}
        /\ ops' = Append(ops, [deletes |-> deletes, inserts |-> inserts])
        /\ has' = Applied(has, [deletes |-> deletes, inserts |-> inserts], Len(ops'))
  BY DEF Apply
<1> DEFINE op == [deletes |-> deletes, inserts |-> inserts]
           n == Len(ops)
<1>2. Typed /\ UNCHANGED <<phase, gwc, quads, sent, got, next, lost>> /\ n < MaxOps
  BY DEF IInv, Apply
<1>3. op \in Op /\ op.deletes = deletes /\ op.inserts = inserts
  BY <1>2 DEF Typed, Op, Pair
<1> HIDE DEF op
<1>4. /\ ops' \in Seq(Op) /\ Len(ops') = n + 1 /\ n \in Nat /\ n + 1 \in 1 .. MaxOps
      /\ \A i \in 1 .. n : ops'[i] = ops[i]
      /\ ops'[n + 1] = op /\ ops' = Append(ops, op)
  BY <1>1, <1>2, <1>3, AppendProperties, LenProperties, SnapshotsAssumption DEF Typed, op
<1>5. has' = Applied(has, op, n + 1)
  BY <1>1, <1>4 DEF op
<1>6. /\ has' \in [graph : SUBSET Triple, tids : SUBSET Pair]
      /\ \A x \in Pair : x \in has'.tids <=>
           (x[2] = n + 1 /\ x[1] \in inserts) \/ (x \in has.tids /\ x \notin deletes)
      /\ \A t \in Triple : t \in has'.graph <=>
           \/ t \in inserts
           \/ t \in has.graph /\ ~ (TidsOf(has, t) # {} /\ TidsOf(has, t) \subseteq deletes)
  BY <1>2, <1>3, <1>4, <1>5, AppliedTyped, SMTT(30) DEF Typed
<1>7. Typed'
  BY <1>2, <1>4, <1>6 DEF Typed
<1>8. Orderly'
  <2>1. \A x \in deletes : x \in Pair /\ x[2] <= n
    BY <1>2 DEF IInv, Typed, Collaborator, Alive
  <2>2. \A x \in Pair : x[2] \in Nat
    BY SnapshotsAssumption DEF Pair
  <2>3. \A x \in deletes : x[2] < n + 1
    BY <1>4, <2>1, <2>2
  <2>4. \A m \in 1 .. n + 1 : m = n + 1 \/ m \in 1 .. n
    BY <1>4
  <2> QED
    BY <1>3, <1>4, <2>3, <2>4 DEF IInv, Orderly
<1>9. Collaborator'
  <2>1. ASSUME NEW x \in Pair
        PROVE  x \in has'.tids <=> Alive(ops', x, n + 1)
    <3>1. x \in has.tids <=> Alive(ops, x, n)
      BY DEF IInv, Collaborator
    <3>2. Alive(ops', x, n) <=> Alive(ops, x, n)
      BY <1>2, <1>3, <1>4, AliveBefore DEF Typed
    <3>3. Alive(ops', x, n + 1) <=>
            (x[2] = n + 1 /\ x[1] \in inserts) \/ (Alive(ops', x, n) /\ x \notin deletes)
      <4>1. n \in 0 .. Len(ops') - 1
        BY <1>4
      <4>2. Alive(ops', x, n + 1) <=>
              \/ x[2] = n + 1 /\ x[1] \in ops'[n + 1].inserts
              \/ Alive(ops', x, n) /\ x \notin ops'[n + 1].deletes
        <5> HIDE DEF n
        <5> QED
          BY <1>4, <4>1, AliveNext
      <4> QED
        BY <1>3, <1>4, <4>2
    <3> QED
      BY <1>6, <3>1, <3>2, <3>3
  <2>2. ASSUME NEW t \in Triple
        PROVE  t \in has'.graph <=> \E x \in has'.tids : x[1] = t
    <3>1. \A x \in has'.tids : x \in Pair
      BY <1>6
    <3>2. t \in has.graph <=> TidsOf(has, t) # {}
      BY DEF IInv, Collaborator, TidsOf
    <3>3. CASE t \in inserts
      <4>1. <<t, n + 1>> \in Pair
        BY <1>4 DEF Pair
      <4>2. <<t, n + 1>> \in has'.tids
        BY <1>6, <3>3, <4>1
      <4> QED
        BY <1>6, <3>3, <4>2
    <3>4. CASE t \notin inserts
      <4>1. t \in has'.graph <=> TidsOf(has, t) \ deletes # {}
        BY <1>6, <3>2, <3>4
      <4>2. \A x \in has'.tids : x[1] = t => x \in TidsOf(has, t) \ deletes
        BY <1>6, <3>1, <3>4 DEF TidsOf
      <4>3. \A x \in TidsOf(has, t) \ deletes : x \in has'.tids /\ x[1] = t
        BY <1>2, <1>6 DEF TidsOf, Typed
      <4> QED
        BY <4>1, <4>2, <4>3
    <3> QED
      BY <3>3, <3>4
  <2>3. has'.graph \subseteq Triple /\ \A x \in has'.tids : x[1] \in Triple
    BY <1>6 DEF Pair
  <2>4. has'.graph = {x[1] : x \in has'.tids}
    BY <2>2, <2>3
  <2> QED
    BY <1>4, <2>1, <2>4 DEF Collaborator
<1>10. Newcomer'
  <2>1. Known' = Known /\ Dropped' = Dropped /\ \A x \in Known : x \in Pair
    BY <1>2 DEF Known, Dropped, Typed
  <2>2. ASSUME NEW k \in 0 .. n, Timely(k), Whole(k)
        PROVE  Timely(k)' /\ Whole(k)'
    <3>1. ASSUME NEW x \in Pair
          PROVE  /\ Alive(ops', x, k) <=> Alive(ops, x, k)
                 /\ Made(ops, x) => Made(ops', x)
                 /\ Deleted(ops, x, k + 1, n) => Deleted(ops', x, k + 1, Len(ops'))
      BY <1>2, <1>3, <1>4, AliveBefore DEF Typed
    <3>2. Timely(k)'
      BY <2>1, <2>2, <3>1 DEF Timely
    <3>3. Whole(k)'
      BY <1>2, <2>1, <2>2, <3>1 DEF Whole
    <3> QED
      BY <3>2, <3>3
  <2>3. gwc \in 0 .. n /\ next - 1 \in 0 .. n
    BY <1>2, <1>4 DEF Typed
  <2>4. phase = "data" => Timely(gwc)' /\ Whole(gwc)'
    BY <1>2, <2>2, <2>3 DEF IInv, Newcomer
  <2>5. phase = "applied" => Timely(next - 1)' /\ Whole(next - 1)'
    BY <1>2, <2>2, <2>3 DEF IInv, Newcomer
  <2> QED
    BY <1>2, <2>4, <2>5 DEF IInv, Newcomer
<1>11. Shown' /\ Once'
  BY <1>2 DEF IInv, Shown, Once, Dropped
<1> QED
  BY <1>7, <1>8, <1>9, <1>10, <1>11 DEF IInv

\* The iterator is opened: its triples are those of the TIDs that are alive.
LEMMA TakeCorrect == IInv /\ Take => IInv'
<1> SUFFICES ASSUME IInv, Take
             PROVE  IInv'
  OBVIOUS
<1>1. /\ phase = "none" /\ phase' = "data" /\ gwc' = Len(ops) /\ quads' = has.graph
      /\ UNCHANGED <<ops, sent, has, got, next, lost>> /\ Typed
  BY DEF Take, ClockNow, IInv
<1>2. Len(ops) \in Nat
  BY <1>1, LenProperties DEF Typed
<1>3. Typed'
  BY <1>1, <1>2 DEF Typed
<1>4. Orderly' /\ Collaborator' /\ Shown'
  BY <1>1 DEF IInv, Orderly, Collaborator, Shown
<1>5. Known' = {}
  BY <1>1 DEF IInv, Newcomer, Known, Empty
<1>6. Timely(gwc)'
  BY <1>5 DEF Timely
<1>7. Whole(gwc)'
  <2> SUFFICES ASSUME NEW x \in Pair, Alive(ops, x, Len(ops))
               PROVE  x[1] \in quads'
    BY <1>1 DEF Whole
  <2> QED
    BY <1>1 DEF IInv, Collaborator
<1>8. Once'
  BY <1>1 DEF IInv, Newcomer, Once, Dropped, Empty
<1> QED
  BY <1>1, <1>3, <1>4, <1>6, <1>7, <1>8 DEF IInv, Newcomer

\* TIDs are read: those that are not there any more will be deleted.
LEMMA SendCorrect == ASSUME IInv, NEW t \in Triple, Send(t) PROVE IInv'
<1> DEFINE d == [triple |-> t, tids |-> TidsOf(has, t)]
<1>1. /\ t \in quads /\ quads' = quads \ {t} /\ sent' = sent \cup {d}
      /\ UNCHANGED <<ops, phase, gwc, has, got, next, lost>> /\ Typed
  BY DEF Send, IInv
<1>2. d \in [triple : Triple, tids : SUBSET Pair] /\ d.tids = {x \in has.tids : x[1] = t} /\ d.triple = t
  BY <1>1 DEF TidsOf, Typed
<1> HIDE DEF d
<1>3. Typed'
  BY <1>1, <1>2 DEF Typed
<1>4. Orderly' /\ Collaborator' /\ Shown'
  BY <1>1, <1>2 DEF IInv, Orderly, Collaborator, Shown
<1>5. phase = "data"
  BY <1>1 DEF IInv, Newcomer, Typed
<1>6. Known' = Known \cup d.tids /\ Dropped' = Dropped
  BY <1>1 DEF Known, Dropped
<1>7. Len(ops) \in Nat /\ gwc \in Nat /\ gwc <= Len(ops) /\ ops \in Seq(Op)
  BY <1>1, LenProperties DEF Typed
<1>8. Timely(gwc) /\ Whole(gwc)
  BY <1>5 DEF IInv, Newcomer
<1>9. ASSUME NEW x \in d.tids
      PROVE  Made(ops, x) /\ (x[2] <= gwc => Alive(ops, x, gwc))
  <2>1. x \in Pair /\ Alive(ops, x, Len(ops))
    BY <1>1, <1>2 DEF IInv, Collaborator, Typed
  <2>2. x[2] <= gwc => Alive(ops, x, gwc)
    BY <1>7, <2>1, AliveEarlier
  <2> QED
    BY <2>1, <2>2 DEF Alive
<1>10. Timely(gwc)'
  BY <1>1, <1>6, <1>8, <1>9 DEF Timely
<1>11. ASSUME NEW x \in Pair, Alive(ops, x, gwc)
       PROVE  x \in Known' \cup Dropped' \/ x[1] \in quads' \/ Deleted(ops, x, gwc + 1, Len(ops))
  <2>1. CASE x[1] # t
    BY <1>1, <1>6, <1>8, <1>11, <2>1 DEF Whole
  <2>2. CASE x[1] = t
    <3>1. Alive(ops, x, Len(ops)) \/ Deleted(ops, x, gwc + 1, Len(ops))
      BY <1>7, <1>11, AliveEarlier
    <3>2. Alive(ops, x, Len(ops)) => x \in d.tids
      BY <1>2, <2>2 DEF IInv, Collaborator
    <3> QED
      BY <1>6, <3>1, <3>2
  <2> QED
    BY <2>1, <2>2
<1>12. Whole(gwc)'
  BY <1>1, <1>11 DEF Whole
<1>13. Once'
  BY <1>1, <1>2, <1>5, <1>6 DEF IInv, Once
<1> QED
  BY <1>1, <1>3, <1>4, <1>5, <1>10, <1>12, <1>13 DEF IInv, Newcomer

\* A datum is inserted, with the triple and one of the TIDs that there were.
LEMMA InsertCorrect == ASSUME IInv, NEW d \in sent, Insert(d) PROVE IInv'
<1>1. PICK kept \in Written(d.tids) :
        /\ got' = [graph |-> got.graph \cup {d.triple}, tids |-> got.tids \cup kept]
        /\ lost' = lost \cup (d.tids \ kept)
  BY DEF Insert
<1>2. sent' = sent \ {d} /\ UNCHANGED <<ops, phase, gwc, quads, has, next>> /\ Typed
  BY DEF Insert, IInv
<1>3. kept \subseteq d.tids
  BY DEF Written
<1>4. /\ d.triple \in Triple /\ d.tids \in SUBSET Pair
      /\ got.graph \in SUBSET Triple /\ got.tids \in SUBSET Pair
  BY <1>2 DEF Typed
<1>5. got'.graph = got.graph \cup {d.triple} /\ got'.tids = got.tids \cup kept
  BY <1>1
<1>6. Typed'
  BY <1>1, <1>2, <1>3, <1>4 DEF Typed
<1>7. Orderly' /\ Collaborator' /\ Shown'
  BY <1>2, <1>3, <1>5 DEF IInv, Orderly, Collaborator, Shown
<1>8. phase = "data"
  BY <1>2 DEF IInv, Newcomer, Typed
<1>9. Known' \subseteq Known /\ Known \subseteq Known' \cup (d.tids \ kept)
  BY <1>2, <1>3, <1>5 DEF Known
<1>10. Dropped' = Dropped \cup {x \in d.tids \ kept : x[2] <= gwc}
  BY <1>1, <1>2 DEF Dropped
<1>11. Timely(gwc) /\ Whole(gwc)
  BY <1>8 DEF IInv, Newcomer
<1>12. Timely(gwc)'
  BY <1>2, <1>9, <1>11 DEF Timely
<1>13. Whole(gwc)'
  BY <1>2, <1>9, <1>10, <1>11 DEF Whole, Alive
<1>14. Once'
  <2>1. \A x \in d.tids : x[1] = d.triple /\ x \notin got.tids
    BY DEF IInv, Shown, Once
  <2>2. \A x \in Dropped' : x \notin got'.tids /\ x[1] \in got'.graph
    BY <1>3, <1>5, <1>8, <1>10, <2>1 DEF IInv, Once
  <2> QED
    BY <1>2, <1>5, <2>2 DEF IInv, Once
<1> QED
  BY <1>2, <1>6, <1>7, <1>8, <1>12, <1>13, <1>14 DEF IInv, Newcomer

\* All has come, and the operations since the snapshot are to be applied.
LEMMA CompleteCorrect == IInv /\ Complete => IInv'
<1> SUFFICES ASSUME IInv, Complete
             PROVE  IInv'
  OBVIOUS
<1>1. /\ phase = "data" /\ quads = {} /\ sent = {} /\ phase' = "applied" /\ next' = gwc + 1
      /\ UNCHANGED <<ops, gwc, quads, sent, has, got, lost>> /\ Typed
  BY DEF Complete, IInv
<1>2. Len(ops) \in Nat /\ gwc \in 0 .. Len(ops) /\ next' - 1 = gwc
  BY <1>1, LenProperties DEF Typed
<1>3. Typed'
  BY <1>1, <1>2 DEF Typed
<1>4. Orderly' /\ Collaborator' /\ Shown'
  BY <1>1 DEF IInv, Orderly, Collaborator, Shown
<1>5. Known' = Known /\ Dropped' = Dropped
  BY <1>1 DEF Known, Dropped
<1>6. Timely(gwc) /\ Whole(gwc)
  BY <1>1 DEF IInv, Newcomer
<1>7. Timely(next - 1)' /\ Whole(next - 1)'
  BY <1>1, <1>2, <1>5, <1>6 DEF Timely, Whole
<1>8. Once'
  BY <1>1, <1>5 DEF IInv, Once
<1>9. gwc' < next'
  BY <1>1, <1>2
<1> QED
  BY <1>1, <1>3, <1>4, <1>7, <1>8, <1>9 DEF IInv, Newcomer

\* An operation is applied after the snapshot: it adds or deletes again what was read
\* too late, and what was read in time it adds or deletes for the first time.
LEMMA UpdateCorrect == IInv /\ Update => IInv'
<1> SUFFICES ASSUME IInv, Update
             PROVE  IInv'
  OBVIOUS
<1> DEFINE n == Len(ops)
           k == next - 1
<1>1. /\ phase = "applied" /\ next <= n /\ got' = Applied(got, ops[next], next)
      /\ next' = next + 1
      /\ UNCHANGED <<ops, phase, gwc, quads, sent, has, lost>> /\ Typed
  BY DEF Update, IInv
<1>2. /\ n \in Nat /\ n <= MaxOps /\ next \in 1 .. n /\ next \in 1 .. MaxOps
      /\ k \in 0 .. n - 1 /\ k + 1 = next /\ next' - 1 = next
      /\ ops \in Seq(Op) /\ ops[next] \in Op
  BY <1>1, LenProperties, ElementOfSeq, SnapshotsAssumption DEF Typed
<1> DEFINE op == ops[next]
<1>3. /\ got' \in [graph : SUBSET Triple, tids : SUBSET Pair]
      /\ \A x \in Pair : x \in got'.tids <=>
           (x[2] = next /\ x[1] \in op.inserts) \/ (x \in got.tids /\ x \notin op.deletes)
      /\ \A t \in Triple : t \in got'.graph <=>
           \/ t \in op.inserts
           \/ t \in got.graph /\ ~ (TidsOf(got, t) # {} /\ TidsOf(got, t) \subseteq op.deletes)
  BY <1>1, <1>2, AppliedTyped DEF Typed
<1>4. Typed'
  BY <1>1, <1>2, <1>3 DEF Typed
<1>5. Orderly' /\ Collaborator'
  BY <1>1 DEF IInv, Orderly, Collaborator
<1>6. sent = {} /\ quads = {} /\ Timely(k) /\ Whole(k)
  BY <1>1 DEF IInv, Newcomer
<1>7. /\ Known = got.tids /\ Known' = got'.tids /\ got.tids \subseteq Pair /\ got'.tids \subseteq Pair
      /\ Dropped' = Dropped
  BY <1>1, <1>3, <1>6 DEF Known, Dropped, Typed
<1> HIDE DEF op, k, n
<1>8. \A x \in Pair : Alive(ops, x, next) <=>
        (x[2] = next /\ x[1] \in op.inserts) \/ (Alive(ops, x, k) /\ x \notin op.deletes)
  <2> TAKE x \in Pair
  <2>1. Alive(ops, x, k + 1) <=>
          (x[2] = k + 1 /\ x[1] \in ops[k + 1].inserts) \/ (Alive(ops, x, k) /\ x \notin ops[k + 1].deletes)
    BY <1>2, AliveNext DEF n
  <2> QED
    BY <1>2, <2>1 DEF op
<1>9. \A x \in Pair : x[2] \in Nat /\ x[2] >= 1
  BY SnapshotsAssumption DEF Pair
<1>10. ASSUME NEW x \in got'.tids
       PROVE  Made(ops, x) /\ (x[2] <= next => Alive(ops, x, next))
  <2>1. x \in Pair
    BY <1>7
  <2>2. CASE x[2] = next /\ x[1] \in op.inserts
    <3>1. Made(ops, x)
      BY <1>2, <2>2 DEF Made, n, op
    <3> QED
      BY <1>8, <2>1, <2>2, <3>1
  <2>3. CASE x \in got.tids /\ x \notin op.deletes
    <3>1. Made(ops, x) /\ (x[2] <= k => Alive(ops, x, k))
      BY <1>6, <1>7, <2>3 DEF Timely
    <3>2. CASE x[2] <= k
      BY <1>8, <2>1, <2>3, <3>1, <3>2
    <3>3. CASE x[2] = next
      BY <1>8, <2>1, <3>1, <3>3 DEF Made, op
    <3> QED
      BY <1>2, <1>9, <2>1, <3>1, <3>2, <3>3
  <2> QED
    BY <1>3, <2>1, <2>2, <2>3
<1>11. ASSUME NEW x \in Pair, Alive(ops, x, next)
       PROVE  x \in got'.tids \cup Dropped \/ Deleted(ops, x, next + 1, n)
  <2>1. CASE x[2] = next /\ x[1] \in op.inserts
    BY <1>3, <2>1
  <2>2. CASE Alive(ops, x, k) /\ x \notin op.deletes
    <3>1. x \in got.tids \cup Dropped \/ Deleted(ops, x, k + 1, n)
      BY <1>6, <1>7, <2>2 DEF Whole, n
    <3>2. Deleted(ops, x, next, n) => Deleted(ops, x, next + 1, n)
      BY <1>2, <2>2 DEF Deleted, op
    <3> QED
      BY <1>2, <1>3, <2>2, <3>1, <3>2
  <2> QED
    BY <1>8, <1>11, <2>1, <2>2
<1>12. Timely(next - 1)' /\ Whole(next - 1)'
  BY <1>1, <1>2, <1>7, <1>10, <1>11 DEF Timely, Whole, n
<1>13. Shown'
  <2>1. ASSUME NEW x \in got'.tids
        PROVE  x[1] \in got'.graph
    <3>1. x \in Pair /\ x[1] \in Triple
      BY <1>7 DEF Pair
    <3>2. CASE x[1] \in op.inserts
      BY <1>3, <3>1, <3>2
    <3>3. CASE x \in got.tids /\ x \notin op.deletes
      <4>1. x[1] \in got.graph /\ x \in TidsOf(got, x[1])
        BY <3>3 DEF IInv, Shown, TidsOf
      <4> QED
        BY <1>3, <3>1, <3>3, <4>1
    <3> QED
      BY <1>3, <3>1, <3>2, <3>3
  <2> QED
    BY <1>1, <1>6, <2>1 DEF Shown
<1>14. Once'
  <2>1. gwc < next /\ gwc \in 0 .. n
    BY <1>1 DEF IInv, Newcomer, Typed, n
  <2>2. \A x \in Dropped : x \in Pair /\ x[2] <= gwc
    BY <1>1 DEF Dropped, Typed
  <2>3. \A x \in Dropped : x[2] # next
    BY <1>2, <1>9, <2>1, <2>2
  <2>4. \A x \in Dropped : x \notin got'.tids
    BY <1>3, <2>2, <2>3 DEF IInv, Once
  <2> QED
    BY <1>1, <1>6, <1>7, <2>4 DEF Once
<1>15. gwc' < next'
  <2>1. gwc < next /\ gwc \in 0 .. n
    BY <1>1 DEF IInv, Newcomer, Typed, n
  <2> QED
    BY <1>1, <1>2, <2>1
<1> QED
  BY <1>1, <1>4, <1>5, <1>6, <1>12, <1>13, <1>14, <1>15 DEF IInv, Newcomer

-----------------------------------------------------------------------------
(***************************************************************************)
(* The theorems                                                            *)
(***************************************************************************)

\* The invariant holds in every state that is reached.
THEOREM Invariance == Spec => []IInv
<1>1. IInv /\ [Next]_vars => IInv'
  <2> SUFFICES ASSUME IInv, [Next]_vars
               PROVE  IInv'
    OBVIOUS
  <2>1. CASE UNCHANGED vars
    BY <2>1 DEF vars, IInv, Typed, Orderly, Collaborator, Newcomer, Shown, Once, Timely, Whole, Known, Dropped
  <2>2. CASE Apply \/ Take \/ Complete \/ Update
    BY <2>2, ApplyCorrect, TakeCorrect, CompleteCorrect, UpdateCorrect
  <2>3. ASSUME NEW t \in Triple, Send(t)
        PROVE  IInv'
    BY <2>3, SendCorrect
  <2>4. ASSUME NEW d \in sent, Insert(d)
        PROVE  IInv'
    BY <2>4, InsertCorrect
  <2> QED
    BY <2>1, <2>2, <2>3, <2>4 DEF Next
<1> QED
  BY <1>1, InitCorrect, PTL DEF Spec

\* When a newcomer has had the snapshot and all the operations since, it has exactly the
\* TIDs of its collaborator that commit did not drop (SuSetDataset.applySnapshot,
\* TidsStore.commit).
THEOREM SameTids == Spec => []TidsConverge
<1>1. IInv => TidsConverge
  <2> SUFFICES ASSUME IInv, CaughtUp
               PROVE  got.tids = has.tids \ Dropped
    BY DEF TidsConverge
  <2>1. /\ sent = {} /\ quads = {} /\ Timely(next - 1) /\ Whole(next - 1)
        /\ next - 1 = Len(ops) /\ Len(ops) \in Nat /\ ops \in Seq(Op)
        /\ got.tids \subseteq Pair /\ has.tids \subseteq Pair
    BY LenProperties DEF IInv, Newcomer, CaughtUp, Typed
  <2>2. Known = got.tids
    BY <2>1 DEF Known
  <2>3. ASSUME NEW x \in Pair
        PROVE  x \in got.tids <=> Alive(ops, x, Len(ops)) /\ x \notin Dropped
    <3>1. Made(ops, x) => x[2] <= Len(ops)
      BY <2>1 DEF Made
    <3>2. ~ Deleted(ops, x, Len(ops) + 1, Len(ops))
      BY <2>1 DEF Deleted
    <3>3. x \in Dropped => x \notin got.tids
      BY DEF IInv, Once
    <3> QED
      BY <2>1, <2>2, <3>1, <3>2, <3>3 DEF Timely, Whole
  <2> QED
    BY <2>1, <2>3 DEF IInv, Collaborator
<1> QED
  BY <1>1, Invariance, PTL

\* The newcomer then shows every triple that its collaborator does, unless commit dropped
\* one of the triple's TIDs (SuSetDataset.takeSnapshot, applySnapshot).  Without that
\* reservation it is not so (Snapshots_lost), nor is the converse (Snapshots_converge).
THEOREM AllThere == Spec => []NothingLost
<1>1. IInv /\ TidsConverge => NothingLost
  BY DEF IInv, Collaborator, Shown, TidsConverge, NothingLost
<1> QED
  BY <1>1, Invariance, SameTids, PTL

=============================================================================
