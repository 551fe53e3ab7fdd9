---------------------------- MODULE SuSet_proofs ----------------------------
(***************************************************************************)
(* What SuSet guarantees for any set of clones and triples, any constraint *)
(* and any number of operations.                                           *)
(***************************************************************************)
EXTENDS SuSet, TLAPS

-----------------------------------------------------------------------------
(* Vector clocks *)

\* Ticking a clock touches one entry, and leaves a clock.
LEMMA TickedClock ==
  ASSUME NEW c \in Clone, NEW t \in Clock, NEW n \in Nat
  PROVE  /\ Ticked(t, c, n) \in Clock
         /\ Ticked(t, c, n)[c] = t[c] + n
         /\ \A d \in Clone \ {c} : Ticked(t, c, n)[d] = t[d]
  BY DEF Ticked, Clock

\* The join of two clocks is a clock, and is their maximum entry by entry.
LEMMA JoinClock ==
  ASSUME NEW t \in Clock, NEW u \in Clock
  PROVE  /\ Join(t, u) \in Clock
         /\ \A d \in Clone : /\ t[d] < u[d] => Join(t, u)[d] = u[d]
                             /\ u[d] <= t[d] => Join(t, u)[d] = t[d]
  BY DEF Join, Clock

-----------------------------------------------------------------------------
(* Type correctness *)

\* A step of the application or of the engine, whatever the constraints add
AnyNext ==
  \E c \in Clone :
    \/ \E patch \in Patch : Transact(c, patch)
    \/ TransactNothing(c)
    \/ \E o \in ops, a \in Patch : Apply(c, o, a)
    \/ Restart(c)

\* The assertions of the constraints are patches, and so Next is such a step.
LEMMA NextIsAny == Next => AnyNext
  BY SuSetAssumption DEF Next, AnyNext

\* A message a clone makes of well-typed parts is an operation.
LEMMA MessageType ==
  ASSUME TypeOK, NEW c \in Clone, NEW t \in Clock,
         NEW dels \in SUBSET (Triple \X Tid), NEW ins \in SUBSET Triple
  PROVE  /\ OperationMessage(c, t, dels, ins) \in Operation
         /\ TidOf(OperationMessage(c, t, dels, ins)) = <<c, t[c]>>
         /\ TidOf(OperationMessage(c, t, dels, ins)) \in Tid
  BY DEF TypeOK, OperationMessage, Operation, Clock, TidOf, Ticks, Tid

\* The patches built from well-typed operations and assertions are well typed.
LEMMA ApplyTypes ==
  ASSUME TypeOK, NEW c \in Clone, NEW o \in Operation, NEW a \in Patch,
         NEW tid \in Tid
  PROVE  /\ FindTids(c, a.deletes) \in SUBSET (Triple \X Tid)
         /\ CxnDeletes(c, o, a) \in SUBSET (Triple \X Tid)
         /\ Patched(graph[c], GraphPatch(c, o, a)) \in SUBSET Triple
         /\ Patched(tids[c], TidPatch(c, o, a, tid)) \in SUBSET (Triple \X Tid)
<1>1. TidOf(o) \in Tid
  BY DEF Operation, Clock, TidOf, Ticks, Tid
<1>2. /\ o.inserts \in SUBSET Triple
      /\ a.deletes \in SUBSET Triple
      /\ a.inserts \in SUBSET Triple
  BY DEF Operation, Patch
<1>3. FindTids(c, a.deletes) \in SUBSET (Triple \X Tid)
  BY DEF FindTids, TypeOK
<1>4. CxnDeletes(c, o, a) \in SUBSET (Triple \X Tid)
  BY <1>1, <1>2, <1>3 DEF CxnDeletes, Withs
<1>5. GraphPatch(c, o, a).inserts \in SUBSET Triple
  BY <1>2 DEF GraphPatch, AppliedPatch, Append, Kept
<1>6. Patched(graph[c], GraphPatch(c, o, a)) \in SUBSET Triple
  BY <1>5 DEF Patched, TypeOK
<1>7. TidPatch(c, o, a, tid).inserts \in SUBSET (Triple \X Tid)
  BY <1>1, <1>2 DEF TidPatch, Append, Kept, Withs
<1>8. Patched(tids[c], TidPatch(c, o, a, tid)) \in SUBSET (Triple \X Tid)
  BY <1>7 DEF Patched, TypeOK
<1> QED
  BY <1>3, <1>4, <1>6, <1>8

\* Journalling an operation leaves a well-typed journal state.
LEMMA JournalledType ==
  ASSUME NEW j \in [time : Clock, gwc : Clock], NEW t \in Clock,
         NEW o \in Operation
  PROVE  Journalled(j, t, o) \in [time : Clock, gwc : Clock]
  BY JoinClock DEF Journalled, Operation

\* Every step keeps the types.
LEMMA TypeStep == TypeOK /\ [AnyNext]_vars => TypeOK'
<1> SUFFICES ASSUME TypeOK, [AnyNext]_vars
             PROVE  TypeOK'
  OBVIOUS
<1>1. ASSUME NEW c \in Clone, NEW patch \in Patch, Transact(c, patch)
      PROVE  TypeOK'
  <2> DEFINE now == Ticked(time[c], c, 1)
             op == OperationMessage(c, now, FindTids(c, patch.deletes), patch.inserts)
  <2>1. now \in Clock
    BY TickedClock DEF TypeOK
  <2>2. /\ FindTids(c, patch.deletes) \in SUBSET (Triple \X Tid)
        /\ patch.inserts \in SUBSET Triple
    BY DEF TypeOK, FindTids, Patch
  <2>3. /\ op \in Operation
        /\ TidOf(op) \in Tid
    BY <2>1, <2>2, MessageType
  <2>4. /\ op.deletes = FindTids(c, patch.deletes)
        /\ op.inserts = patch.inserts
    BY DEF OperationMessage
  <2>5. Journalled(journal[c], now, op) \in [time : Clock, gwc : Clock]
    BY <2>1, <2>3, JournalledType DEF TypeOK
  <2>6. Patched(graph[c], patch) \in SUBSET Triple
    BY DEF TypeOK, Patched, Patch
  <2>7. Patched(tids[c], [deletes |-> op.deletes,
                          inserts |-> Withs(op.inserts, TidOf(op))])
          \in SUBSET (Triple \X Tid)
    BY <2>2, <2>3, <2>4 DEF TypeOK, Patched, Withs
  <2> HIDE DEF now, op
  <2> QED
    BY <1>1, <2>1, <2>3, <2>5, <2>6, <2>7 DEF Transact, TypeOK, now, op
<1>2. ASSUME NEW c \in Clone, TransactNothing(c)
      PROVE  TypeOK'
  BY <1>2, TickedClock DEF TransactNothing, TypeOK
<1>3. ASSUME NEW c \in Clone, NEW o \in ops, NEW a \in Patch, Apply(c, o, a)
      PROVE  TypeOK'
  <2> DEFINE joined == Join(time[c], o.time)
             localTime == Ticked(joined, c, 1)
             cxnTime == Ticked(joined, c, 2)
             cxn == OperationMessage(c, cxnTime, CxnDeletes(c, o, a), a.inserts)
             applied == Journalled(journal[c], localTime, o)
  <2>1. o \in Operation /\ a \in Patch
    BY DEF TypeOK
  <2>2. joined \in Clock
    BY <2>1, JoinClock DEF TypeOK, Operation
  <2>3. localTime \in Clock /\ cxnTime \in Clock
    BY <2>2, TickedClock
  <2>4. CxnDeletes(c, o, a) \in SUBSET (Triple \X Tid) /\ a.inserts \in SUBSET Triple
    BY <2>1, ApplyTypes, MessageType, <2>3 DEF Patch
  <2>5. cxn \in Operation /\ TidOf(cxn) \in Tid
    BY <2>3, <2>4, MessageType
  <2>6. applied \in [time : Clock, gwc : Clock]
    BY <2>1, <2>3, JournalledType DEF TypeOK
  <2>7. Journalled(applied, cxnTime, cxn) \in [time : Clock, gwc : Clock]
    BY <2>3, <2>5, <2>6, JournalledType
  <2>8. /\ Patched(graph[c], GraphPatch(c, o, a)) \in SUBSET Triple
        /\ Patched(tids[c], TidPatch(c, o, a, TidOf(cxn))) \in SUBSET (Triple \X Tid)
    BY <2>1, <2>5, ApplyTypes
  <2> HIDE DEF joined, localTime, cxnTime, cxn, applied
  <2> QED
    BY <1>3, <2>3, <2>5, <2>6, <2>7, <2>8
    DEF Apply, TypeOK, joined, localTime, cxnTime, cxn, applied
<1>4. ASSUME NEW c \in Clone, Restart(c)
      PROVE  TypeOK'
  BY <1>4 DEF Restart, TypeOK
<1>5. CASE UNCHANGED vars
  BY <1>5 DEF vars, TypeOK
<1> QED
  BY <1>1, <1>2, <1>3, <1>4, <1>5 DEF AnyNext

\* Every reachable state has the types of TypeOK.
THEOREM TypeCorrect == Spec => []TypeOK
<1>1. Init => TypeOK
  BY DEF Init, TypeOK, Clock
<1> QED
  BY <1>1, TypeStep, NextIsAny, PTL DEF Spec

-----------------------------------------------------------------------------
(***************************************************************************)
(* Frontiers.  G[c] is how far c has come with each source (its global     *)
(* clock), O the operations there are.  A clone's frontier moves in two    *)
(* ways only: it takes delivery of an operation, or it makes one.          *)
(***************************************************************************)
Frontier == [c \in Clone |-> journal[c].gwc]

Reached(O, g) == {o \in O : Ticks(o) <= g[o.src]}

InsertTids(o) == Withs(o.inserts, TidOf(o))

NobodyAhead(O, G) ==
  /\ \A c, d \in Clone : G[c][d] <= G[d][d]
  /\ \A o \in O, d \in Clone : o.time[d] <= G[d][d]

OwnTicks(O) ==
  \A o, p \in O : o.src = p.src /\ Ticks(o) = Ticks(p) => o = p

PrevIsLast(O) ==
  \A o, p \in O : o.src = p.src /\ Ticks(p) < Ticks(o) => Ticks(p) <= o.prev

DeletesKnown(O) ==
  \A o \in O : \A tt \in o.deletes :
    \E p \in O : Before(p, o) /\ tt \in InsertTids(p)

PastReached(O, G) ==
  \A c \in Clone : \A o \in Reached(O, G[c]) :
    \A p \in O : Before(p, o) => p \in Reached(O, G[c])

Coherent(O, G) ==
  /\ O \in SUBSET Operation
  /\ G \in [Clone -> Clock]
  /\ NobodyAhead(O, G)
  /\ OwnTicks(O)
  /\ PrevIsLast(O)
  /\ DeletesKnown(O)
  /\ PastReached(O, G)

Advanced(G, c, o) == [G EXCEPT ![c] = [@ EXCEPT ![o.src] = Ticks(o)]]

\* Advancing a frontier to an operation changes one entry of one clone.
LEMMA AdvancedEntries ==
  ASSUME NEW G \in [Clone -> Clock], NEW c \in Clone, NEW o \in Operation
  PROVE  /\ Advanced(G, c, o) \in [Clone -> Clock]
         /\ Advanced(G, c, o)[c][o.src] = Ticks(o)
         /\ \A d \in Clone \ {o.src} : Advanced(G, c, o)[c][d] = G[c][d]
         /\ \A d \in Clone \ {c} : Advanced(G, c, o)[d] = G[d]
         /\ Ticks(o) \in Nat /\ o.src \in Clone
  BY DEF Advanced, Clock, Operation, Ticks

\* o is another's next operation, and c has what o knows of third processes
Deliverable(G, c, o) ==
  /\ o.src # c
  /\ o.prev <= G[c][o.src]
  /\ G[c][o.src] < Ticks(o)
  /\ \A d \in Clone \ {c, o.src} : o.time[d] <= G[c][d]

\* n is a new operation of c, made when it has come to G[c]
Publishable(O, G, c, n) ==
  /\ n \in Operation
  /\ n.src = c
  /\ n.prev = G[c][c]
  /\ G[c][c] < Ticks(n)
  /\ \A d \in Clone \ {c} : n.time[d] = G[c][d]
  /\ \A tt \in n.deletes : \E p \in Reached(O, G[c]) : tt \in InsertTids(p)

\* c goes on from G to H by taking n, and nothing else, on top of what it had;
\* O and P are the operations there are before and after
TakesOn(O, P, G, H, c, n) ==
  /\ Coherent(P, H)
  /\ n \in P /\ O \subseteq P
  /\ Reached(P, H[c]) = Reached(O, G[c]) \cup {n}
  /\ \A p \in Reached(O, G[c]) : ~ Before(n, p)
  /\ \A d \in Clone \ {c} : Reached(P, H[d]) = Reached(O, G[d])

\* Taking delivery of the next operation of a source, when no third process is
\* known to be further on, adds that operation and no other to those reached,
\* and keeps the group coherent.
LEMMA Delivery ==
  ASSUME NEW O, NEW G, Coherent(O, G),
         NEW c \in Clone, NEW o \in O, Deliverable(G, c, o)
  PROVE  TakesOn(O, O, G, Advanced(G, c, o), c, o)
<1> DEFINE A == Advanced(G, c, o)
<1> USE DEF Deliverable
<1>0. O \in SUBSET Operation /\ G \in [Clone -> Clock]
  BY DEF Coherent
<1>1. /\ A \in [Clone -> Clock]
      /\ A[c][o.src] = Ticks(o)
      /\ \A d \in Clone \ {o.src} : A[c][d] = G[c][d]
      /\ \A d \in Clone \ {c} : A[d] = G[d]
      /\ o.src \in Clone
  BY <1>0, AdvancedEntries
<1>2. \A p \in O : /\ Ticks(p) \in Nat /\ p.prev \in Nat /\ p.src \in Clone
                   /\ p.time \in [Clone -> Nat]
                   /\ Ticks(p) = p.time[p.src]
  BY <1>0 DEF Operation, Ticks, Clock
<1>3. \A d, e \in Clone : G[d][e] \in Nat /\ A[d][e] \in Nat
  BY <1>0, <1>1 DEF Clock
<1> HIDE DEF A
<1>4. ASSUME NEW p \in O
      PROVE  Ticks(p) <= A[c][p.src] <=> p = o \/ Ticks(p) <= G[c][p.src]
  <2>1. CASE p.src # o.src
    BY <1>1, <1>2, <2>1
  <2>2. CASE p.src = o.src
    <3>1. Ticks(p) = Ticks(o) => p = o
      BY <2>2 DEF Coherent, OwnTicks
    <3>2. Ticks(p) < Ticks(o) => Ticks(p) <= o.prev
      BY <2>2 DEF Coherent, PrevIsLast
    <3>3. /\ Ticks(p) \in Nat /\ Ticks(o) \in Nat /\ o.prev \in Nat
          /\ G[c][o.src] \in Nat
      BY <1>1, <1>2, <1>3
    <3>4. A[c][p.src] = Ticks(o) /\ G[c][p.src] = G[c][o.src]
      BY <1>1, <2>2
    <3>5. CASE p = o
      BY <3>3, <3>4, <3>5
    <3>6. CASE p # o
      BY <3>1, <3>2, <3>3, <3>4, <3>6
    <3> QED
      BY <3>5, <3>6
  <2> QED
    BY <2>1, <2>2
<1>5. Reached(O, A[c]) = Reached(O, G[c]) \cup {o}
  BY <1>4 DEF Reached
<1>6. o \notin Reached(O, G[c])
  BY <1>1, <1>2, <1>3 DEF Reached
<1>7. NobodyAhead(O, A)
  BY <1>1, <1>2, <1>3 DEF NobodyAhead, Coherent
<1>8. PastReached(O, A)
  <2> SUFFICES ASSUME NEW d \in Clone, NEW q \in Reached(O, A[d]),
                      NEW p \in O, Before(p, q)
               PROVE  p \in Reached(O, A[d])
    BY DEF PastReached
  <2>1. CASE d # c
    BY <1>1, <2>1 DEF Coherent, PastReached
  <2>2. CASE d = c /\ q # o
    BY <1>5, <2>2 DEF Coherent, PastReached
  <2>3. CASE d = c /\ q = o
    <3>1. Ticks(p) <= o.time[p.src]
      BY <2>3 DEF Before
    <3>2. o.time[c] <= G[c][c]
      BY DEF Coherent, NobodyAhead
    <3>3. p.src # o.src => o.time[p.src] <= G[c][p.src]
      BY <1>2, <3>2
    <3>4. Ticks(p) <= A[c][p.src]
      <4>1. CASE p.src = o.src
        BY <1>1, <1>2, <3>1, <4>1
      <4>2. CASE p.src # o.src
        BY <1>1, <1>2, <1>3, <3>1, <3>3, <4>2
      <4> QED
        BY <4>1, <4>2
    <3> QED
      BY <2>3, <3>4 DEF Reached
  <2> QED
    BY <2>1, <2>2, <2>3
<1>9. Coherent(O, A)
  BY <1>0, <1>1, <1>7, <1>8 DEF Coherent
<1>10. \A p \in Reached(O, G[c]) : ~ Before(o, p)
  BY <1>6 DEF Coherent, PastReached, Reached
<1>11. \A d \in Clone \ {c} : Reached(O, A[d]) = Reached(O, G[d])
  BY <1>1
<1> QED
  BY <1>5, <1>9, <1>10, <1>11 DEF TakesOn, A

\* Making an operation, at a later tick than any public one and with prev the
\* last public tick, adds it to what its maker has reached, leaves the others
\* where they were, and keeps the group coherent.
LEMMA Publication ==
  ASSUME NEW O, NEW G, Coherent(O, G),
         NEW c \in Clone, NEW n, Publishable(O, G, c, n)
  PROVE  TakesOn(O, O \cup {n}, G, Advanced(G, c, n), c, n)
<1> DEFINE A == Advanced(G, c, n)
           P == O \cup {n}
<1> USE DEF Publishable
<1>0. /\ O \in SUBSET Operation /\ P \in SUBSET Operation
      /\ G \in [Clone -> Clock]
  BY DEF Coherent
<1>1. /\ A \in [Clone -> Clock]
      /\ A[c][c] = Ticks(n)
      /\ \A d \in Clone \ {c} : A[c][d] = G[c][d]
      /\ \A d \in Clone \ {c} : A[d] = G[d]
  BY <1>0, AdvancedEntries
<1>2. \A p \in P : /\ Ticks(p) \in Nat /\ p.prev \in Nat /\ p.src \in Clone
                   /\ p.time \in [Clone -> Nat]
                   /\ Ticks(p) = p.time[p.src]
  BY <1>0 DEF Operation, Ticks, Clock
<1>3. \A d, e \in Clone : G[d][e] \in Nat /\ A[d][e] \in Nat
  BY <1>0, <1>1 DEF Clock
<1> HIDE DEF A
<1>4. \A p \in O : p.src = c => Ticks(p) <= G[c][c]
  BY <1>2 DEF Coherent, NobodyAhead
<1>5. n \notin O
  BY <1>2, <1>3, <1>4
<1>6. Reached(P, A[c]) = Reached(O, G[c]) \cup {n}
  <2>1. \A p \in O : Ticks(p) <= A[c][p.src] <=> Ticks(p) <= G[c][p.src]
    BY <1>1, <1>2, <1>3, <1>4
  <2>2. Ticks(n) <= A[c][n.src]
    BY <1>1, <1>2
  <2> QED
    BY <2>1, <2>2 DEF Reached
<1>7. ASSUME NEW d \in Clone \ {c}
      PROVE  Reached(P, A[d]) = Reached(O, G[d])
  <2>1. G[d][c] <= G[c][c]
    BY DEF Coherent, NobodyAhead
  <2>2. ~ (Ticks(n) <= G[d][c])
    BY <1>2, <1>3, <2>1
  <2> QED
    BY <1>1, <2>2 DEF Reached
<1>8. NobodyAhead(P, A)
  <2>1. \A d, e \in Clone : A[d][e] <= A[e][e]
    BY <1>1, <1>2, <1>3 DEF Coherent, NobodyAhead
  <2>2. \A p \in O, e \in Clone : p.time[e] <= A[e][e]
    BY <1>1, <1>2, <1>3 DEF Coherent, NobodyAhead
  <2>3. \A e \in Clone : n.time[e] <= A[e][e]
    BY <1>1, <1>2, <1>3 DEF Coherent, NobodyAhead
  <2> QED
    BY <2>1, <2>2, <2>3 DEF NobodyAhead
<1>9. OwnTicks(P)
  BY <1>2, <1>3, <1>4 DEF Coherent, OwnTicks
<1>10. PrevIsLast(P)
  BY <1>2, <1>3, <1>4 DEF Coherent, PrevIsLast
<1>11. DeletesKnown(P)
  <2>1. ASSUME NEW tt \in n.deletes
        PROVE  \E p \in P : Before(p, n) /\ tt \in InsertTids(p)
    <3>1. PICK p \in Reached(O, G[c]) : tt \in InsertTids(p)
      OBVIOUS
    <3>2. p \in O /\ Ticks(p) <= G[c][p.src]
      BY DEF Reached
    <3>3. Ticks(p) <= n.time[p.src]
      BY <1>2, <1>3, <3>2
    <3> QED
      BY <1>5, <3>1, <3>2, <3>3 DEF Before
  <2>2. ASSUME NEW o \in O, NEW tt \in o.deletes
        PROVE  \E p \in P : Before(p, o) /\ tt \in InsertTids(p)
    BY DEF Coherent, DeletesKnown
  <2> QED
    BY <2>1, <2>2 DEF DeletesKnown
<1>12. PastReached(P, A)
  <2> SUFFICES ASSUME NEW d \in Clone, NEW q \in Reached(P, A[d]),
                      NEW p \in P, Before(p, q)
               PROVE  p \in Reached(P, A[d])
    BY DEF PastReached
  <2>1. ASSUME NEW o \in O
        PROVE  ~ Before(n, o)
    BY <1>2, <1>3 DEF Before, Coherent, NobodyAhead
  <2>2. p \in O
    <3>1. q \in O \/ q = n
      BY DEF Reached
    <3> QED
      BY <2>1, <3>1 DEF Before
  <2>3. CASE q \in Reached(O, G[d])
    BY <1>6, <1>7, <2>2, <2>3 DEF Coherent, PastReached
  <2>4. CASE d = c /\ q = n
    <3>1. Ticks(p) <= n.time[p.src]
      BY <2>4 DEF Before
    <3>2. Ticks(p) <= G[c][p.src]
      BY <1>2, <1>3, <1>4, <2>2, <3>1
    <3> QED
      BY <1>6, <2>2, <2>4, <3>2 DEF Reached
  <2> QED
    BY <1>6, <1>7, <2>3, <2>4
<1>13. Coherent(P, A)
  BY <1>0, <1>1, <1>8, <1>9, <1>10, <1>11, <1>12 DEF Coherent
<1>14. \A p \in Reached(O, G[c]) : ~ Before(n, p)
  BY <1>2, <1>3 DEF Before, Coherent, NobodyAhead, Reached
<1> QED
  BY <1>6, <1>7, <1>13, <1>14 DEF TakesOn, A

-----------------------------------------------------------------------------
(* What a set of operations leaves of the TIDs *)

Visible(S) == Inserted(S) \ Deleted(S)

\* Applying one more operation to the TIDs, removing those it deletes and then
\* adding its own, yields what all the operations leave: nobody can have deleted
\* its TIDs before it.
LEMMA VisibleWith ==
  ASSUME NEW S, NEW o, InsertTids(o) \cap (Deleted(S) \cup o.deletes) = {}
  PROVE  Visible(S \cup {o}) = (Visible(S) \ o.deletes) \cup InsertTids(o)
<1>1. Inserted(S \cup {o}) = Inserted(S) \cup InsertTids(o)
  BY DEF Inserted, InsertTids
<1>2. Deleted(S \cup {o}) = Deleted(S) \cup o.deletes
  BY DEF Deleted
<1> QED
  BY <1>1, <1>2 DEF Visible

\* An operation's TIDs are deleted neither by itself nor by operations which do
\* not have it in their past.
LEMMA FreshTids ==
  ASSUME NEW O, OwnTicks(O), DeletesKnown(O),
         NEW R, NEW o \in O, R \subseteq O, \A p \in R : ~ Before(o, p)
  PROVE  InsertTids(o) \cap (Deleted(R) \cup o.deletes) = {}
<1> SUFFICES ASSUME NEW tt \in InsertTids(o), NEW p \in R \cup {o}, tt \in p.deletes
             PROVE  FALSE
  BY DEF Deleted
<1>1. PICK q \in O : Before(q, p) /\ tt \in InsertTids(q)
  BY DEF DeletesKnown
<1>2. TidOf(q) = TidOf(o)
  BY <1>1 DEF InsertTids, Withs
<1>3. q = o
  BY <1>2 DEF TidOf, OwnTicks
<1> QED
  BY <1>1, <1>3 DEF Before

\* The TIDs after a remote operation are as if the operation had been applied
\* whole, and the constraint's operation after it.
LEMMA AppliedTids ==
  ASSUME NEW c \in Clone, NEW o, NEW a, NEW tid
  PROVE  Patched(tids[c], TidPatch(c, o, a, tid)) =
           (((tids[c] \ o.deletes) \cup InsertTids(o)) \ CxnDeletes(c, o, a))
             \cup Withs(a.inserts, tid)
<1> DEFINE kept == Withs(Kept(o, a), TidOf(o))
           dropped == Withs(o.inserts \cap a.deletes, TidOf(o))
           found == FindTids(c, a.deletes)
           cxns == Withs(a.inserts, tid)
<1>1. kept \cap found = {}
  BY DEF Kept, Withs, FindTids
<1>2. dropped \cap tids[c] \subseteq found
  BY DEF Withs, FindTids
<1>3. /\ InsertTids(o) = kept \cup dropped
      /\ kept \cap dropped = {}
  BY DEF InsertTids, Kept, Withs
<1>4. TidPatch(c, o, a, tid) =
        Append([deletes |-> (o.deletes \cap tids[c]) \ kept, inserts |-> kept],
               [deletes |-> found, inserts |-> cxns])
  BY DEF TidPatch, ToRemove
<1>5. CxnDeletes(c, o, a) = found \cup dropped
  BY DEF CxnDeletes
<1> HIDE DEF kept, dropped, found, cxns
<1>6. /\ TidPatch(c, o, a, tid).inserts = kept \cup cxns
      /\ TidPatch(c, o, a, tid).deletes =
           ((o.deletes \cap tids[c]) \cup found) \ (kept \cup cxns)
  BY <1>1, <1>4 DEF Append
<1> QED
  BY <1>1, <1>2, <1>3, <1>5, <1>6 DEF Patched, cxns

\* The triples with a TID in a set of pairs.
Shown(X) == {t \in Triple : \E tt \in X : tt[1] = t}

\* Adding pairs of one TID shows their triples.
LEMMA ShownWith ==
  ASSUME NEW X, NEW T \in SUBSET Triple, NEW tid
  PROVE  Shown(X \cup Withs(T, tid)) = Shown(X) \cup T
<1>1. \A t \in T : <<t, tid>> \in Withs(T, tid) /\ <<t, tid>>[1] = t
  BY DEF Withs
<1>2. \A tt \in Withs(T, tid) : tt[1] \in T
  BY DEF Withs
<1> QED
  BY <1>1, <1>2 DEF Shown

\* A local patch keeps the graph and the TIDs in agreement.
LEMMA TransactedGraph ==
  ASSUME TypeOK, NEW c \in Clone, graph[c] = Shown(tids[c]),
         NEW patch \in Patch, NEW tid
  PROVE  Patched(graph[c], patch) =
           Shown((tids[c] \ FindTids(c, patch.deletes)) \cup Withs(patch.inserts, tid))
<1> DEFINE left == tids[c] \ FindTids(c, patch.deletes)
<1>1. patch.inserts \in SUBSET Triple
  BY DEF Patch
<1>2. Shown(left) = Shown(tids[c]) \ patch.deletes
  BY DEF Shown, FindTids
<1> HIDE DEF left
<1>3. Shown(left \cup Withs(patch.inserts, tid)) = Shown(left) \cup patch.inserts
  BY ONLY <1>1, ShownWith
<1> QED
  BY <1>2, <1>3 DEF Patched, left

\* So does a remote operation with what the constraints add to it.
LEMMA AppliedGraph ==
  ASSUME TypeOK, NEW c \in Clone, graph[c] = Shown(tids[c]),
         NEW o \in Operation, NEW a \in Patch, NEW tid
  PROVE  Patched(graph[c], GraphPatch(c, o, a)) =
           Shown((((tids[c] \ o.deletes) \cup InsertTids(o)) \ CxnDeletes(c, o, a))
                   \cup Withs(a.inserts, tid))
<1> DEFINE kept == Kept(o, a)
           left == tids[c] \ (o.deletes \cup FindTids(c, a.deletes))
<1>1. /\ kept \in SUBSET Triple /\ a.inserts \in SUBSET Triple
      /\ kept \cap a.deletes = {} /\ a.inserts \cap a.deletes = {}
  BY DEF Patch, Kept, Operation
<1>2. ((tids[c] \ o.deletes) \cup InsertTids(o)) \ CxnDeletes(c, o, a) =
        left \cup Withs(kept, TidOf(o))
  <2>1. InsertTids(o) = Withs(kept, TidOf(o)) \cup Withs(o.inserts \cap a.deletes, TidOf(o))
    BY DEF InsertTids, Kept, Withs
  <2>2. Withs(o.inserts \cap a.deletes, TidOf(o)) \cap tids[c] \subseteq FindTids(c, a.deletes)
    BY DEF Withs, FindTids
  <2>3. Withs(kept, TidOf(o)) \cap (FindTids(c, a.deletes)
          \cup Withs(o.inserts \cap a.deletes, TidOf(o))) = {}
    BY DEF Withs, FindTids, Kept
  <2> QED
    BY <2>1, <2>2, <2>3 DEF CxnDeletes
<1>3. Shown((left \cup Withs(kept, TidOf(o))) \cup Withs(a.inserts, tid)) =
        (Shown(left) \cup kept) \cup a.inserts
  <2> DEFINE more == left \cup Withs(kept, TidOf(o))
  <2> HIDE DEF left, kept, more
  <2>1. Shown(left \cup Withs(kept, TidOf(o))) = Shown(left) \cup kept
    BY ONLY <1>1, ShownWith
  <2>2. Shown(more \cup Withs(a.inserts, tid)) = Shown(more) \cup a.inserts
    BY ONLY <1>1, ShownWith
  <2> QED
    BY <2>1, <2>2 DEF more
<1>4. ASSUME NEW t \in Triple, t \notin kept, t \notin a.inserts
      PROVE  t \in Shown(left) <=>
               t \in graph[c] /\ ~ (t \in Emptied(c, o) \ o.inserts) /\ t \notin Existing(c, a)
  <2>1. CASE t \in a.deletes
    BY <2>1 DEF Shown, FindTids, Existing
  <2>2. CASE t \notin a.deletes
    <3>1. t \notin o.inserts /\ t \notin Existing(c, a)
      BY <1>4, <2>2 DEF Kept, Existing
    <3>2. t \in Shown(left) <=> \E tt \in FindTids(c, {t}) : tt \notin o.deletes
      BY <2>2 DEF Shown, FindTids
    <3>3. t \in graph[c] <=> FindTids(c, {t}) # {}
      BY DEF Shown, FindTids
    <3>4. t \in Emptied(c, o) <=>
            FindTids(c, {t}) # {} /\ \A tt \in FindTids(c, {t}) : tt \in o.deletes
      BY DEF Emptied, ToRemove, FindTids
    <3> QED
      BY <3>1, <3>2, <3>3, <3>4
  <2> QED
    BY <2>1, <2>2
<1>5. /\ AppliedPatch(c, o).deletes = Emptied(c, o) \ o.inserts
      /\ Existing(c, a) \subseteq a.deletes
  BY DEF AppliedPatch, Append, Existing
<1>6. /\ GraphPatch(c, o, a).inserts = kept \cup a.inserts
      /\ GraphPatch(c, o, a).deletes =
           ((Emptied(c, o) \ o.inserts) \cup Existing(c, a)) \ (kept \cup a.inserts)
  BY <1>1, <1>5 DEF GraphPatch, Append
<1> HIDE DEF kept, left
<1>7. graph[c] \in SUBSET Triple /\ Shown(left) \in SUBSET Triple
  BY DEF TypeOK, Shown
<1>8. Patched(graph[c], GraphPatch(c, o, a)) = (Shown(left) \cup kept) \cup a.inserts
  BY <1>1, <1>4, <1>6, <1>7 DEF Patched
<1> QED
  BY <1>2, <1>3, <1>8

-----------------------------------------------------------------------------
(***************************************************************************)
(* The inductive invariant.  A clone's clock in memory, the clock it has   *)
(* saved and its global clock agree about every other process; about the   *)
(* clone itself they are in order, with ticks in memory the furthest on.   *)
(***************************************************************************)
InStep(c, j, t) ==
  /\ j.gwc[c] <= j.time[c]
  /\ j.time[c] <= t[c]
  /\ \A d \in Clone \ {c} : j.time[d] = j.gwc[d] /\ t[d] = j.gwc[d]

ClocksAgree == \A c \in Clone : InStep(c, journal[c], time[c])

StoreInv ==
  \A c \in Clone : /\ tids[c] = Visible(Reached(ops, Frontier[c]))
                   /\ graph[c] = Shown(tids[c])

IInv == TypeOK /\ ClocksAgree /\ Coherent(ops, Frontier) /\ StoreInv

AheadOnlyAt(t, u, s) == t[s] < u[s] /\ \A d \in Clone \ {s} : u[d] <= t[d]

\* Joining a clock that is ahead in one entry only moves on that entry.
LEMMA JoinOne ==
  ASSUME NEW t \in Clock, NEW u \in Clock, NEW s \in Clone, AheadOnlyAt(t, u, s)
  PROVE  Join(t, u) = [t EXCEPT ![s] = u[s]]
<1> USE DEF AheadOnlyAt
<1>1. \A d \in Clone : t[d] \in Nat /\ u[d] \in Nat
  BY DEF Clock
<1>2. \A d \in Clone : (IF t[d] < u[d] THEN u[d] ELSE t[d]) = [t EXCEPT ![s] = u[s]][d]
  BY <1>1 DEF Clock
<1>3. [t EXCEPT ![s] = u[s]] = [d \in Clone |-> [t EXCEPT ![s] = u[s]][d]]
  BY DEF Clock
<1> QED
  BY <1>2, <1>3 DEF Join

\* What an operation on the ready list tells of the clocks: it is another
\* process's, and joining its time moves on the entry of its source alone.
LEMMA ReadyClocks ==
  ASSUME IInv, NEW c \in Clone, NEW o \in ops, ReadyFor(c, o), InSequence(c, o)
  PROVE  /\ o \in Operation /\ o.src \in Clone \ {c} /\ o.time \in Clock
         /\ time[c] \in Clock /\ Frontier \in [Clone -> Clock]
         /\ Frontier[c] = journal[c].gwc
         /\ Deliverable(Frontier, c, o)
         /\ Join(time[c], o.time) = [time[c] EXCEPT ![o.src] = Ticks(o)]
         /\ Join(journal[c].gwc, o.time) = Advanced(Frontier, c, o)[c]
<1>1. /\ o \in Operation /\ o.src \in Clone /\ o.time \in Clock
      /\ time[c] \in Clock /\ Frontier \in [Clone -> Clock]
      /\ Frontier[c] = journal[c].gwc
      /\ journal[c].gwc \in Clock /\ journal[c].time \in Clock
  BY DEF IInv, TypeOK, Operation, Frontier
<1>2. o.time[c] <= Frontier[c][c] /\ Frontier[c][c] <= time[c][c]
  <2>1. o.time[c] <= Frontier[c][c]
    BY DEF IInv, Coherent, NobodyAhead
  <2>2. journal[c].gwc[c] <= journal[c].time[c] /\ journal[c].time[c] <= time[c][c]
    BY DEF IInv, ClocksAgree, InStep
  <2> QED
    BY <1>1, <2>1, <2>2 DEF Clock
<1>3. o.src # c
  BY <1>1, <1>2 DEF InSequence, Ticks, Clock
<1>4. \A d \in Clone \ {c} : time[c][d] = Frontier[c][d]
  BY <1>1 DEF IInv, ClocksAgree, InStep
<1>5. AheadOnlyAt(time[c], o.time, o.src)
  BY <1>1, <1>2, <1>3 DEF InSequence, ReadyFor, Ticks, Clock, AheadOnlyAt
<1>6. Join(time[c], o.time) = [time[c] EXCEPT ![o.src] = Ticks(o)]
  <2> DEFINE t == time[c]
  <2>1. t \in Clock
    BY <1>1
  <2>2. AheadOnlyAt(t, o.time, o.src)
    BY <1>5
  <2> HIDE DEF t
  <2>3. Join(t, o.time) = [t EXCEPT ![o.src] = o.time[o.src]]
    BY <1>1, <2>1, <2>2, JoinOne
  <2> QED
    BY <2>3 DEF t, Ticks
<1>7. /\ o.prev <= Frontier[c][o.src] /\ Frontier[c][o.src] < Ticks(o)
      /\ \A d \in Clone \ {c, o.src} : o.time[d] <= Frontier[c][d]
  BY <1>1, <1>3, <1>4 DEF InSequence, ReadyFor
<1>8. AheadOnlyAt(Frontier[c], o.time, o.src)
  BY <1>2, <1>7 DEF Ticks, AheadOnlyAt
<1>9. Join(Frontier[c], o.time) = [Frontier[c] EXCEPT ![o.src] = Ticks(o)]
  <2> DEFINE g == Frontier[c]
  <2>1. g \in Clock
    BY <1>1
  <2>2. AheadOnlyAt(g, o.time, o.src)
    BY <1>8
  <2> HIDE DEF g
  <2>3. Join(g, o.time) = [g EXCEPT ![o.src] = o.time[o.src]]
    BY <1>1, <2>1, <2>2, JoinOne
  <2> QED
    BY <2>3 DEF g, Ticks
<1> QED
  BY <1>1, <1>3, <1>6, <1>7, <1>9 DEF Advanced, Deliverable

\* Whether an operation is delivered or made, removing the TIDs it deletes and
\* adding its own leaves what all the operations then reached leave.
LEMMA TakenTids ==
  ASSUME NEW O, NEW P, NEW G, NEW H, NEW c, NEW n, TakesOn(O, P, G, H, c, n)
  PROVE  Visible(Reached(P, H[c])) =
           (Visible(Reached(O, G[c])) \ n.deletes) \cup InsertTids(n)
<1> DEFINE R == Reached(O, G[c])
<1>1. R \subseteq P
  BY DEF TakesOn, Reached
<1>2. OwnTicks(P) /\ DeletesKnown(P) /\ n \in P /\ \A p \in R : ~ Before(n, p)
  BY DEF TakesOn, Coherent
<1> HIDE DEF R
<1>3. InsertTids(n) \cap (Deleted(R) \cup n.deletes) = {}
  BY ONLY <1>1, <1>2, FreshTids
<1>4. Visible(R \cup {n}) = (Visible(R) \ n.deletes) \cup InsertTids(n)
  BY ONLY <1>3, VisibleWith
<1> QED
  BY <1>4 DEF TakesOn, R

\* S has no less than R, and of what there was, in O, only what R was ready for
OrderlyMove(O, R, S) ==
  /\ R \subseteq S
  /\ \A q \in O \cap S : q \notin R => \A p \in O : Before(p, q) => p \in R

\* Taking on one operation is an orderly move, for every clone.
LEMMA TakenInOrder ==
  ASSUME NEW O, NEW P, NEW G, NEW H, NEW c \in Clone, NEW n, TakesOn(O, P, G, H, c, n)
  PROVE  \A d \in Clone : OrderlyMove(O, Reached(O, G[d]), Reached(P, H[d]))
<1> SUFFICES ASSUME NEW d \in Clone
             PROVE  OrderlyMove(O, Reached(O, G[d]), Reached(P, H[d]))
  OBVIOUS
<1>1. CASE d # c
  BY <1>1 DEF TakesOn, OrderlyMove
<1>2. CASE d = c
  <2>1. Reached(P, H[c]) = Reached(O, G[c]) \cup {n}
    BY DEF TakesOn
  <2>2. ASSUME NEW p \in O, Before(p, n)
        PROVE  p \in Reached(O, G[c])
    <3>1. n \in Reached(P, H[c]) /\ p \in P
      BY <2>1 DEF TakesOn
    <3>2. p \in Reached(P, H[c])
      BY <2>2, <3>1 DEF TakesOn, Coherent, PastReached
    <3> QED
      BY <2>1, <2>2, <3>2 DEF Before
  <2> QED
    BY <1>2, <2>1, <2>2 DEF OrderlyMove
<1> QED
  BY <1>1, <1>2

\* What a step does to the operations each clone has reached.
Orderly ==
  \A d \in Clone :
    OrderlyMove(ops, Reached(ops, Frontier[d]), Reached(ops', Frontier'[d]))

\* Every TID in the table is one inserted by an operation reached.
LEMMA VisibleInserted ==
  ASSUME NEW R, NEW tt \in Visible(R)
  PROVE  \E p \in R : tt \in InsertTids(p)
  BY DEF Visible, Inserted, InsertTids

\* The store invariant, when clone c's TIDs are what its new frontier leaves.
LEMMA StoreStep ==
  ASSUME NEW c \in Clone, StoreInv, TypeOK,
         NEW X, NEW Y,
         X = Visible(Reached(ops', Frontier'[c])), Y = Shown(X),
         tids' = [tids EXCEPT ![c] = X],
         graph' = [graph EXCEPT ![c] = Y],
         \A d \in Clone \ {c} : Reached(ops', Frontier'[d]) = Reached(ops, Frontier[d])
  PROVE  StoreInv'
  BY DEF StoreInv, TypeOK

\* A local transaction keeps the invariant.
LEMMA TransactStep ==
  ASSUME IInv, NEW c \in Clone, NEW patch \in Patch, Transact(c, patch)
  PROVE  ClocksAgree' /\ Coherent(ops', Frontier') /\ StoreInv' /\ Orderly
<1> DEFINE now == Ticked(time[c], c, 1)
           op == OperationMessage(c, now, FindTids(c, patch.deletes), patch.inserts)
<1>1. /\ TypeOK /\ ClocksAgree /\ StoreInv /\ Coherent(ops, Frontier)
      /\ time[c] \in Clock /\ journal[c].gwc \in Clock /\ journal[c].time \in Clock
      /\ Frontier[c] = journal[c].gwc
  BY DEF IInv, TypeOK, Frontier
<1>2. /\ now \in Clock
      /\ now[c] = time[c][c] + 1
      /\ \A d \in Clone \ {c} : now[d] = time[c][d]
  BY <1>1, TickedClock
<1>3. /\ FindTids(c, patch.deletes) \in SUBSET (Triple \X Tid)
      /\ patch.inserts \in SUBSET Triple
  BY <1>1 DEF TypeOK, FindTids, Patch
<1>4. op \in Operation
  BY <1>1, <1>2, <1>3, MessageType
<1>5. /\ op.src = c /\ op.time = now /\ op.prev = Frontier[c][c]
      /\ op.deletes = FindTids(c, patch.deletes) /\ op.inserts = patch.inserts
      /\ Ticks(op) = now[c]
  BY <1>1 DEF OperationMessage, Ticks
<1>6. /\ graph' = [graph EXCEPT ![c] = Patched(graph[c], patch)]
      /\ tids' = [tids EXCEPT ![c] = Patched(tids[c], [deletes |-> op.deletes,
                     inserts |-> Withs(op.inserts, TidOf(op))])]
      /\ time' = [time EXCEPT ![c] = now]
      /\ journal' = [journal EXCEPT ![c] = Journalled(journal[c], now, op)]
      /\ ops' = ops \cup {op}
  BY DEF Transact
<1> HIDE DEF now, op
<1>7. AheadOnlyAt(Frontier[c], op.time, c) /\ Frontier[c][c] < Ticks(op)
  BY <1>1, <1>2, <1>5 DEF AheadOnlyAt, ClocksAgree, InStep, Clock
<1>8. Join(journal[c].gwc, op.time) = [Frontier[c] EXCEPT ![c] = Ticks(op)]
  BY <1>1, <1>2, <1>5, <1>7, JoinOne
<1>9. Frontier' = Advanced(Frontier, c, op)
  BY <1>1, <1>5, <1>6, <1>8 DEF Frontier, Advanced, Journalled, TypeOK
<1>10. Publishable(ops, Frontier, c, op)
  <2>1. \A d \in Clone \ {c} : op.time[d] = Frontier[c][d]
    BY <1>1, <1>2, <1>5 DEF ClocksAgree, InStep
  <2>2. \A tt \in op.deletes : \E p \in Reached(ops, Frontier[c]) : tt \in InsertTids(p)
    <3>1. \A tt \in op.deletes : tt \in Visible(Reached(ops, Frontier[c]))
      BY <1>1, <1>5 DEF FindTids, StoreInv
    <3> QED
      BY <3>1, VisibleInserted
  <2> QED
    BY <1>4, <1>5, <1>7, <2>1, <2>2 DEF Publishable
<1>11. TakesOn(ops, ops', Frontier, Frontier', c, op)
  BY <1>1, <1>6, <1>9, <1>10, Publication
<1>12. Coherent(ops', Frontier')
  BY <1>11 DEF TakesOn
<1>13. ClocksAgree'
  BY <1>1, <1>2, <1>5, <1>6, <1>8 DEF ClocksAgree, InStep, Journalled, TypeOK, Clock
<1>14. StoreInv'
  <2> DEFINE X == (tids[c] \ op.deletes) \cup InsertTids(op)
  <2>1. Patched(tids[c], [deletes |-> op.deletes,
                          inserts |-> Withs(op.inserts, TidOf(op))]) = X
    BY DEF Patched, InsertTids
  <2>2. X = Visible(Reached(ops', Frontier'[c]))
    BY <1>1, <1>11, TakenTids DEF StoreInv
  <2>3. Patched(graph[c], patch) = Shown(X)
    BY <1>1, <1>5, TransactedGraph DEF StoreInv, InsertTids
  <2>4. \A d \in Clone \ {c} : Reached(ops', Frontier'[d]) = Reached(ops, Frontier[d])
    BY <1>11 DEF TakesOn
  <2> HIDE DEF X
  <2>5. /\ tids' = [tids EXCEPT ![c] = X]
        /\ graph' = [graph EXCEPT ![c] = Shown(X)]
    BY <1>6, <2>1, <2>3
  <2> QED
    BY <1>1, <2>2, <2>4, <2>5, StoreStep
<1>15. Orderly
  BY <1>11, TakenInOrder DEF Orderly
<1> QED
  BY <1>12, <1>13, <1>14, <1>15

\* A remote operation, with or without an operation of the constraints', keeps
\* the invariant.
LEMMA ApplyStep ==
  ASSUME IInv, NEW c \in Clone, NEW o \in ops, NEW a \in Patch, Apply(c, o, a)
  PROVE  ClocksAgree' /\ Coherent(ops', Frontier') /\ StoreInv' /\ Orderly
<1> DEFINE joined == Join(time[c], o.time)
           localTime == Ticked(joined, c, 1)
           cxnTime == Ticked(joined, c, 2)
           cxn == OperationMessage(c, cxnTime, CxnDeletes(c, o, a), a.inserts)
           applied == Journalled(journal[c], localTime, o)
           A == Advanced(Frontier, c, o)
           X == (tids[c] \ o.deletes) \cup InsertTids(o)
           Y == (X \ CxnDeletes(c, o, a)) \cup Withs(a.inserts, TidOf(cxn))
<1>1. /\ TypeOK /\ ClocksAgree /\ StoreInv /\ Coherent(ops, Frontier)
      /\ time[c] \in Clock /\ journal[c].gwc \in Clock /\ journal[c].time \in Clock
      /\ Frontier[c] = journal[c].gwc
  BY DEF IInv, TypeOK, Frontier
<1>2. ReadyFor(c, o) /\ InSequence(c, o)
  BY DEF Apply
<1>3. /\ o \in Operation /\ o.src \in Clone \ {c} /\ o.time \in Clock
      /\ Frontier \in [Clone -> Clock]
      /\ Deliverable(Frontier, c, o)
      /\ joined = [time[c] EXCEPT ![o.src] = Ticks(o)]
      /\ Join(journal[c].gwc, o.time) = A[c]
  BY <1>2, ReadyClocks
<1>4. /\ A \in [Clone -> Clock]
      /\ A[c][o.src] = Ticks(o)
      /\ \A d \in Clone \ {o.src} : A[c][d] = Frontier[c][d]
      /\ \A d \in Clone \ {c} : A[d] = Frontier[d]
      /\ Ticks(o) \in Nat
  BY <1>3, AdvancedEntries
<1>5. /\ joined \in Clock
      /\ joined[c] = time[c][c]
      /\ \A d \in Clone \ {c} : joined[d] = A[c][d]
  BY <1>1, <1>3, <1>4 DEF Clock, ClocksAgree, InStep
<1> HIDE DEF joined, A
<1>6. /\ localTime \in Clock /\ cxnTime \in Clock
      /\ localTime[c] = time[c][c] + 1 /\ cxnTime[c] = time[c][c] + 2
      /\ \A d \in Clone \ {c} : localTime[d] = A[c][d] /\ cxnTime[d] = A[c][d]
  BY <1>5, TickedClock
<1> HIDE DEF localTime, cxnTime
<1>7. cxn \in Operation
  <2>1. CxnDeletes(c, o, a) \in SUBSET (Triple \X Tid)
    BY <1>1, <1>3, <1>6, ApplyTypes, MessageType DEF Patch
  <2> QED
    BY <1>1, <1>6, <2>1, MessageType DEF Patch
<1>8. /\ cxn.src = c /\ cxn.time = cxnTime /\ cxn.prev = Frontier[c][c]
      /\ cxn.deletes = CxnDeletes(c, o, a) /\ cxn.inserts = a.inserts
      /\ Ticks(cxn) = cxnTime[c]
  BY <1>1 DEF OperationMessage, Ticks
<1> HIDE DEF cxn
<1>9. applied = [time |-> localTime, gwc |-> A[c]]
  BY <1>3 DEF Journalled
<1> HIDE DEF applied
<1>10. TakesOn(ops, ops, Frontier, A, c, o)
  BY <1>1, <1>3, Delivery DEF A
<1>11. X = Visible(Reached(ops, A[c]))
  BY <1>1, <1>10, TakenTids DEF StoreInv
<1> HIDE DEF X
<1>12. /\ Patched(tids[c], TidPatch(c, o, a, TidOf(cxn))) = Y
       /\ Patched(graph[c], GraphPatch(c, o, a)) = Shown(Y)
  <2>1. Patched(tids[c], TidPatch(c, o, a, TidOf(cxn))) = Y
    BY AppliedTids DEF X
  <2>2. graph[c] = Shown(tids[c])
    BY <1>1 DEF StoreInv
  <2>3. Patched(graph[c], GraphPatch(c, o, a)) =
          Shown((((tids[c] \ o.deletes) \cup InsertTids(o)) \ CxnDeletes(c, o, a))
                  \cup Withs(a.inserts, TidOf(cxn)))
    BY ONLY <1>1, <1>3, <2>2, AppliedGraph
  <2> QED
    BY <2>1, <2>3 DEF X
<1> HIDE DEF Y
<1>13. /\ tids' = [tids EXCEPT ![c] = Y]
       /\ graph' = [graph EXCEPT ![c] = Shown(Y)]
       /\ time' = [time EXCEPT ![c] = cxnTime]
       /\ journal' = [journal EXCEPT ![c] =
            IF a = NoPatch THEN applied ELSE Journalled(applied, cxnTime, cxn)]
       /\ ops' = IF a = NoPatch THEN ops ELSE ops \cup {cxn}
  BY <1>12 DEF Apply, joined, localTime, cxnTime, cxn, applied
<1>14. CASE a = NoPatch
  <2>1. ops' = ops /\ Frontier' = A
    BY <1>1, <1>4, <1>9, <1>13, <1>14 DEF Frontier, TypeOK, Clock
  <2>2. Y = X
    BY <1>14 DEF Y, NoPatch, CxnDeletes, FindTids, Withs
  <2>3. ClocksAgree'
    <3>1. time'[c] = cxnTime /\ journal'[c] = [time |-> localTime, gwc |-> A[c]]
      BY <1>1, <1>9, <1>13, <1>14 DEF TypeOK
    <3>2. A[c][c] <= localTime[c] /\ localTime[c] <= cxnTime[c]
      BY <1>1, <1>3, <1>4, <1>6 DEF ClocksAgree, InStep, Clock
    <3> QED
      BY <1>1, <1>6, <1>13, <1>14, <3>1, <3>2 DEF ClocksAgree, InStep, TypeOK
  <2>4. \A d \in Clone \ {c} : Reached(ops', Frontier'[d]) = Reached(ops, Frontier[d])
    BY <1>10, <2>1 DEF TakesOn
  <2>5. StoreInv'
    BY <1>1, <1>11, <1>13, <2>1, <2>2, <2>4, StoreStep
  <2>6. Orderly
    BY <1>10, <2>1, TakenInOrder DEF Orderly
  <2> QED
    BY <1>10, <2>1, <2>3, <2>5, <2>6 DEF TakesOn
<1>15. CASE a # NoPatch
  <2>1. AheadOnlyAt(A[c], cxn.time, c) /\ A[c][c] < Ticks(cxn)
    BY <1>1, <1>3, <1>4, <1>6, <1>8 DEF AheadOnlyAt, ClocksAgree, InStep, Clock
  <2>2. Join(A[c], cxn.time) = [A[c] EXCEPT ![c] = Ticks(cxn)]
    <3>1. A[c] \in Clock /\ cxn.time \in Clock /\ Ticks(cxn) = cxn.time[c]
      BY <1>4, <1>6, <1>8
    <3> QED
      BY <2>1, <3>1, JoinOne
  <2>3. /\ ops' = ops \cup {cxn}
        /\ journal' = [journal EXCEPT ![c] =
             [time |-> cxnTime, gwc |-> [A[c] EXCEPT ![c] = Ticks(cxn)]]]
    BY <1>9, <1>13, <1>15, <2>2 DEF Journalled
  <2>4. Frontier' = Advanced(A, c, cxn)
    BY <1>1, <1>4, <1>8, <2>3 DEF Frontier, Advanced, TypeOK
  <2>5. Publishable(ops, A, c, cxn)
    <3>1. cxn.prev = A[c][c]
      BY <1>3, <1>4, <1>8
    <3>2. \A tt \in cxn.deletes : \E p \in Reached(ops, A[c]) : tt \in InsertTids(p)
      <4> SUFFICES ASSUME NEW tt \in CxnDeletes(c, o, a)
                   PROVE  \E p \in Reached(ops, A[c]) : tt \in InsertTids(p)
        BY <1>8
      <4>1. Reached(ops, A[c]) = Reached(ops, Frontier[c]) \cup {o}
        BY <1>10 DEF TakesOn
      <4>2. CASE tt \in FindTids(c, a.deletes)
        <5>1. tt \in Visible(Reached(ops, Frontier[c]))
          BY <1>1, <4>2 DEF FindTids, StoreInv
        <5> QED
          BY <4>1, <5>1, VisibleInserted
      <4>3. CASE tt \in Withs(o.inserts \cap a.deletes, TidOf(o))
        <5>1. tt \in InsertTids(o)
          BY <4>3 DEF InsertTids, Withs
        <5> QED
          BY <4>1, <5>1
      <4> QED
        BY <4>2, <4>3 DEF CxnDeletes
    <3> QED
      BY <1>6, <1>7, <1>8, <2>1, <3>1, <3>2 DEF Publishable
  <2>6. TakesOn(ops, ops', A, Frontier', c, cxn)
    <3>1. Coherent(ops, A)
      BY <1>10 DEF TakesOn
    <3>2. TakesOn(ops, ops \cup {cxn}, A, Advanced(A, c, cxn), c, cxn)
      BY ONLY <2>5, <3>1, c \in Clone, Publication
    <3> QED
      BY <2>3, <2>4, <3>2
  <2>7. Y = Visible(Reached(ops', Frontier'[c]))
    BY <1>8, <1>11, <2>6, TakenTids DEF Y, InsertTids
  <2>8. \A d \in Clone \ {c} : Reached(ops', Frontier'[d]) = Reached(ops, Frontier[d])
    BY <1>10, <2>6 DEF TakesOn
  <2>9. StoreInv'
    BY <1>1, <1>13, <2>7, <2>8, StoreStep
  <2>10. ClocksAgree'
    BY <1>1, <1>4, <1>6, <1>8, <1>13, <2>3 DEF ClocksAgree, InStep, TypeOK, Clock
  <2>11. Orderly
    <3> SUFFICES ASSUME NEW d \in Clone
                 PROVE  OrderlyMove(ops, Reached(ops, Frontier[d]),
                                    Reached(ops', Frontier'[d]))
      BY DEF Orderly
    <3>1. OrderlyMove(ops, Reached(ops, Frontier[d]), Reached(ops, A[d]))
      BY <1>10, TakenInOrder
    <3>2. CASE d # c
      BY <2>8, <3>2 DEF OrderlyMove
    <3>3. CASE d = c
      <4>1. cxn \notin ops
        <5>1. Coherent(ops, A) /\ A[c][c] < cxn.time[c] /\ A[c][c] \in Nat
          BY <1>4, <1>8, <1>10, <2>1 DEF TakesOn, Clock
        <5> QED
          BY <1>6, <1>8, <5>1 DEF Coherent, NobodyAhead, Clock
      <4>2. Reached(ops', Frontier'[c]) = Reached(ops, A[c]) \cup {cxn}
        BY <2>6 DEF TakesOn
      <4> QED
        BY <3>1, <3>3, <4>1, <4>2 DEF OrderlyMove
    <3> QED
      BY <3>2, <3>3
  <2> QED
    BY <2>6, <2>9, <2>10, <2>11 DEF TakesOn
<1> QED
  BY <1>14, <1>15

\* Ticks spent for nothing, and a restart, move no frontier.
LEMMA QuietStep ==
  ASSUME IInv, NEW c \in Clone, TransactNothing(c) \/ Restart(c)
  PROVE  ClocksAgree' /\ Coherent(ops', Frontier') /\ StoreInv' /\ Orderly
<1>1. graph' = graph /\ tids' = tids /\ journal' = journal /\ ops' = ops
  BY DEF TransactNothing, Restart
<1>2. Coherent(ops', Frontier') /\ StoreInv' /\ Orderly
  <2>1. Frontier' = Frontier
    BY <1>1 DEF Frontier
  <2> QED
    BY <1>1, <2>1 DEF IInv, StoreInv, Orderly, OrderlyMove
<1>3. ASSUME NEW t, InStep(c, journal[c], t), time' = [time EXCEPT ![c] = t]
      PROVE  ClocksAgree'
  <2> SUFFICES ASSUME NEW d \in Clone
               PROVE  InStep(d, journal[d], time'[d])
    BY <1>1 DEF ClocksAgree, InStep
  <2>1. InStep(d, journal[d], time[d])
    BY DEF IInv, ClocksAgree
  <2>2. CASE d = c
    BY <1>3, <2>2 DEF IInv, TypeOK
  <2>3. CASE d # c
    BY <1>3, <2>1, <2>3 DEF IInv, TypeOK
  <2> QED
    BY <2>2, <2>3
<1>4. CASE TransactNothing(c)
  <2> DEFINE now == Ticked(time[c], c, 1)
  <2>1. /\ time[c] \in Clock /\ journal[c].time \in Clock
        /\ ClocksAgree /\ TypeOK
    BY DEF IInv, TypeOK
  <2>2. /\ now[c] = time[c][c] + 1
        /\ \A d \in Clone \ {c} : now[d] = time[c][d]
    BY <2>1, TickedClock
  <2>3. time' = [time EXCEPT ![c] = now]
    BY <1>4 DEF TransactNothing
  <2> HIDE DEF now
  <2>4. journal[c].time[c] <= now[c]
    <3>1. journal[c].time[c] \in Nat /\ time[c][c] \in Nat
      BY <2>1 DEF Clock
    <3>2. journal[c].time[c] <= time[c][c]
      BY <2>1 DEF ClocksAgree, InStep
    <3> QED
      BY <2>2, <3>1, <3>2
  <2>5. InStep(c, journal[c], now)
    BY <2>1, <2>2, <2>4 DEF ClocksAgree, InStep
  <2> QED
    BY <1>2, <1>3, <2>3, <2>5
<1>5. CASE Restart(c)
  <2>1. /\ time' = [time EXCEPT ![c] = journal[c].time]
        /\ journal[c].time[c] \in Nat
        /\ ClocksAgree /\ TypeOK
    BY <1>5 DEF Restart, IInv, TypeOK, Clock
  <2>2. InStep(c, journal[c], journal[c].time)
    BY <2>1 DEF ClocksAgree, InStep
  <2> QED
    BY <1>2, <1>3, <2>1, <2>2
<1> QED
  BY <1>4, <1>5

-----------------------------------------------------------------------------
(* The theorems *)

\* Every step keeps the invariant, and moves every clone in causal order.
LEMMA InvariantStep == IInv /\ [AnyNext]_vars => IInv' /\ Orderly
<1> SUFFICES ASSUME IInv, [AnyNext]_vars
             PROVE  ClocksAgree' /\ Coherent(ops', Frontier') /\ StoreInv' /\ Orderly
  BY TypeStep DEF IInv
<1>1. ASSUME NEW c \in Clone, NEW patch \in Patch, Transact(c, patch)
      PROVE  ClocksAgree' /\ Coherent(ops', Frontier') /\ StoreInv' /\ Orderly
  BY <1>1, TransactStep
<1>2. ASSUME NEW c \in Clone, TransactNothing(c) \/ Restart(c)
      PROVE  ClocksAgree' /\ Coherent(ops', Frontier') /\ StoreInv' /\ Orderly
  BY <1>2, QuietStep
<1>3. ASSUME NEW c \in Clone, NEW o \in ops, NEW a \in Patch, Apply(c, o, a)
      PROVE  ClocksAgree' /\ Coherent(ops', Frontier') /\ StoreInv' /\ Orderly
  BY <1>3, ApplyStep
<1>4. CASE UNCHANGED vars
  BY <1>4 DEF vars, IInv, ClocksAgree, InStep, StoreInv, Frontier, Orderly, OrderlyMove
<1> QED
  BY <1>1, <1>2, <1>3, <1>4 DEF AnyNext

\* An empty clone satisfies the invariant.
LEMMA InitInvariant == Init => IInv
<1> SUFFICES ASSUME Init
             PROVE  IInv
  OBVIOUS
<1>1. TypeOK /\ ClocksAgree
  BY DEF Init, TypeOK, Clock, ClocksAgree, InStep
<1>2. Coherent(ops, Frontier)
  BY <1>1 DEF Init, TypeOK, Frontier, Coherent, NobodyAhead, OwnTicks, PrevIsLast,
              DeletesKnown, PastReached, Reached
<1>3. StoreInv
  BY DEF Init, StoreInv, Reached, Visible, Inserted, Deleted, Shown
<1> QED
  BY <1>1, <1>2, <1>3 DEF IInv

\* The inductive invariant holds in every reachable state.
THEOREM Invariance == Spec => []IInv
  BY InitInvariant, InvariantStep, NextIsAny, PTL DEF Spec

\* A clone's operations, by its journal, are those its frontier has reached.
LEMMA AppliedIsReached ==
  ASSUME NEW c \in Clone
  PROVE  Applied(c) = Reached(ops, Frontier[c])
  BY DEF Applied, Reached, Frontier

\* What the invariant says of the properties of SuSet.
LEMMA Consequences ==
  ASSUME IInv
  PROVE  /\ TidsAreOrSet /\ GraphShowsTids /\ Converged
         /\ TicksIdentifyOps /\ AddWins
<1>1. TidsAreOrSet
  BY AppliedIsReached DEF IInv, StoreInv, TidsAreOrSet, Visible
<1>2. GraphShowsTids
  BY DEF IInv, StoreInv, GraphShowsTids, Shown, FindTids
<1>3. Converged
  BY AppliedIsReached DEF IInv, StoreInv, Converged
<1>4. TicksIdentifyOps
  BY DEF IInv, Coherent, OwnTicks, TicksIdentifyOps
<1>5. AddWins
  <2> SUFFICES ASSUME NEW c \in Clone, NEW o \in Applied(c), NEW t \in o.inserts,
                      t \notin graph[c]
               PROVE  \E p \in Applied(c) : Before(o, p) /\ <<t, TidOf(o)>> \in p.deletes
    BY DEF AddWins
  <2> DEFINE tt == <<t, TidOf(o)>>
  <2>1. o \in ops /\ o \in Operation /\ t \in Triple
    BY DEF Applied, IInv, TypeOK, Operation
  <2>2. tt \notin tids[c]
    BY <2>1, <1>2 DEF GraphShowsTids, FindTids
  <2>3. tt \in Inserted(Applied(c))
    BY DEF Inserted, Withs
  <2>4. PICK p \in Applied(c) : tt \in p.deletes
    BY <1>1, <2>2, <2>3 DEF TidsAreOrSet, Deleted
  <2>5. PICK q \in ops : Before(q, p) /\ tt \in InsertTids(q)
    BY <2>4 DEF Applied, IInv, Coherent, DeletesKnown
  <2>6. q = o
    BY <1>4, <2>1, <2>5 DEF InsertTids, Withs, TidOf, TicksIdentifyOps
  <2> QED
    BY <2>4, <2>5, <2>6
<1> QED
  BY <1>1, <1>2, <1>3, <1>4, <1>5

\* A clone's TID table holds exactly what the operations in its journal leave.
THEOREM TidsCorrect == Spec => []TidsAreOrSet
  BY Invariance, Consequences, PTL

\* The user graph shows a triple if and only if the clone has a TID for it.
THEOREM GraphCorrect == Spec => []GraphShowsTids
  BY Invariance, Consequences, PTL

\* Two clones with the same operations show the same graph.
THEOREM Convergence == Spec => []Converged
  BY Invariance, Consequences, PTL

\* Every step delivers in order, and loses nothing that was applied.
LEMMA DeliveryStep ==
  IInv /\ [AnyNext]_vars =>
    /\ [\A c \in Clone : \A o \in Applied(c)' \cap ops :
          o \notin Applied(c) => \A p \in ops : Before(p, o) => p \in Applied(c)]_vars
    /\ [\A c \in Clone : Applied(c) \subseteq Applied(c)']_vars
<1>1. IInv /\ [AnyNext]_vars =>
        [\A c \in Clone : \A o \in Applied(c)' \cap ops :
           o \notin Applied(c) => \A p \in ops : Before(p, o) => p \in Applied(c)]_vars
  <2> SUFFICES ASSUME IInv, [AnyNext]_vars, NEW c \in Clone, NEW o \in Applied(c)' \cap ops,
                      o \notin Applied(c), NEW p \in ops, Before(p, o)
               PROVE  p \in Applied(c)
    OBVIOUS
  <2>1. OrderlyMove(ops, Applied(c), Applied(c)')
    BY InvariantStep DEF Orderly, Applied, Reached, Frontier
  <2> QED
    BY <2>1 DEF OrderlyMove
<1>2. IInv /\ [AnyNext]_vars => [\A c \in Clone : Applied(c) \subseteq Applied(c)']_vars
  BY InvariantStep DEF Orderly, OrderlyMove, Applied, Reached, Frontier
<1> QED
  BY <1>1, <1>2

\* Delivery is causal, and nothing delivered is ever lost.
THEOREM CausalDelivery == Spec => DeliveredInOrder /\ AppliedOnlyGrows
  BY DeliveryStep, NextIsAny, Invariance, PTL DEF Spec, DeliveredInOrder, AppliedOnlyGrows

\* No two operations have one TID, restarts or no.
THEOREM UniqueTids == Spec => []TicksIdentifyOps
  BY Invariance, Consequences, PTL

\* No delete takes away an insert it did not know of.
THEOREM AddWinsAlways == Spec => []AddWins
  BY Invariance, Consequences, PTL

=============================================================================
