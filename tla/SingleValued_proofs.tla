------------------------- MODULE SingleValued_proofs -------------------------
(***************************************************************************)
(* What the single-valued constraint guarantees on top of SuSet, for any   *)
(* set of clones, any finite set of values and any number of operations.   *)
(***************************************************************************)
EXTENDS SingleValued, SuSet_proofs, FiniteSetTheorems

-----------------------------------------------------------------------------
(* Finite sets of values *)

\* A finite, non-empty set of numbers has a greatest one: a smallest subset without
\* one would still have none when it loses an element.
LEMMA MaxIsGreatest ==
  ASSUME NEW S \in SUBSET Nat, IsFiniteSet(S), S # {}
  PROVE  Max(S) \in S /\ \A n \in S : n <= Max(S)
<1> DEFINE HasMax(T) == \E m \in T : \A n \in T : n <= m
           Fine == FiniteSubsetsOf(S)
           Bad == {T \in Fine : T # {} /\ ~ HasMax(T)}
<1>1. ASSUME Bad # {}
      PROVE  FALSE
  <2>1. IsWellFoundedOn(StrictSubsetOrdering(S), Fine)
    BY FS_StrictSubsetOrderingWellFounded
  <2>2. Bad \subseteq Fine
    OBVIOUS
  <2> HIDE DEF Fine, Bad
  <2>3. PICK T \in Bad : \A U \in Bad : <<U, T>> \notin StrictSubsetOrdering(S)
    BY <1>1, <2>1, <2>2, WFMin
  <2>4. /\ T \in SUBSET S /\ IsFiniteSet(T) /\ T # {} /\ ~ HasMax(T)
    BY DEF Bad, Fine, FiniteSubsetsOf
  <2>5. PICK x \in T : TRUE
    BY <2>4
  <2>6. T \ {x} \in Fine
    BY <2>4, FS_RemoveElement DEF Fine, FiniteSubsetsOf
  <2>7. <<T \ {x}, T>> \in StrictSubsetOrdering(S)
    BY <2>4, <2>5 DEF StrictSubsetOrdering
  <2>8. T \ {x} \notin Bad
    BY <2>3, <2>7
  <2>9. CASE T \ {x} = {}
    <3>1. \A n \in T : n <= x
      BY <2>4, <2>9
    <3> QED
      BY <2>4, <2>5, <3>1
  <2>10. CASE HasMax(T \ {x})
    <3>1. PICK m \in T \ {x} : \A n \in T \ {x} : n <= m
      BY <2>10
    <3>2. \A n \in T : n \in Nat
      BY <2>4
    <3>3. CASE x <= m
      <4>1. \A n \in T : n <= m
        BY <3>1, <3>3
      <4> QED
        BY <2>4, <3>1, <4>1
    <3>4. CASE m <= x
      <4>1. \A n \in T : n <= x
        BY <2>5, <3>1, <3>2, <3>4
      <4> QED
        BY <2>4, <2>5, <4>1
    <3> QED
      BY <2>5, <3>1, <3>2, <3>3, <3>4
  <2> QED
    BY <2>6, <2>8, <2>9, <2>10 DEF Bad
<1>2. HasMax(S)
  BY <1>1 DEF FiniteSubsetsOf
<1>3. PICK m \in S : \A n \in S : m >= n
  BY <1>2
<1>4. Max(S) \in S /\ \A n \in S : Max(S) >= n
  BY <1>3 DEF Max
<1> QED
  BY <1>4

\* A finite set that is not multi-valued has no two elements.
LEMMA SingleIsSingle ==
  ASSUME NEW S, IsFiniteSet(S), ~ IsMultiValued(S), NEW v \in S, NEW w \in S
  PROVE  v = w
<1> SUFFICES ASSUME v # w
             PROVE  FALSE
  OBVIOUS
<1>1. IsFiniteSet({v, w}) /\ Cardinality({v, w}) = 2
  <2>1. IsFiniteSet({v}) /\ Cardinality({v}) = 1
    BY FS_Singleton
  <2>2. /\ IsFiniteSet({v} \cup {w})
        /\ Cardinality({v} \cup {w}) = IF w \in {v} THEN Cardinality({v}) ELSE Cardinality({v}) + 1
    BY ONLY <2>1, FS_AddElement, Zenon
  <2>3. {v} \cup {w} = {v, w} /\ w \notin {v}
    OBVIOUS
  <2> QED
    BY <2>1, <2>2, <2>3
<1>2. Cardinality({v, w}) <= Cardinality(S)
  BY FS_Subset
<1>3. Cardinality(S) \in Nat
  BY FS_CardinalityType
<1> QED
  BY <1>1, <1>2, <1>3 DEF IsMultiValued

\* The values of a subject are finite in number, and are those of its triples.
LEMMA ValuesFinite ==
  ASSUME NEW T \in SUBSET Triple, NEW s
  PROVE  /\ ValuesOf(s, T) \in SUBSET Nat
         /\ IsFiniteSet(ValuesOf(s, T))
         /\ \A v : v \in ValuesOf(s, T) <=> <<s, v>> \in T
<1>1. \A t \in Triple : t = <<t[1], t[2]>> /\ t[2] \in Nat
  BY SingleValuedAssumption
<1>2. ValuesOf(s, T) \in SUBSET {t[2] : t \in Triple}
  BY DEF ValuesOf
<1>3. IsFiniteSet(ValuesOf(s, T))
  BY <1>2, SingleValuedAssumption, FS_Subset
<1>4. ASSUME NEW v \in ValuesOf(s, T)
      PROVE  <<s, v>> \in T
  <2>1. PICK t \in T : t[1] = s /\ t[2] = v
    BY DEF ValuesOf
  <2> QED
    BY <1>1, <2>1
<1>5. ASSUME NEW v, <<s, v>> \in T
      PROVE  v \in ValuesOf(s, T)
  BY <1>5 DEF ValuesOf
<1> QED
  BY <1>1, <1>2, <1>3, <1>4, <1>5

-----------------------------------------------------------------------------
(* What the constraint makes of an update *)

Single(T) == \A t, u \in T : t[1] = u[1] => t = u

Above(u, t) == u[1] = t[1] /\ u[2] > t[2]

\* The update that the constraint sees first is that of the transaction.
LEMMA UpdateIsPatch ==
  ASSUME NEW p \in Patch
  PROVE  UpdateOf(Interim(p)) = p
<1>1. p = [deletes |-> p.deletes, inserts |-> p.inserts] /\ p.deletes \cap p.inserts = {}
  BY DEF Patch
<1>2. UpdateOf(Interim(p)) = [deletes |-> p.deletes \ p.inserts, inserts |-> p.inserts]
  BY DEF UpdateOf, Interim, Append, NoPatch
<1> QED
  BY <1>1, <1>2

\* Two values of one subject, where there was at most one of each, are seen: the subject
\* is in the update, and has both of them in what it will have.
LEMMA TwoAreSeen ==
  ASSUME NEW G \in SUBSET Triple, Single(G), NEW p \in Patch,
         NEW t \in Patched(G, p), NEW u \in Patched(G, p), t[1] = u[1], t # u
  PROVE  /\ <<t[1], Updated(G, p, t[1])>> \in Affected(G, p)
         /\ t[2] \in Updated(G, p, t[1]) /\ u[2] \in Updated(G, p, t[1])
         /\ t[2] # u[2]
         /\ IsMultiValued(Updated(G, p, t[1]))
<1> DEFINE W == Patched(G, p)
<1>1. W \in SUBSET Triple
  BY DEF Patched, Patch
<1>2. /\ t = <<t[1], t[2]>> /\ u = <<u[1], u[2]>>
  BY <1>1, SingleValuedAssumption
<1>3. t[1] \in Subjects(p.inserts)
  <2>1. t \in p.inserts \/ u \in p.inserts
    BY DEF Patched, Single
  <2> QED
    BY <2>1 DEF Subjects
<1>4. <<t[1], Updated(G, p, t[1])>> \in Affected(G, p)
  BY <1>3 DEF Affected, Subjects
<1>5. t[2] \in ValuesOf(t[1], W) /\ u[2] \in ValuesOf(t[1], W) /\ t[2] # u[2]
  BY <1>2 DEF ValuesOf
<1>6. IsMultiValued(ValuesOf(t[1], W))
  BY <1>1, <1>5, ValuesFinite, SingleIsSingle
<1> QED
  BY <1>4, <1>5, <1>6 DEF Updated

\* A transaction that passes the check leaves one value at most.
LEMMA CheckedIsSingle ==
  ASSUME NEW G \in SUBSET Triple, Single(G), NEW p \in Patch, Checked(G, Interim(p))
  PROVE  Single(Patched(G, p))
<1> SUFFICES ASSUME NEW t \in Patched(G, p), NEW u \in Patched(G, p), t[1] = u[1], t # u
             PROVE  FALSE
  BY DEF Single
<1>1. /\ <<t[1], Updated(G, p, t[1])>> \in Affected(G, p)
      /\ IsMultiValued(Updated(G, p, t[1]))
  BY TwoAreSeen
<1>2. \A x \in Affected(G, p) : ~ IsMultiValued(x[2])
  BY UpdateIsPatch DEF Checked
<1> QED
  BY <1>1, <1>2

\* What the constraint asserts of an update
Mending(G, p) == Mended(G, Interim(p)).assertions

\* Each value the constraint deletes is one the subject would have with a greater one;
\* and of two that a subject would have, it deletes one.
LEMMA MendingDeletes ==
  ASSUME NEW G \in SUBSET Triple, Single(G), NEW p \in Patch
  PROVE  /\ Mending(G, p) \in Patch
         /\ Mending(G, p).inserts = {}
         /\ \A t \in Mending(G, p).deletes : \E u \in Patched(G, p) : Above(u, t)
         /\ \A t, u \in Patched(G, p) :
              t[1] = u[1] /\ t # u =>
                t \in Mending(G, p).deletes \/ u \in Mending(G, p).deletes
<1> DEFINE L == UNION {Losers(x[1], x[2]) :
                       x \in {y \in Affected(G, p) : IsMultiValued(y[2])}}
           W == Patched(G, p)
<1>1. Mending(G, p) = [deletes |-> L, inserts |-> {}]
  BY UpdateIsPatch DEF Mending, Mended, Asserted, Interim, Append, NoPatch
<1>2. W \in SUBSET Triple /\ p.inserts \in SUBSET Triple /\ p.inserts \subseteq W
  BY DEF Patched, Patch
<1>3. ASSUME NEW x \in Affected(G, p)
      PROVE  x[2] = ValuesOf(x[1], p.inserts) \/ x[2] = ValuesOf(x[1], W)
  BY DEF Affected, Updated
<1> HIDE DEF W
<1>4. ASSUME NEW x \in Affected(G, p)
      PROVE  /\ x[2] \in SUBSET Nat /\ IsFiniteSet(x[2])
             /\ \A v \in x[2] : <<x[1], v>> \in W
  <2>1. CASE x[2] = ValuesOf(x[1], p.inserts)
    <3>1. /\ ValuesOf(x[1], p.inserts) \in SUBSET Nat
          /\ IsFiniteSet(ValuesOf(x[1], p.inserts))
          /\ \A v : v \in ValuesOf(x[1], p.inserts) <=> <<x[1], v>> \in p.inserts
      BY <1>2, ValuesFinite
    <3> QED
      BY <1>2, <2>1, <3>1
  <2>2. CASE x[2] = ValuesOf(x[1], W)
    <3>1. /\ ValuesOf(x[1], W) \in SUBSET Nat
          /\ IsFiniteSet(ValuesOf(x[1], W))
          /\ \A v : v \in ValuesOf(x[1], W) <=> <<x[1], v>> \in W
      BY <1>2, ValuesFinite
    <3> QED
      BY <2>2, <3>1
  <2> QED
    BY <1>3, <2>1, <2>2
<1>5. ASSUME NEW t \in L
      PROVE  t \in W /\ \E u \in W : Above(u, t)
  <2>1. PICK x \in Affected(G, p) : t \in Losers(x[1], x[2])
    OBVIOUS
  <2>2. PICK v \in x[2] \ {Max(x[2])} : t = <<x[1], v>>
    BY <2>1 DEF Losers
  <2>3. x[2] \in SUBSET Nat /\ IsFiniteSet(x[2]) /\ \A w \in x[2] : <<x[1], w>> \in W
    BY <1>4
  <2>4. Max(x[2]) \in x[2] /\ v <= Max(x[2])
    BY <2>2, <2>3, MaxIsGreatest
  <2>5. Above(<<x[1], Max(x[2])>>, t)
    BY <2>2, <2>3, <2>4 DEF Above
  <2> QED
    BY <2>2, <2>3, <2>4, <2>5
<1>6. ASSUME NEW t \in W, NEW u \in W, t[1] = u[1], t # u
      PROVE  t \in L \/ u \in L
  <2> DEFINE s == t[1]
             V == Updated(G, p, s)
  <2>1. /\ <<s, V>> \in Affected(G, p) /\ IsMultiValued(V)
        /\ t[2] \in V /\ u[2] \in V /\ t[2] # u[2]
    BY <1>6, TwoAreSeen DEF W
  <2>2. t = <<s, t[2]>> /\ u = <<s, u[2]>>
    BY <1>2, <1>6, SingleValuedAssumption
  <2>3. Losers(s, V) \subseteq L
    BY <2>1
  <2> HIDE DEF V, L
  <2>4. t \in Losers(s, V) \/ u \in Losers(s, V)
    BY <2>1, <2>2 DEF Losers
  <2> QED
    BY <2>3, <2>4
<1>7. L \in SUBSET Triple
  BY <1>2, <1>5
<1> HIDE DEF L
<1>8. Mending(G, p) \in Patch
  BY <1>1, <1>7 DEF Patch
<1> QED
  BY <1>1, <1>5, <1>6, <1>8 DEF W

-----------------------------------------------------------------------------
(***************************************************************************)
(* The inductive invariant.  Operations of the constraint can be told from *)
(* those of applications, and delete only what is below a value that was   *)
(* written in their past.                                                  *)
(***************************************************************************)
Justified ==
  \A p \in ops \ written : \A tt \in p.deletes :
    \E q \in ops : Before(q, p) /\ \E u \in q.inserts : Above(u, tt[1])

SvIInv ==
  /\ IInv
  /\ written \subseteq ops
  /\ constrained => Justified /\ AtMostOneValue

\* What a remote operation makes of the graph is an update the constraint can mend.
LEMMA AppliedIsPatch ==
  ASSUME TypeOK, NEW c \in Clone, NEW o \in ops
  PROVE  AppliedPatch(c, o) \in Patch /\ AppliedPatch(c, o).inserts = o.inserts
<1>1. o.inserts \in SUBSET Triple
  BY DEF TypeOK, Operation
<1> QED
  BY <1>1 DEF AppliedPatch, Append, Emptied, Patch

\* The constraint's part in the application of a remote operation
MendingOf(c, o) == Mending(graph[c], AppliedPatch(c, o))

\* It is a patch like those of any constraint, and the step applies it.
LEMMA MendingFacts ==
  ASSUME SvIInv, constrained, NEW c \in Clone, NEW o \in ops
  PROVE  /\ graph[c] \in SUBSET Triple /\ Single(graph[c])
         /\ AppliedPatch(c, o) \in Patch
         /\ MendingOf(c, o) \in Patch
         /\ SvApply(c, o) => Apply(c, o, MendingOf(c, o)) /\ UNCHANGED written
<1>1. graph[c] \in SUBSET Triple /\ Single(graph[c])
  BY DEF SvIInv, IInv, TypeOK, AtMostOneValue, Single
<1>2. AppliedPatch(c, o) \in Patch
  BY AppliedIsPatch DEF SvIInv, IInv
<1>3. MendingOf(c, o) \in Patch
  BY <1>1, <1>2, MendingDeletes DEF MendingOf
<1>4. SvApply(c, o) => Apply(c, o, MendingOf(c, o)) /\ UNCHANGED written
  BY DEF SvApply, AssertionsOn, MendingOf, Mending
<1> QED
  BY <1>1, <1>2, <1>3, <1>4

\* The constraint does to a clone what SuSet allows any constraint to do.
LEMMA SvIsAny ==
  ASSUME SvIInv, [SvNext]_svVars
  PROVE  [AnyNext]_vars
<1>1. CASE UNCHANGED svVars
  BY <1>1 DEF svVars
<1>2. ASSUME NEW c \in Clone, NEW patch \in Patch, SvTransact(c, patch)
      PROVE  AnyNext
  BY <1>2 DEF SvTransact, AnyNext
<1>3. ASSUME NEW c \in Clone, NEW o \in ops, SvApply(c, o)
      PROVE  AnyNext
  <2>1. CASE constrained
    BY <1>3, <2>1, MendingFacts DEF AnyNext
  <2>2. CASE ~ constrained
    <3>1. PICK a \in Assertions : Apply(c, o, a)
      BY <1>3, <2>2 DEF SvApply, AssertionsOn
    <3> QED
      BY <3>1, SuSetAssumption DEF AnyNext
  <2> QED
    BY <2>1, <2>2
<1>4. ASSUME NEW c \in Clone, TransactNothing(c) \/ Restart(c)
      PROVE  AnyNext
  BY <1>4 DEF AnyNext
<1> QED
  BY <1>1, <1>2, <1>3, <1>4 DEF SvNext

\* What a clone shows, some operation it has inserted.
LEMMA ShownWasInserted ==
  ASSUME IInv, NEW c \in Clone, NEW t \in graph[c]
  PROVE  \E q \in Reached(ops, Frontier[c]) : t \in q.inserts
<1>1. PICK tt \in Visible(Reached(ops, Frontier[c])) : tt[1] = t
  BY DEF IInv, StoreInv, Shown
<1>2. PICK q \in Reached(ops, Frontier[c]) : tt \in InsertTids(q)
  BY VisibleInserted
<1> QED
  BY <1>1, <1>2 DEF InsertTids, Withs

\* The clock of an operation made when another is applied
CxnTime(c, o) == Ticked(Join(time[c], o.time), c, 2)

\* The constraint's operation comes after all that its maker has, and the one applied.
LEMMA MendingComesAfter ==
  ASSUME IInv, NEW c \in Clone, NEW o \in ops, ReadyFor(c, o), InSequence(c, o),
         NEW n, n.src = c, n.time = CxnTime(c, o),
         NEW q \in Reached(ops, Frontier[c]) \cup {o}
  PROVE  Before(q, n)
<1>1. /\ o \in Operation /\ o.src \in Clone \ {c} /\ o.time \in Clock
      /\ time[c] \in Clock /\ Frontier \in [Clone -> Clock]
      /\ Frontier[c] = journal[c].gwc
      /\ Join(time[c], o.time) = [time[c] EXCEPT ![o.src] = Ticks(o)]
      /\ InStep(c, journal[c], time[c])
      /\ journal[c].time \in Clock
      /\ NobodyAhead(ops, Frontier)
  BY ReadyClocks DEF IInv, ClocksAgree, TypeOK, Coherent
<1>2. /\ q \in ops /\ q.src \in Clone /\ q.time \in Clock /\ Ticks(q) = q.time[q.src]
      /\ Ticks(o) \in Nat /\ Ticks(q) \in Nat
  BY DEF Reached, IInv, TypeOK, Operation, Ticks, Clock
<1>3. Join(time[c], o.time) \in Clock
  BY <1>1, JoinClock
<1>4. /\ n.time[c] = Join(time[c], o.time)[c] + 2
      /\ \A d \in Clone \ {c} : n.time[d] = Join(time[c], o.time)[d]
  BY <1>3, TickedClock DEF CxnTime
<1>5. /\ n.time[c] = time[c][c] + 2
      /\ n.time[o.src] = Ticks(o)
      /\ \A d \in Clone \ {c, o.src} : n.time[d] = time[c][d]
  BY <1>1, <1>4 DEF Clock
<1>6. /\ Frontier[c][c] <= time[c][c]
      /\ \A d \in Clone \ {c} : Frontier[c][d] = time[c][d]
      /\ \A d \in Clone : Frontier[c][d] \in Nat /\ time[c][d] \in Nat
  BY <1>1 DEF InStep, Clock
<1>7. Frontier[c][o.src] < Ticks(o)
  BY <1>1, <1>6 DEF InSequence
<1>8. Ticks(q) <= n.time[q.src]
  <2>1. CASE q = o
    BY <1>2, <1>5, <2>1
  <2>2. CASE Ticks(q) <= Frontier[c][q.src]
    <3>1. CASE q.src = c
      BY <1>2, <1>5, <1>6, <2>2, <3>1
    <3>2. CASE q.src = o.src
      BY <1>1, <1>2, <1>5, <1>6, <1>7, <2>2, <3>2
    <3>3. CASE q.src \notin {c, o.src}
      BY <1>2, <1>5, <1>6, <2>2, <3>3
    <3> QED
      BY <3>1, <3>2, <3>3
  <2> QED
    BY <2>1, <2>2 DEF Reached
<1>9. q # n
  <2>1. q.time[c] <= Frontier[c][c] /\ q.time[c] \in Nat
    BY <1>1, <1>2 DEF NobodyAhead, Clock
  <2>2. n.time[c] > Frontier[c][c]
    BY <1>5, <1>6
  <2> QED
    BY <1>6, <2>1, <2>2
<1> QED
  BY <1>8, <1>9 DEF Before

\* The graph after a remote operation and its mending has none of what was mended.
LEMMA MendedGraph ==
  ASSUME SvIInv, constrained, NEW c \in Clone, NEW o \in ops, SvApply(c, o)
  PROVE  /\ graph' = [graph EXCEPT ![c] = graph'[c]]
         /\ graph'[c] \subseteq Patched(graph[c], AppliedPatch(c, o))
         /\ graph'[c] \cap MendingOf(c, o).deletes = {}
<1> DEFINE a == MendingOf(c, o)
           AP == AppliedPatch(c, o)
<1>1. /\ graph[c] \in SUBSET Triple /\ Single(graph[c]) /\ AP \in Patch /\ a \in Patch
      /\ Apply(c, o, a) /\ AP.inserts = o.inserts
  BY MendingFacts, AppliedIsPatch DEF SvIInv, IInv
<1>2. a.inserts = {}
  BY <1>1, MendingDeletes DEF MendingOf
<1>3. graph[c] = {t \in Triple : FindTids(c, {t}) # {}}
  BY Consequences DEF SvIInv, GraphShowsTids
<1> HIDE DEF a, AP
<1>4. Existing(c, a) = a.deletes \cap graph[c]
  BY <1>1, <1>3 DEF Existing, Patch
<1>5. /\ GraphPatch(c, o, a).inserts = o.inserts \ a.deletes
      /\ GraphPatch(c, o, a).deletes =
           (AP.deletes \cup (a.deletes \cap graph[c])) \ (o.inserts \ a.deletes)
  BY <1>2, <1>4 DEF GraphPatch, Append, Kept, AP
<1>6. /\ Patched(graph[c], GraphPatch(c, o, a)) \subseteq Patched(graph[c], AP)
      /\ Patched(graph[c], GraphPatch(c, o, a)) \cap a.deletes = {}
  BY <1>1, <1>5 DEF Patched
<1>7. graph' = [graph EXCEPT ![c] = Patched(graph[c], GraphPatch(c, o, a))]
  BY <1>1 DEF Apply
<1>8. graph'[c] = Patched(graph[c], GraphPatch(c, o, a))
  BY <1>7 DEF SvIInv, IInv, TypeOK
<1> QED
  BY <1>6, <1>7, <1>8 DEF a, AP

\* No step leaves two values.
LEMMA SingleStep ==
  ASSUME SvIInv, constrained, SvNext
  PROVE  AtMostOneValue'
<1>1. \A c \in Clone : Single(graph[c])
  BY DEF SvIInv, AtMostOneValue, Single
<1>2. ASSUME NEW c \in Clone, NEW G, Single(G), graph' = [graph EXCEPT ![c] = G]
      PROVE  AtMostOneValue'
  <2>1. \A d \in Clone : Single(graph'[d])
    BY <1>1, <1>2 DEF SvIInv, IInv, TypeOK
  <2> QED
    BY <2>1 DEF AtMostOneValue, Single
<1>3. ASSUME NEW c \in Clone, NEW patch \in Patch, SvTransact(c, patch)
      PROVE  AtMostOneValue'
  <2>1. graph[c] \in SUBSET Triple /\ Checked(graph[c], Interim(patch))
    BY <1>3 DEF SvTransact, SvIInv, IInv, TypeOK
  <2>2. Single(Patched(graph[c], patch))
    BY <1>1, <2>1, CheckedIsSingle
  <2>3. graph' = [graph EXCEPT ![c] = Patched(graph[c], patch)]
    BY <1>3 DEF SvTransact, Transact
  <2> QED
    BY <1>2, <2>2, <2>3
<1>4. ASSUME NEW c \in Clone, NEW o \in ops, SvApply(c, o)
      PROVE  AtMostOneValue'
  <2> DEFINE W == Patched(graph[c], AppliedPatch(c, o))
             D == MendingOf(c, o).deletes
  <2>1. graph[c] \in SUBSET Triple /\ AppliedPatch(c, o) \in Patch
    BY MendingFacts
  <2>2. \A t, u \in W : t[1] = u[1] /\ t # u => t \in D \/ u \in D
    BY <1>1, <2>1, MendingDeletes DEF MendingOf
  <2>3. /\ graph' = [graph EXCEPT ![c] = graph'[c]]
        /\ graph'[c] \subseteq W /\ graph'[c] \cap D = {}
    BY <1>4, MendedGraph
  <2> HIDE DEF W, D
  <2>4. Single(graph'[c])
    BY <2>2, <2>3 DEF Single
  <2> QED
    BY <1>2, <2>3, <2>4
<1>5. ASSUME NEW c \in Clone, TransactNothing(c) \/ Restart(c)
      PROVE  AtMostOneValue'
  BY <1>5 DEF TransactNothing, Restart, SvIInv, AtMostOneValue
<1> QED
  BY <1>3, <1>4, <1>5 DEF SvNext

\* What applications wrote is there: an operation is only ever added.
LEMMA WrittenStep ==
  ASSUME SvIInv, SvNext
  PROVE  (written \subseteq ops)'
<1>1. ASSUME NEW c \in Clone, NEW patch \in Patch, SvTransact(c, patch)
      PROVE  (written \subseteq ops)'
  BY <1>1 DEF SvTransact, Transact, SvIInv
<1>2. ASSUME NEW c \in Clone, NEW o \in ops, SvApply(c, o)
      PROVE  (written \subseteq ops)'
  BY <1>2 DEF SvApply, Apply, SvIInv
<1>3. ASSUME NEW c \in Clone, TransactNothing(c) \/ Restart(c), UNCHANGED written
      PROVE  (written \subseteq ops)'
  BY <1>3 DEF TransactNothing, Restart, SvIInv
<1> QED
  BY <1>1, <1>2, <1>3 DEF SvNext

\* The constraint's operations delete nothing that has not lost to a greater value.
LEMMA JustifiedStep ==
  ASSUME SvIInv, constrained, SvNext
  PROVE  Justified'
<1>1. ASSUME ops' \ written' \subseteq ops \ written, ops \subseteq ops'
      PROVE  Justified'
  BY <1>1 DEF SvIInv, Justified
<1>2. ASSUME NEW c \in Clone, NEW patch \in Patch, SvTransact(c, patch)
      PROVE  Justified'
  <2>1. ops \subseteq ops' /\ written' = written \cup (ops' \ ops)
    BY <1>2 DEF SvTransact, Transact
  <2> QED
    BY <1>1, <2>1 DEF SvIInv
<1>3. ASSUME NEW c \in Clone, NEW o \in ops, SvApply(c, o)
      PROVE  Justified'
  <2> DEFINE a == MendingOf(c, o)
             W == Patched(graph[c], AppliedPatch(c, o))
             cxn == OperationMessage(c, CxnTime(c, o), CxnDeletes(c, o, a), a.inserts)
             Past == Reached(ops, Frontier[c]) \cup {o}
  <2>1. /\ Apply(c, o, a) /\ written' = written
        /\ graph[c] \in SUBSET Triple /\ Single(graph[c]) /\ AppliedPatch(c, o) \in Patch
    BY <1>3, MendingFacts
  <2>2. \A t \in a.deletes : \E u \in W : Above(u, t)
    BY <2>1, MendingDeletes DEF MendingOf
  <2>3. cxn.src = c /\ cxn.time = CxnTime(c, o) /\ cxn.deletes = CxnDeletes(c, o, a)
    BY DEF OperationMessage
  <2>4. ops' = ops \/ ops' = ops \cup {cxn}
    BY <2>1 DEF Apply, CxnTime
  <2>5. ReadyFor(c, o) /\ InSequence(c, o)
    BY <2>1 DEF Apply
  <2> HIDE DEF a, cxn
  <2>6. \A q \in Past : Before(q, cxn) /\ q \in ops
    BY <2>3, <2>5, MendingComesAfter DEF SvIInv, Reached
  <2>7. \A u \in W : \E q \in Past : u \in q.inserts
    <3>1. \A u \in graph[c] : \E q \in Past : u \in q.inserts
      BY ShownWasInserted DEF SvIInv
    <3>2. AppliedPatch(c, o).inserts = o.inserts
      BY AppliedIsPatch DEF SvIInv, IInv
    <3> QED
      BY <3>1, <3>2 DEF Patched
  <2>8. \A tt \in CxnDeletes(c, o, a) : tt[1] \in a.deletes
    BY DEF CxnDeletes, FindTids, Withs
  <2> HIDE DEF W, Past
  <2>9. \A tt \in cxn.deletes : \E q \in ops : Before(q, cxn) /\ \E u \in q.inserts : Above(u, tt[1])
    <3> SUFFICES ASSUME NEW tt \in cxn.deletes
                 PROVE  \E q \in ops : Before(q, cxn) /\ \E u \in q.inserts : Above(u, tt[1])
      OBVIOUS
    <3>1. PICK u \in W : Above(u, tt[1])
      BY <2>2, <2>3, <2>8
    <3>2. PICK q \in Past : u \in q.inserts
      BY <2>7
    <3> QED
      BY <2>6, <3>1, <3>2
  <2>10. CASE ops' = ops
    BY <1>1, <2>1, <2>10 DEF SvIInv
  <2>11. CASE ops' = ops \cup {cxn}
    BY <2>1, <2>9, <2>11 DEF SvIInv, Justified
  <2> QED
    BY <2>4, <2>10, <2>11
<1>4. ASSUME NEW c \in Clone, TransactNothing(c) \/ Restart(c), UNCHANGED written
      PROVE  Justified'
  BY <1>1, <1>4 DEF TransactNothing, Restart, SvIInv
<1> QED
  BY <1>2, <1>3, <1>4 DEF SvNext

-----------------------------------------------------------------------------
(* The theorems *)

\* Every step keeps the invariant of SuSet, and that of the constraint where there is one.
LEMMA SvInvariantStep == SvIInv /\ [SvNext]_svVars => SvIInv' /\ [AnyNext]_vars
<1> SUFFICES ASSUME SvIInv, [SvNext]_svVars
             PROVE  SvIInv' /\ [AnyNext]_vars
  OBVIOUS
<1>1. [AnyNext]_vars
  BY SvIsAny
<1>2. IInv'
  BY <1>1, InvariantStep DEF SvIInv
<1>3. CASE SvNext
  <2>1. (written \subseteq ops)' /\ constrained' = constrained
    BY <1>3, WrittenStep DEF SvNext
  <2>2. constrained => Justified' /\ AtMostOneValue'
    BY <1>3, SingleStep, JustifiedStep
  <2> QED
    BY <1>1, <1>2, <2>1, <2>2 DEF SvIInv
<1>4. CASE UNCHANGED svVars
  BY <1>1, <1>2, <1>4 DEF svVars, vars, SvIInv, AtMostOneValue, Justified
<1> QED
  BY <1>3, <1>4

\* The inductive invariant holds in every reachable state.
THEOREM SvInvariance == SvSpec => []SvIInv
<1>1. SvInit => SvIInv
  BY InitInvariant DEF SvInit, Init, SvIInv, AtMostOneValue, Justified
<1> QED
  BY <1>1, SvInvariantStep, PTL DEF SvSpec

\* With the constraint too, the set converges, adds win and operations arrive in causal
\* order: everything SuSet promises whatever the constraints do.
THEOREM StillASuSet ==
  SvSpec => /\ [](TidsAreOrSet /\ GraphShowsTids /\ Converged /\ AddWins /\ TicksIdentifyOps)
            /\ DeliveredInOrder /\ AppliedOnlyGrows
<1>1. SvIInv => TidsAreOrSet /\ GraphShowsTids /\ Converged /\ AddWins /\ TicksIdentifyOps
  BY Consequences DEF SvIInv
<1>2. SvIInv => IInv
  BY DEF SvIInv
<1> QED
  BY <1>1, <1>2, SvInvariance, SvInvariantStep, DeliveryStep, PTL
  DEF SvSpec, DeliveredInOrder, AppliedOnlyGrows

\* Under the constraint no value is lost for nothing: a lost one was deleted by an
\* application, or there is a greater one.
LEMMA LossesJustified == SvIInv /\ constrained => LostToGreater
<1> SUFFICES ASSUME SvIInv, constrained,
                    NEW c \in Clone, NEW o \in Applied(c) \cap written,
                    NEW t \in o.inserts, t \notin graph[c],
                    ~ \E p \in Applied(c) \cap written : <<t, TidOf(o)>> \in p.deletes
             PROVE  \E p \in Applied(c) : \E u \in p.inserts : u[1] = t[1] /\ u[2] > t[2]
  BY DEF LostToGreater
<1>1. PICK p \in Applied(c) : <<t, TidOf(o)>> \in p.deletes
  BY Consequences DEF SvIInv, AddWins
<1>2. p \in ops \ written
  BY <1>1 DEF Applied
<1>3. PICK q \in ops : Before(q, p) /\ \E u \in q.inserts : Above(u, t)
  BY <1>1, <1>2 DEF SvIInv, Justified
<1>4. q \in Applied(c)
  BY <1>1, <1>3, AppliedIsReached DEF SvIInv, IInv, Coherent, PastReached
<1> QED
  BY <1>3, <1>4 DEF Above

\* Where the constraint is declared, no clone ever shows two values of one subject, and
\* no value is lost but to a delete of an application or to a greater value.
THEOREM AlwaysResolved == SvSpec => []Resolved
<1>1. SvIInv => Resolved
  BY LossesJustified DEF SvIInv, Resolved
<1> QED
  BY <1>1, SvInvariance, PTL

=============================================================================
