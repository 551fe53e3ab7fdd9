------------------------------ MODULE TreeClock ------------------------------
(***************************************************************************)
(* Tree clocks (clocks.ts).  A node of the tree is its path from the root, *)
(* a sequence of 0 (left) and 1 (right); a tree maps its nodes to their    *)
(* local ticks, and a clock is a tree with one leaf marked as the identity *)
(* of the process.  Where the code walks two trees together, the operators *)
(* here say which nodes count; TreeClockCode has the code's own recursion, *)
(* and its run compares the two.                                           *)
(***************************************************************************)
EXTENDS Integers, Sequences
LOCAL INSTANCE SequencesExt
LOCAL INSTANCE Functions

Children(p) == {Append(p, 0), Append(p, 1)}

IsFork(tree, p) == Children(p) \subseteq DOMAIN tree

\* The ticks of a process which the clock has no place for
None == -1

Genesis == [tree |-> [p \in {<<>>} |-> 0], id |-> <<>>]

-----------------------------------------------------------------------------
(* Reading *)

\* Mutant: the forks of the identity do not count.
GetTicksOfLine(tree, id) ==
  SumFunctionOnSet(tree, {p \in DOMAIN tree : IsPrefix(p, id)})

\* TickTree.getTicks: the ticks which a tree has for the process at id.  They
\* are those of its line of descent; if the tree knows of forks of this very
\* identity then all their ticks count.
GetTicks(tree, id) ==
  SumFunctionOnSet(tree, {p \in DOMAIN tree : IsPrefix(p, id) \/ IsPrefix(id, p)})

TicksOf(c) == GetTicks(c.tree, c.id)

DeepTicks(tree, p) == SumFunctionOnSet(tree, {q \in DOMAIN tree : IsPrefix(p, q)})

\* TickTree.anyLt
AnyLt(t, u) ==
  \E p \in DOMAIN t \cap DOMAIN u :
    /\ ~ (IsFork(t, p) /\ IsFork(u, p))
    /\ DeepTicks(t, p) < DeepTicks(u, p)

\* TreeClock.nonIdTicks, of the subtree at p: a fork's own ticks count only if
\* another process has ticked below it
NonIdTicks(c, p) ==
  LET others == {q \in DOMAIN c.tree : q # c.id /\ ~ IsFork(c.tree, q)}
      ticked(q) == \E r \in others : IsStrictPrefix(q, r) /\ c.tree[r] > 0
  IN  IF p \in others THEN c.tree[p]
      ELSE IF ticked(p)
      THEN SumFunctionOnSet(c.tree, {q \in DOMAIN c.tree :
             IsPrefix(p, q) /\ (q \in others \/ ticked(q))})
      ELSE None

\* TreeClock.anyNonIdLt: does d know of ticks, of any third process, that c lacks
AnyNonIdLt(c, d) ==
  \E p \in {q \in DOMAIN c.tree \cap DOMAIN d.tree : ~ (IsFork(c.tree, q) /\ IsFork(d.tree, q))} :
    LET mine == NonIdTicks(c, p)
        theirs == NonIdTicks(d, p)
    IN  mine # None /\ theirs # None /\ mine < theirs

\* TreeClock.hash: a fork with no ticks below it does not show
Hash(c) ==
  LET shown == {p \in DOMAIN c.tree : p = <<>> \/
                  \E q \in DOMAIN c.tree : IsStrictPrefix(Front(p), q) /\ c.tree[q] > 0}
  IN  [tree |-> [p \in shown |-> c.tree[p]],
       id |-> CHOOSE p \in shown : /\ IsPrefix(p, c.id)
                                   /\ Children(p) \cap shown = {}]

-----------------------------------------------------------------------------
(* Changing *)

\* TreeClock.ticked, without an argument
Ticked(c) == [c EXCEPT !.tree[c.id] = @ + 1]

\* TreeClock.ticked, with the ticks to have.  If they are fewer than an ancestor
\* of the identity has, the ancestor is the identity again.
TickedTo(c, n) ==
  LET before(p) == SumFunctionOnSet(c.tree, {q \in DOMAIN c.tree : IsStrictPrefix(q, p)})
      short == {p \in Prefixes(c.id) : n < before(p) + c.tree[p]}
      p == IF short = {} THEN c.id
           ELSE CHOOSE q \in short : \A r \in short : IsPrefix(q, r)
  IN  [tree |-> [q \in {r \in DOMAIN c.tree : ~ IsStrictPrefix(p, r)} |->
                   IF q = p THEN n - before(p) ELSE c.tree[q]],
       id |-> p]

\* TreeClock.forked: the old owner goes on as the left, the newcomer is the right
Forked(c, side) ==
  [tree |-> [p \in DOMAIN c.tree \cup Children(c.id) |->
               IF p \in DOMAIN c.tree THEN c.tree[p] ELSE 0],
   id |-> Append(c.id, side)]

\* The update throws: the other tree has forked our identity
Overlaps(c, tree) == \E p \in DOMAIN tree : IsStrictPrefix(c.id, p)

\* The ticks of each node, the most that either tree has
Merge(t, u) ==
  [p \in DOMAIN t \cup DOMAIN u |->
     IF p \notin DOMAIN u \/ (p \in DOMAIN t /\ t[p] > u[p]) THEN t[p] ELSE u[p]]

\* TreeClock.update
Update(c, tree) == [c EXCEPT !.tree = Merge(@, tree)]

\* GlobalClock.update throws: its tree has forked this identity
InFuture(tree, c) == \E p \in DOMAIN tree : IsStrictPrefix(c.id, p)

=============================================================================
