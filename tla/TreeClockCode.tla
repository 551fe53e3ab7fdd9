---------------------------- MODULE TreeClockCode ----------------------------
(***************************************************************************)
(* The methods of TickTree and TreeClock in clocks.ts, in their own        *)
(* recursion over the object tree, as the reference for module TreeClock:  *)
(* everything that clocks.ts can tell of two clocks, and make of them, is  *)
(* compared with what TreeClock says.                                      *)
(***************************************************************************)
EXTENDS TreeClock

-----------------------------------------------------------------------------
(* The objects: [id, ticks, fork], fork being <<>> or <<left, right>> *)

RECURSIVE Node(_, _)
Node(c, p) ==
  [id |-> p = c.id, ticks |-> c.tree[p],
   fork |-> IF IsFork(c.tree, p) THEN <<Node(c, Append(p, 0)), Node(c, Append(p, 1))>>
            ELSE <<>>]

Object(c) == Node(c, <<>>)

Leaf(id, n) == [id |-> id, ticks |-> n, fork |-> <<>>]

\* No clock: an undefined result, or a throw
Nothing == Leaf(FALSE, None)

Bud(o, i) == IF o.fork = <<>> THEN Leaf(FALSE, 0) ELSE o.fork[i]

OrZero(x) == IF x = None THEN 0 ELSE x

MaxOf(x, y) == IF x < y THEN y ELSE x

RECURSIVE ObjectDeepTicks(_)
ObjectDeepTicks(o) ==
  o.ticks + (IF o.fork = <<>> THEN 0
             ELSE ObjectDeepTicks(o.fork[1]) + ObjectDeepTicks(o.fork[2]))

RECURSIVE ObjectGetTicks(_, _)
ObjectGetTicks(o, filter) ==
  IF filter.id THEN ObjectDeepTicks(o)
  ELSE IF o.fork = <<>> /\ filter.fork = <<>> THEN None
  ELSE LET left == ObjectGetTicks(Bud(o, 1), Bud(filter, 1))
           right == ObjectGetTicks(Bud(o, 2), Bud(filter, 2))
       IN  IF left # None \/ right # None
           THEN o.ticks + OrZero(left) + OrZero(right) ELSE None

RECURSIVE ObjectTicks(_)
ObjectTicks(o) ==
  IF o.id THEN o.ticks
  ELSE IF o.fork = <<>> THEN None
  ELSE LET left == ObjectTicks(o.fork[1])
           right == ObjectTicks(o.fork[2])
       IN  IF left # None \/ right # None
           THEN o.ticks + OrZero(left) + OrZero(right) ELSE None

RECURSIVE ObjectAnyLt(_, _)
ObjectAnyLt(o, other) ==
  IF o.fork = <<>> \/ other.fork = <<>> THEN ObjectDeepTicks(o) < ObjectDeepTicks(other)
  ELSE ObjectAnyLt(o.fork[1], other.fork[1]) \/ ObjectAnyLt(o.fork[2], other.fork[2])

RECURSIVE ObjectNonIdTicks(_)
ObjectNonIdTicks(o) ==
  IF ~ o.id /\ o.fork = <<>> THEN o.ticks
  ELSE IF o.fork = <<>> THEN None
  ELSE LET left == ObjectNonIdTicks(o.fork[1])
           right == ObjectNonIdTicks(o.fork[2])
       IN  IF left \notin {None, 0} \/ right \notin {None, 0}
           THEN o.ticks + OrZero(left) + OrZero(right) ELSE None

RECURSIVE ObjectAnyNonIdLt(_, _)
ObjectAnyNonIdLt(o, other) ==
  IF o.fork = <<>> \/ other.fork = <<>>
  THEN LET mine == ObjectNonIdTicks(o)
           theirs == ObjectNonIdTicks(other)
       IN  mine # None /\ theirs # None /\ mine < theirs
  ELSE \/ ObjectAnyNonIdLt(o.fork[1], other.fork[1])
       \/ ObjectAnyNonIdLt(o.fork[2], other.fork[2])

\* toJSON('forHash')
RECURSIVE ObjectHash(_)
ObjectHash(o) ==
  IF o.fork = <<>> THEN o
  ELSE LET left == ObjectHash(o.fork[1])
           right == ObjectHash(o.fork[2])
           zero(x) == x.fork = <<>> /\ x.ticks = 0
       IN  IF zero(left) /\ zero(right) THEN Leaf(left.id \/ right.id, o.ticks)
           ELSE [o EXCEPT !.fork = <<left, right>>]

\* _ticked: Nothing for a tree with no identity in it; n is None for the next tick
RECURSIVE ObjectTicked(_, _)
ObjectTicked(o, n) ==
  IF o.id THEN Leaf(TRUE, IF n = None THEN o.ticks + 1 ELSE n)
  ELSE IF o.fork = <<>> THEN Nothing
  ELSE IF n # None /\ OrZero(n) < o.ticks
  THEN IF ObjectTicks(o) # None THEN Leaf(TRUE, n) ELSE Nothing
  ELSE LET rest == IF n = None THEN None ELSE n - o.ticks
           left == ObjectTicked(o.fork[1], rest)
           right == ObjectTicked(o.fork[2], rest)
       IN  IF left # Nothing THEN [o EXCEPT !.fork[1] = left]
           ELSE IF right # Nothing THEN [o EXCEPT !.fork[2] = right]
           ELSE Nothing

\* _forked, for one side of the result
RECURSIVE ObjectForked(_, _)
ObjectForked(o, side) ==
  IF o.id THEN [id |-> FALSE, ticks |-> o.ticks,
                fork |-> <<Leaf(side = 0, 0), Leaf(side = 1, 0)>>]
  ELSE IF o.fork = <<>> THEN Nothing
  ELSE LET left == ObjectForked(o.fork[1], side)
           right == ObjectForked(o.fork[2], side)
       IN  IF left # Nothing THEN [o EXCEPT !.fork[1] = left]
           ELSE IF right # Nothing THEN [o EXCEPT !.fork[2] = right]
           ELSE Nothing

\* update: Nothing when it throws
RECURSIVE ObjectUpdate(_, _)
ObjectUpdate(o, other) ==
  IF o.id THEN IF other.fork # <<>> THEN Nothing
               ELSE Leaf(TRUE, MaxOf(o.ticks, other.ticks))
  ELSE IF other.fork = <<>> THEN [o EXCEPT !.ticks = MaxOf(@, other.ticks)]
  ELSE LET left == ObjectUpdate(Bud(o, 1), other.fork[1])
           right == ObjectUpdate(Bud(o, 2), other.fork[2])
       IN  IF left = Nothing \/ right = Nothing THEN Nothing
           ELSE [o EXCEPT !.ticks = MaxOf(@, other.ticks), !.fork = <<left, right>>]

-----------------------------------------------------------------------------
(* Comparison of the two *)

\* What the operators of TreeClock tell of a clock, and make of it, is what the code does
SameAlone(c) ==
  LET object == Object(c)
  IN  /\ TicksOf(c) = ObjectTicks(object)
      /\ NonIdTicks(c, <<>>) = ObjectNonIdTicks(object)
      /\ Node(Hash(c), <<>>) = ObjectHash(object)
      /\ Object(Ticked(c)) = ObjectTicked(object, None)
      /\ \A n \in 0 .. TicksOf(c) + 1 : Object(TickedTo(c, n)) = ObjectTicked(object, n)
      /\ \A side \in {0, 1} : Object(Forked(c, side)) = ObjectForked(object, side)

\* and so with two clocks, the one being updated with the other
SameTogether(one, two) ==
  LET mine == Object(one)
      theirs == Object(two)
  IN  /\ GetTicks(one.tree, two.id) = ObjectGetTicks(mine, theirs)
      /\ AnyLt(one.tree, two.tree) <=> ObjectAnyLt(mine, theirs)
      /\ AnyNonIdLt(one, two) <=> ObjectAnyNonIdLt(mine, theirs)
      /\ IF Overlaps(one, two.tree) THEN ObjectUpdate(mine, theirs) = Nothing
         ELSE Object(Update(one, two.tree)) = ObjectUpdate(mine, theirs)

=============================================================================
