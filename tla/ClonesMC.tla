------------------------------ MODULE ClonesMC ------------------------------
(***************************************************************************)
(* Model checking of module Clones.                                        *)
(***************************************************************************)
EXTENDS Clones, TreeClockCode, TLC

CONSTANTS c1, c2, c3

Three == {c1, c2, c3}

\* The newcomers are alike
Symmetry == Permutations({c2, c3})

\* Three clones have joined before there is any operation: the domain after
\* NewClock(c1), ResetClock(c2), Snapshot(c2), and the same of c3.  No one's
\* helper matters any more, and each is its own, to tell these behaviours apart.
First == Forked(Genesis, 0)
Joined ==
  /\ phase = [c \in Clone |-> "live"]
  /\ time = c1 :> Forked(First, 0) @@ c2 :> Forked(Genesis, 1) @@ c3 :> Forked(First, 1)
  /\ saved = time
  /\ gwc = [c \in Clone |-> Genesis.tree]
  /\ applied = [c \in Clone |-> {}]
  /\ buffer = [c \in Clone |-> <<>>]
  /\ ops = <<>>
  /\ offers = {}
  /\ helper = [c \in Clone |-> c]

HadJoined == Live = Clone /\ \A c \in Clone : helper[c] = c

\* Bound: clones that had joined make MaxOps operations and fork no more; others
\* make one operation less.
Within ==
  IF HadJoined THEN offers = {} ELSE Len(ops) < MaxOps

JoiningOrJoined == (Init \/ Joined) /\ [][Next /\ Within']_vars

\* What a clone tells by the operators of TreeClock from its clock, and that of an
\* operation which it lacks, and makes of its own with it, is what the recursive methods of
\* clocks.ts tell and make, whether or not the two have forked alike.
ClocksAsCode ==
  \A c \in Members : /\ SameAlone(time[c])
                     /\ \A i \in DOMAIN ops \ applied[c] : SameTogether(time[c], ops[i].time)

=============================================================================
