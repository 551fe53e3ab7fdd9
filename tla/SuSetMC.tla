------------------------------- MODULE SuSetMC -------------------------------
(***************************************************************************)
(* Model checking of modules SuSet and SingleValued, in three settings:    *)
(* two clones whose constraints may do anything that is in SomeAssertions  *)
(* to a remote operation; two clones with the single-valued constraint;    *)
(* and three clones that write one value, without constraints.             *)
(***************************************************************************)
EXTENDS SingleValued

CONSTANT c3  \* the third clone

VARIABLE setting

mcVars == <<svVars, setting>>

\* A subject and two values
t1 == <<"s", 1>>
t2 == <<"s", 2>>
Triples == {t1, t2}

\* A constraint that deletes, one that inserts, and one that does both
SomeAssertions ==
  {NoPatch, [deletes |-> {t1}, inserts |-> {}],
   [deletes |-> {}, inserts |-> {t1}], [deletes |-> {t1}, inserts |-> {t2}]}

Idle == IF setting = "three" THEN {} ELSE {c3}

MCInit ==
  /\ SvInit
  /\ setting \in {"any", "single", "three"}
  /\ constrained = (setting = "single")

\* The operations of constraints that do anything count like those of applications
Two ==
  /\ setting # "three"
  /\ SvNext
  /\ setting = "any" => Cardinality(ops') <= MaxWrites

\* No time is lost, and so no restart loses any
Three ==
  /\ setting = "three"
  /\ \E c \in Clone :
       \/ \E patch \in Patch : SvTransact(c, patch)
       \/ \E o \in ops : Apply(c, o, NoPatch) /\ UNCHANGED written
  /\ t2 \notin UNION {o.inserts : o \in ops'}
  /\ UNCHANGED constrained

MCNext ==
  /\ Two \/ Three
  /\ \A c \in Idle : time'[c] = time[c]
  /\ UNCHANGED setting

\* A clone applies a remote operation; with a constraint that does nothing, if the bound
\* does not allow for another
MCApply(c) ==
  /\ \E o \in ops : IF setting = "three" THEN Apply(c, o, NoPatch) /\ UNCHANGED written
                                         ELSE SvApply(c, o)
  /\ setting = "any" => Cardinality(ops') <= MaxWrites
  /\ UNCHANGED <<constrained, setting>>

\* Every operation a clone can accept eventually reaches it
MCSpec ==
  MCInit /\ [][MCNext]_mcVars /\ \A c \in Clone : WF_mcVars(c \notin Idle /\ MCApply(c))

\* Every clone always catches up with all operations there are: ticks spent without an
\* operation, or forgotten by a restart, never leave a gap that a receiver waits for
\* ever to see filled.  This is AlwaysCatchesUp of module SuSet, for the clones there are.
EveryoneCatchesUp == \A c \in Clone : []<>(c \in Idle \/ Applied(c) = ops)

=============================================================================
