---------------------------- MODULE SingleValued ----------------------------
(***************************************************************************)
(* The single-valued constraint (constraints/SingleValued.ts) at work on   *)
(* the replicated dataset of module SuSet: a local transaction that gives  *)
(* a subject two values of the property is refused, and the application of *)
(* a remote operation that does so is mended, in the interim update of     *)
(* InterimUpdatePatch.ts, by an operation that deletes all but the         *)
(* greatest value.                                                         *)
(*                                                                         *)
(* All triples are of the one property, as pairs of a subject and a value. *)
(***************************************************************************)
EXTENDS SuSet, FiniteSetsExt

CONSTANT MaxWrites  \* bound: operations of the application

ASSUME SingleValuedAssumption ==
  /\ \A t \in Triple : t = <<t[1], t[2]>> /\ t[2] \in Nat
  /\ IsFiniteSet({t[2] : t \in Triple})
  /\ MaxWrites \in Nat

VARIABLES constrained,  \* whether the domain declares the constraint
          written       \* history: the operations of applications, not of constraints

svVars == <<vars, constrained, written>>

-----------------------------------------------------------------------------
(* The interim update, which the constraint sees and adds to *)

Interim(patch) == [patch |-> patch, assertions |-> NoPatch]

\* The update of everything there is so far
UpdateOf(interim) == Append(interim.patch, interim.assertions)

\* assert, of triples without variables: JrqlGraph.update has them deleted whether or
\* not they are there
Asserted(interim, deletes) ==
  [interim EXCEPT !.assertions = Append(@, [deletes |-> deletes, inserts |-> {}])]

-----------------------------------------------------------------------------
(* The constraint *)

ValuesOf(s, T) == {t[2] : t \in {u \in T : u[1] = s}}

Subjects(T) == {t[1] : t \in T}

\* updateSubject: the values of a subject in the state, as the update will leave them
Updated(state, update, s) == ValuesOf(s, Patched(state, update))

\* Mutant: what the subject has already is not looked at.
AffectedInserted(state, update) ==
  {<<s, ValuesOf(s, update.inserts)>> : s \in Subjects(update.inserts)}

\* affected: if there are inserts, the values inserted for each subject, and then those
\* that each subject of the update will have
Affected(state, update) ==
  IF update.inserts = {} THEN {}
  ELSE {<<s, ValuesOf(s, update.inserts)>> : s \in Subjects(update.inserts)}
         \cup {<<s, Updated(state, update, s)>> :
                 s \in Subjects(update.inserts) \cup Subjects(update.deletes)}

IsMultiValued(values) == Cardinality(values) > 1

\* The values that resolve does not choose
Losers(s, values) == {<<s, v>> : v \in values \ {Max(values)}}

Checked(state, interim) ==
  \A x \in Affected(state, UpdateOf(interim)) : ~IsMultiValued(x[2])

Mended(state, interim) ==
  Asserted(interim, UNION {Losers(x[1], x[2]) :
           x \in {y \in Affected(state, UpdateOf(interim)) : IsMultiValued(y[2])}})

-----------------------------------------------------------------------------
SvInit == Init /\ constrained \in BOOLEAN /\ written = {}

\* A local transaction passes the check, or is refused, which is TransactNothing
SvTransact(c, patch) ==
  /\ Cardinality(written) < MaxWrites
  /\ constrained => Checked(graph[c], Interim(patch))
  /\ Transact(c, patch)
  /\ written' = written \cup (ops' \ ops)

\* What the constraint may assert of a remote operation; without it, any other may be there
AssertionsOn(c, o) ==
  IF constrained
  THEN {Mended(graph[c], interim).assertions : interim \in {Interim(AppliedPatch(c, o))}}
  ELSE Assertions

SvApply(c, o) ==
  /\ \E a \in AssertionsOn(c, o) : Apply(c, o, a)
  /\ UNCHANGED written

SvNext ==
  /\ \E c \in Clone :
       \/ \E patch \in Patch : SvTransact(c, patch)
       \/ \E o \in ops : SvApply(c, o)
       \/ (TransactNothing(c) \/ Restart(c)) /\ UNCHANGED written
  /\ UNCHANGED constrained

SvSpec == SvInit /\ [][SvNext]_svVars

-----------------------------------------------------------------------------
(* Properties *)

\* No clone ever shows two values, although clones that know nothing of each other
\* write, and each mends what the others wrote (check, apply).
AtMostOneValue ==
  \A c \in Clone : \A t, u \in graph[c] : t[1] = u[1] => t = u

\* No value is lost for nothing: one that an application wrote, and none deleted, is
\* shown by every clone that has it, unless a greater one was written (resolve).
LostToGreater ==
  \A c \in Clone : \A o \in Applied(c) \cap written : \A t \in o.inserts :
    \/ t \in graph[c]
    \/ \E p \in Applied(c) \cap written : <<t, TidOf(o)>> \in p.deletes
    \/ \E p \in Applied(c) : \E u \in p.inserts : u[1] = t[1] /\ u[2] > t[2]

\* Under the constraint, values that were written concurrently are resolved by the step
\* that brings them together, and the one that is left is the right one.
Resolved == constrained => AtMostOneValue /\ LostToGreater

=============================================================================
