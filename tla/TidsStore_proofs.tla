-------------------------- MODULE TidsStore_proofs --------------------------
(***************************************************************************)
(* TidsStore implements TidTable, and its transactions' reads are of what  *)
(* is stored, but for the triples that a snapshot is reading, and provided *)
(* that no transaction inserts two TIDs for one triple.  The violation     *)
(* runs show that both reservations are needed.                            *)
(***************************************************************************)
EXTENDS TidsStore, TLAPS

OneTidEach == \A ins \in InsertSets : \A i, j \in ins : i[1] = j[1] => i = j

-----------------------------------------------------------------------------
(* The invariant *)

Fresh(c, s) == \A t \in DOMAIN c \ Streamed : c[t] = TidsOf(s, t)

FoundCached ==
  /\ DOMAIN found \subseteq DOMAIN cache
  /\ \A t \in DOMAIN found \ Streamed : found[t] = cache[t]

\* The sets affected have their final content, and what is not in them is yet
\* to be loaded
PartDone(s, p, m, left) ==
  /\ p.inserts \in InsertSets
  /\ Fresh(m, Table!Patched(s, p))
  /\ left \subseteq p.inserts
  /\ \A i \in p.deletes : i[1] \in DOMAIN m
  /\ \A i \in p.inserts : i \in left <=> i[1] \notin DOMAIN m

IInv ==
  /\ TypeOK
  /\ phase \in {"idle", "preparing"} => Fresh(cache, stored)
  /\ phase = "preparing" => FoundCached
  /\ phase \in {"loading", "writing"} => PartDone(stored, patch, affected, loading)
  /\ phase = "writing" => DOMAIN cache \subseteq Streamed /\ loading = {}

\* An overlay takes its sets from the upper map, or else from the lower.
LEMMA OverlayMap ==
  ASSUME NEW m, NEW n
  PROVE  /\ DOMAIN Overlay(m, n) = DOMAIN m \cup DOMAIN n
         /\ \A t \in DOMAIN n : Overlay(m, n)[t] = n[t]
         /\ \A t \in DOMAIN m \ DOMAIN n : Overlay(m, n)[t] = m[t]
         /\ IsMap(m) /\ IsMap(n) => IsMap(Overlay(m, n))
  BY DEF Overlay, IsMap

\* The empty map is one.
LEMMA Empty == IsMap(EmptyMap) /\ DOMAIN EmptyMap = {}
  BY DEF IsMap, EmptyMap

\* Removing a map's key leaves a map.
LEMMA Remainder ==
  ASSUME NEW m, IsMap(m), NEW t
  PROVE  IsMap([u \in DOMAIN m \ {t} |-> m[u]])
  BY DEF IsMap

\* Every step keeps the types.
LEMMA TypeStep == TypeOK /\ [Next]_vars => TypeOK'
<1> SUFFICES ASSUME TypeOK, [Next]_vars
             PROVE  TypeOK'
  OBVIOUS
<1> USE DEF TypeOK
<1>1. ASSUME NEW T \in SUBSET Triple, Find(T)
      PROVE  TypeOK'
  <2> DEFINE tids == [t \in T |-> IF t \in DOMAIN cache THEN cache[t] ELSE TidsOf(stored, t)]
  <2>1. IsMap(tids)
    BY DEF IsMap, TidsOf
  <2>2. IsMap(Overlay(cache, tids))
    BY <2>1, OverlayMap
  <2> HIDE DEF tids
  <2>3. found' = tids /\ cache' = Overlay(cache, tids)
    BY <1>1 DEF Find, tids
  <2> QED
    BY <1>1, <2>1, <2>2, <2>3 DEF Find
<1>2. CASE Abandon
  BY <1>2, Empty DEF Abandon
<1>3. ASSUME NEW m, IsMap(m), NEW c, IsMap(c), NEW left \in SUBSET (Triple \X Tid),
             Affected(m, c, left)
      PROVE  /\ IsMap(cache') /\ IsMap(affected') /\ loading' \subseteq Triple \X Tid
             /\ phase' \in {"loading", "writing"}
  BY <1>3, Empty DEF Affected, Evicted
<1>4. ASSUME NEW removed \in SUBSET Pairs(found), NEW inserts \in InsertSets,
             Commit(removed, inserts)
      PROVE  TypeOK'
  <2> DEFINE p == [deletes |-> removed \ inserts, inserts |-> inserts]
  <2>1. removed \subseteq Triple \X Tid
    BY DEF Pairs, IsMap
  <2>2. inserts \subseteq Triple \X Tid
    BY TidsStoreAssumption
  <2>3. p \in [deletes : SUBSET (Triple \X Tid), inserts : SUBSET (Triple \X Tid)]
    BY <2>1, <2>2
  <2>4. IsMap(CacheHits(p)) /\ CacheMisses(p) \in SUBSET (Triple \X Tid)
    BY <2>2 DEF CacheHits, CacheMisses, IsMap, TidsOf
  <2> HIDE DEF p
  <2>5. IsMap(Overlay(cache, CacheHits(p)))
    BY <2>4, OverlayMap
  <2>6. /\ patch' = p
        /\ Affected(CacheHits(p), Overlay(cache, CacheHits(p)), CacheMisses(p))
        /\ stored' = stored /\ fetched' = fetched /\ found' = EmptyMap
    BY <1>4 DEF Commit, p
  <2>7. /\ IsMap(cache') /\ IsMap(affected') /\ loading' \subseteq Triple \X Tid
        /\ phase' \in {"loading", "writing"}
    BY <1>3, <2>4, <2>5, <2>6
  <2> QED
    BY <2>3, <2>6, <2>7, Empty
<1>5. ASSUME NEW i \in loading, Load(i)
      PROVE  TypeOK'
  <2>1. i \in Triple \X Tid
    OBVIOUS
  <2>2. IsMap(LoadedWith(i))
    BY <2>1 DEF LoadedWith, IsMap, TidsOf
  <2>3. IsMap(Overlay(affected, LoadedWith(i))) /\ IsMap(Overlay(cache, LoadedWith(i)))
    BY <2>2, OverlayMap
  <2>4. /\ Affected(Overlay(affected, LoadedWith(i)), Overlay(cache, LoadedWith(i)),
                    loading \ {i})
        /\ stored' = stored /\ fetched' = fetched /\ found' = found /\ patch' = patch
    BY <1>5 DEF Load
  <2>5. /\ IsMap(cache') /\ IsMap(affected') /\ loading' \subseteq Triple \X Tid
        /\ phase' \in {"loading", "writing"}
    BY <1>3, <2>3, <2>4
  <2> QED
    BY <2>4, <2>5
<1>6. CASE Write
  <2>1. Written(affected) \subseteq Triple \X Tid
    BY DEF Written, Pairs, IsMap
  <2> QED
    BY <1>6, <2>1, Empty DEF Write, NoPatch
<1>7. ASSUME NEW t \in Streamed, StreamRead(t)
      PROVE  TypeOK'
  <2> DEFINE n == [u \in {t} |-> TidsOf(stored, u)]
  <2>1. IsMap(n)
    BY TidsStoreAssumption DEF IsMap, TidsOf
  <2> HIDE DEF n
  <2>2. IsMap(Overlay(fetched, n))
    BY <2>1, OverlayMap
  <2> QED
    BY <1>7, <2>2 DEF StreamRead, n
<1>8. ASSUME NEW t \in Streamed, StreamLoad(t)
      PROVE  TypeOK'
  <2> DEFINE n == [u \in {t} |-> fetched[u]]
  <2>1. IsMap(n)
    BY <1>8 DEF IsMap, StreamLoad
  <2> HIDE DEF n
  <2>2. IsMap(Overlay(cache, n))
    BY <2>1, OverlayMap
  <2>3. IsMap([u \in DOMAIN fetched \ {t} |-> fetched[u]])
    BY Remainder
  <2> QED
    BY <1>8, <2>2, <2>3 DEF StreamLoad, n
<1>9. CASE UNCHANGED vars
  BY <1>9 DEF vars
<1> QED
  BY <1>1, <1>2, <1>4, <1>5, <1>6, <1>7, <1>8, <1>9 DEF Next

\* The types hold, whatever is inserted and whatever snapshots read.
THEOREM TypeCorrect == Spec => []TypeOK
<1>1. Init => TypeOK
  BY Empty DEF Init, TypeOK, NoPatch
<1> QED
  BY <1>1, TypeStep, PTL DEF Spec

-----------------------------------------------------------------------------
(* Committing *)

\* What is known when an affect step has made the sets m, with left to load.
LEMMA AffectedInvariant ==
  ASSUME NEW s, NEW p, NEW m, NEW c, NEW left, PartDone(s, p, m, left),
         Affected(m, c, left), stored' = s, patch' = p
  PROVE  /\ phase' \in {"loading", "writing"}
         /\ PartDone(stored', patch', affected', loading')
         /\ phase' = "writing" => DOMAIN cache' \subseteq Streamed /\ loading' = {}
  BY Empty DEF Affected, Evicted

\* The sets affected at once are final, given that their TIDs were those stored
\* and that every deletion is of a triple in the cache.
LEMMA HitsDone ==
  ASSUME TypeOK, Fresh(cache, stored), NEW p, p.inserts \in InsertSets,
         p.deletes \cap p.inserts = {}, p.deletes \subseteq Triple \X Tid,
         \A i \in p.deletes : i[1] \in DOMAIN cache
  PROVE  PartDone(stored, p, CacheHits(p), CacheMisses(p))
<1>1. /\ p.inserts \subseteq Triple \X Tid
      /\ \A i \in p.inserts \cup p.deletes : i = <<i[1], i[2]>> /\ i[2] \in Tid
  BY TidsStoreAssumption
<1>2. DOMAIN CacheHits(p) = {u \in DOMAIN cache : TidsOf(p.deletes \cup p.inserts, u) # {}}
  BY DEF CacheHits
<1>3. \A i \in p.inserts \cup p.deletes : i[1] \in DOMAIN cache <=> i[1] \in DOMAIN CacheHits(p)
  <2> SUFFICES ASSUME NEW i \in p.inserts \cup p.deletes
               PROVE  i[1] \in DOMAIN cache <=> i[1] \in DOMAIN CacheHits(p)
    OBVIOUS
  <2>1. i[2] \in TidsOf(p.deletes \cup p.inserts, i[1])
    BY <1>1 DEF TidsOf
  <2> QED
    BY <1>2, <2>1
<1>4. Fresh(CacheHits(p), Table!Patched(stored, p))
  <2> SUFFICES ASSUME NEW t \in DOMAIN CacheHits(p) \ Streamed
               PROVE  CacheHits(p)[t] = TidsOf(Table!Patched(stored, p), t)
    BY DEF Fresh
  <2>1. CacheHits(p)[t] = (cache[t] \ TidsOf(p.deletes, t)) \cup TidsOf(p.inserts, t)
    BY DEF CacheHits
  <2>2. cache[t] = TidsOf(stored, t)
    BY <1>2 DEF Fresh
  <2> QED
    BY <2>1, <2>2 DEF TidsOf, Table!Patched
<1> QED
  BY <1>3, <1>4 DEF PartDone, CacheMisses

\* One more set loaded, with its insertion, is final too.
LEMMA LoadDone ==
  ASSUME TypeOK, OneTidEach, NEW i \in loading,
         PartDone(stored, patch, affected, loading)
  PROVE  PartDone(stored, patch, Overlay(affected, LoadedWith(i)), loading \ {i})
<1> DEFINE n == LoadedWith(i)
           m == Overlay(affected, n)
<1>1. /\ DOMAIN n = {i[1]}
      /\ n[i[1]] = TidsOf(stored, i[1]) \cup {i[2]}
  BY DEF LoadedWith
<1>2. /\ i \in patch.inserts /\ i \in Triple \X Tid /\ i = <<i[1], i[2]>> /\ i[2] \in Tid
      /\ i[1] \notin DOMAIN affected
      /\ \A j \in patch.inserts : j[1] = i[1] => j = i
      /\ \A j \in patch.deletes : j[1] # i[1]
  BY DEF PartDone, OneTidEach, TypeOK
<1> HIDE DEF n
<1>3. /\ DOMAIN m = DOMAIN affected \cup {i[1]}
      /\ m[i[1]] = TidsOf(stored, i[1]) \cup {i[2]}
      /\ \A t \in DOMAIN affected : m[t] = affected[t]
  <2>1. /\ DOMAIN m = DOMAIN affected \cup DOMAIN n
        /\ \A t \in DOMAIN n : m[t] = n[t]
        /\ \A t \in DOMAIN affected \ DOMAIN n : m[t] = affected[t]
    BY OverlayMap
  <2> QED
    BY <1>1, <1>2, <2>1
<1> HIDE DEF m
<1>4. TidsOf(Table!Patched(stored, patch), i[1]) = TidsOf(stored, i[1]) \cup {i[2]}
  BY <1>2 DEF TidsOf, Table!Patched
<1>5. Fresh(m, Table!Patched(stored, patch))
  BY <1>3, <1>4 DEF Fresh, PartDone
<1>6. \A j \in patch.inserts : j \in loading \ {i} <=> j[1] \notin DOMAIN m
  BY <1>2, <1>3 DEF PartDone
<1> QED
  BY <1>3, <1>5, <1>6 DEF PartDone, m, n

\* A patch to what is stored elsewhere is the part elsewhere of the patched store.
LEMMA PatchedElsewhere ==
  ASSUME NEW s, NEW p
  PROVE  Table!Patched(Elsewhere(s), PatchElsewhere(p)) = Elsewhere(Table!Patched(s, p))
  BY DEF Table!Patched, Elsewhere, PatchElsewhere

\* When nothing is left to load, the batch makes the store what it should be.
LEMMA WriteDone ==
  ASSUME TypeOK, NEW p, NEW m, p.inserts \subseteq Triple \X Tid,
         p.deletes \subseteq Triple \X Tid, IsMap(m), PartDone(stored, p, m, {})
  PROVE  Elsewhere(Written(m)) = Table!Patched(Elsewhere(stored), PatchElsewhere(p))
<1>1. \A t \in DOMAIN m \ Streamed : m[t] = TidsOf(Table!Patched(stored, p), t)
  BY DEF PartDone, Fresh
<1>2. \A i \in p.deletes \cup p.inserts : i[1] \in DOMAIN m
  BY DEF PartDone
<1>3. /\ stored \subseteq Triple \X Tid
      /\ Table!Patched(stored, p) \subseteq Triple \X Tid
  BY DEF TypeOK, Table!Patched
<1>4. ASSUME NEW t \in Triple \ Streamed, NEW u \in Tid
      PROVE  <<t, u>> \in Written(m) <=> <<t, u>> \in Table!Patched(stored, p)
  <2>1. CASE t \in DOMAIN m
    <3>1. <<t, u>> \in Written(m) <=> u \in m[t]
      BY <2>1 DEF Written, Pairs
    <3> QED
      BY <1>1, <2>1, <3>1 DEF TidsOf
  <2>2. CASE t \notin DOMAIN m
    <3>1. <<t, u>> \in Written(m) <=> <<t, u>> \in stored
      BY <2>2 DEF Written, Pairs
    <3>2. <<t, u>> \notin p.deletes /\ <<t, u>> \notin p.inserts
      BY <1>2, <2>2
    <3> QED
      BY <3>1, <3>2 DEF Table!Patched
  <2> QED
    BY <2>1, <2>2
<1>5. Written(m) \subseteq Triple \X Tid
  BY <1>3 DEF Written, Pairs, IsMap
<1>6. Elsewhere(Written(m)) = Elsewhere(Table!Patched(stored, p))
  BY <1>3, <1>4, <1>5 DEF Elsewhere
<1> QED
  BY <1>6, PatchedElsewhere

-----------------------------------------------------------------------------
(* The theorems *)

\* Every step keeps the invariant, and is a step of the table or a stutter.
LEMMA Step ==
  ASSUME OneTidEach, IInv, [Next]_vars
  PROVE  IInv' /\ [Table!Next]_(Table!vars)
<1> USE DEF IInv
<1>1. TypeOK'
  BY TypeStep
<1>2. ASSUME NEW T \in SUBSET Triple, Find(T)
      PROVE  IInv' /\ [Table!Next]_(Table!vars)
  <2> DEFINE tids == [t \in T |-> IF t \in DOMAIN cache THEN cache[t] ELSE TidsOf(stored, t)]
  <2>1. /\ phase = "idle" /\ phase' = "preparing" /\ found' = tids
        /\ cache' = Overlay(cache, tids) /\ fetched' = fetched /\ stored' = stored
    BY <1>2 DEF Find
  <2>2. DOMAIN tids = T /\ Fresh(tids, stored)
    BY <2>1 DEF Fresh
  <2> HIDE DEF tids
  <2>3. /\ DOMAIN cache' = DOMAIN cache \cup DOMAIN tids
        /\ \A t \in DOMAIN tids : cache'[t] = tids[t]
        /\ \A t \in DOMAIN cache \ DOMAIN tids : cache'[t] = cache[t]
    <3> DEFINE m == Overlay(cache, tids)
    <3>1. /\ DOMAIN m = DOMAIN cache \cup DOMAIN tids
          /\ \A t \in DOMAIN tids : m[t] = tids[t]
          /\ \A t \in DOMAIN cache \ DOMAIN tids : m[t] = cache[t]
      BY ONLY OverlayMap
    <3> HIDE DEF m
    <3>2. cache' = m
      BY <2>1 DEF m
    <3> QED
      BY <3>1, <3>2
  <2>4. Fresh(cache', stored')
    BY <2>1, <2>2, <2>3 DEF Fresh
  <2>5. FoundCached'
    BY <2>1, <2>3 DEF FoundCached
  <2> QED
    BY <1>1, <2>1, <2>4, <2>5 DEF Table!vars
<1>3. CASE Abandon
  BY <1>1, <1>3 DEF Abandon, Table!vars
<1>4. ASSUME NEW removed \in SUBSET Pairs(found), NEW inserts \in InsertSets,
             Commit(removed, inserts)
      PROVE  IInv' /\ [Table!Next]_(Table!vars)
  <2> DEFINE p == [deletes |-> removed \ inserts, inserts |-> inserts]
  <2>1. /\ phase = "preparing" /\ patch' = p /\ stored' = stored /\ fetched' = fetched
        /\ Affected(CacheHits(p), Overlay(cache, CacheHits(p)), CacheMisses(p))
    BY <1>4 DEF Commit
  <2>2. /\ p.inserts \in InsertSets /\ p.inserts \subseteq Triple \X Tid
        /\ p.deletes \subseteq Triple \X Tid /\ p.deletes \cap p.inserts = {}
        /\ \A i \in p.deletes : i[1] \in DOMAIN cache
    BY <2>1, TidsStoreAssumption DEF TypeOK, Pairs, IsMap, FoundCached
  <2>3. PatchElsewhere(p) \in Table!Patch
    BY <2>2 DEF Table!Patch, PatchElsewhere, Elsewhere
  <2> HIDE DEF p
  <2>4. PartDone(stored, p, CacheHits(p), CacheMisses(p))
    BY <2>1, <2>2, HitsDone
  <2>5. /\ phase' \in {"loading", "writing"}
        /\ PartDone(stored', patch', affected', loading')
        /\ phase' = "writing" => DOMAIN cache' \subseteq Streamed /\ loading' = {}
    BY <2>1, <2>4, AffectedInvariant
  <2>6. Table!Request(PatchElsewhere(p))
    BY <2>1, <2>5 DEF Table!Request
  <2> QED
    BY <1>1, <2>1, <2>3, <2>5, <2>6 DEF Table!Next
<1>5. ASSUME NEW i \in loading, Load(i)
      PROVE  IInv' /\ [Table!Next]_(Table!vars)
  <2> DEFINE m == Overlay(affected, LoadedWith(i))
  <2>1. /\ phase = "loading" /\ patch' = patch /\ stored' = stored /\ fetched' = fetched
        /\ Affected(m, Overlay(cache, LoadedWith(i)), loading \ {i})
    BY <1>5 DEF Load
  <2>2. PartDone(stored, patch, m, loading \ {i})
    BY <2>1, LoadDone
  <2> HIDE DEF m
  <2>3. /\ phase' \in {"loading", "writing"}
        /\ PartDone(stored', patch', affected', loading')
        /\ phase' = "writing" => DOMAIN cache' \subseteq Streamed /\ loading' = {}
    BY <2>1, <2>2, AffectedInvariant
  <2> QED
    BY <1>1, <2>1, <2>3 DEF Table!vars
<1>6. CASE Write
  <2>1. /\ phase = "writing" /\ phase' = "idle" /\ cache' = cache /\ fetched' = fetched
        /\ DOMAIN cache \subseteq Streamed /\ PartDone(stored, patch, affected, {})
        /\ stored' = Written(affected) \/ stored' = stored
    BY <1>6 DEF Write
  <2>2. Elsewhere(Written(affected))
          = Table!Patched(Elsewhere(stored), PatchElsewhere(patch))
    BY <2>1, WriteDone DEF TypeOK
  <2>3. Table!Commit \/ Table!Fail
    BY <2>1, <2>2 DEF Table!Commit, Table!Fail
  <2> QED
    BY <1>1, <2>1, <2>3 DEF Fresh, Table!Next
<1>7. ASSUME NEW t \in Streamed, StreamRead(t)
      PROVE  IInv' /\ [Table!Next]_(Table!vars)
  BY <1>1, <1>7 DEF StreamRead, FoundCached, PartDone, Table!vars
<1>8. ASSUME NEW t \in Streamed, StreamLoad(t)
      PROVE  IInv' /\ [Table!Next]_(Table!vars)
  <2> DEFINE n == [u \in {t} |-> fetched[u]]
  <2>1. /\ DOMAIN Overlay(cache, n) = DOMAIN cache \cup {t}
        /\ \A u \in DOMAIN cache \ {t} : Overlay(cache, n)[u] = cache[u]
    BY DEF Overlay
  <2>2. /\ cache' = Overlay(cache, n) /\ stored' = stored /\ phase' = phase
        /\ found' = found /\ patch' = patch /\ affected' = affected
        /\ loading' = loading
    BY <1>8 DEF StreamLoad
  <2> HIDE DEF n
  <2>3. /\ Fresh(cache, stored) => Fresh(cache', stored')
        /\ FoundCached => FoundCached'
    BY <2>1, <2>2 DEF Fresh, FoundCached
  <2> QED
    BY <1>1, <2>1, <2>2, <2>3 DEF PartDone, Table!vars
<1>9. CASE UNCHANGED vars
  BY <1>1, <1>9 DEF vars, FoundCached, PartDone, Table!vars
<1> QED
  BY <1>2, <1>3, <1>4, <1>5, <1>6, <1>7, <1>8, <1>9 DEF Next

\* With one TID inserted for a triple, the invariant holds.
THEOREM Invariance ==
  ASSUME OneTidEach
  PROVE  Spec => []IInv
<1>1. Init => IInv
  BY Empty DEF Init, IInv, TypeOK, IsMap, EmptyMap, NoPatch, Fresh
<1>2. IInv /\ [Next]_vars => IInv'
  BY Step
<1> QED
  BY <1>1, <1>2, PTL DEF Spec

\* Under the same condition, what a transaction finds is what is stored, but for
\* the triples that a snapshot is reading.
THEOREM ReadsCorrect ==
  ASSUME OneTidEach
  PROVE  Spec => []FindsStoredElsewhere
<1>1. IInv => FindsStoredElsewhere
  BY DEF IInv, FoundCached, Fresh, FindsStoredElsewhere
<1> QED
  BY <1>1, Invariance, PTL

\* Under the same condition, the store implements the table but for those triples:
\* no transaction is applied in part.
THEOREM Refinement ==
  ASSUME OneTidEach
  PROVE  Spec => ImplementsTable
<1>1. Init => Table!Init
  BY DEF Init, Table!Init, Elsewhere
<1>2. IInv /\ [Next]_vars => [Table!Next]_(Table!vars)
  BY Step
<1>3. Spec => []IInv
  BY Invariance
<1> QED
  BY <1>1, <1>2, <1>3, PTL DEF Spec, ImplementsTable, Table!Spec

=============================================================================
