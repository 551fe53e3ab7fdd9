------------------------------ MODULE TidsStore ------------------------------
(***************************************************************************)
(* The TIDs store (TidsStore.ts), in its asynchronous steps: the key-value *)
(* store holds one value for each triple, its set of TIDs; a cache holds   *)
(* sets which commit mutates in place.  Transactions come one at a time,   *)
(* under the 'txn' lock; a snapshot being streamed to a new clone          *)
(* (SuSetDataset.takeSnapshot) reads through the same cache without it.    *)
(*                                                                         *)
(* A read that hits the cache completes in the same turn of the event      *)
(* loop; a read that misses waits for the store.  The reads of one affect  *)
(* are all issued in the same turn, so they all miss if one does.          *)
(***************************************************************************)
EXTENDS Naturals

CONSTANTS Triple,
          Tid,
          InsertSets,  \* the insertions a transaction may make, as sets of pairs
          Streamed     \* the triples that a snapshot may be reading

ASSUME TidsStoreAssumption ==
  /\ InsertSets \subseteq SUBSET (Triple \X Tid)
  /\ Streamed \subseteq Triple

VARIABLES stored,    \* the key-value store, as pairs of a triple and a TID
          cache,     \* the cache: a map from triples to sets of TIDs
          fetched,   \* the snapshot's reads in flight: what the store gave them
          phase,     \* of the transaction: "idle", "preparing", "loading", "writing"
          found,     \* the TIDs the transaction has found, a map
          patch,     \* the patch the transaction commits
          affected,  \* the sets that commit has affected, a map
          loading    \* the insertions whose read missed the cache

vars == <<stored, cache, fetched, phase, found, patch, affected, loading>>

-----------------------------------------------------------------------------
(* Maps from triples to sets of TIDs *)

IsMap(m) == DOMAIN m \subseteq Triple /\ \A t \in DOMAIN m : m[t] \subseteq Tid

EmptyMap == [t \in {} |-> {}]

Overlay(m, n) ==
  [t \in DOMAIN m \cup DOMAIN n |-> IF t \in DOMAIN n THEN n[t] ELSE m[t]]

TidsOf(s, t) == {tid \in Tid : <<t, tid>> \in s}

Pairs(m) == UNION {{t} \X m[t] : t \in DOMAIN m}

NoPatch == [deletes |-> {}, inserts |-> {}]

-----------------------------------------------------------------------------
(* Committing a patch *)

\* Delete from, and then add to, the sets of the triples the cache has
CacheHits(p) ==
  [t \in {u \in DOMAIN cache : TidsOf(p.deletes \cup p.inserts, u) # {}} |->
     (cache[t] \ TidsOf(p.deletes, t)) \cup TidsOf(p.inserts, t)]

CacheMisses(p) == {i \in p.inserts : i[1] \notin DOMAIN cache}

\* A set that has just been read from the store, with the insertion i
LoadedWith(i) == [t \in {i[1]} |-> TidsOf(stored, i[1]) \cup {i[2]}]

\* Mutant: a triple that is left without TIDs keeps those it had
WrittenNotDeleted(m) ==
  {i \in stored : i[1] \notin DOMAIN m \/ m[i[1]] = {}} \cup Pairs(m)

\* The batch: put the sets that have TIDs, and delete the keys of the others
Written(m) == {i \in stored : i[1] \notin DOMAIN m} \cup Pairs(m)

\* Mutant: the mutated sets stay in the cache
LeaveCached(c) == c

\* The cache when commit has done
Evicted(c) == EmptyMap

-----------------------------------------------------------------------------
Init ==
  /\ stored = {}
  /\ cache = EmptyMap
  /\ fetched = EmptyMap
  /\ phase = "idle"
  /\ found = EmptyMap
  /\ patch = NoPatch
  /\ affected = EmptyMap
  /\ loading = {}

\* A transaction finds the TIDs of the triples it may delete
Find(T) ==
  LET tids == [t \in T |-> IF t \in DOMAIN cache THEN cache[t] ELSE TidsOf(stored, t)]
  IN  /\ phase = "idle"
      /\ phase' = "preparing"
      /\ found' = tids
      /\ cache' = Overlay(cache, tids)
      /\ UNCHANGED <<stored, fetched, patch, affected, loading>>

\* It fails in preparation, for example because it violates a constraint
Abandon ==
  /\ phase = "preparing"
  /\ phase' = "idle"
  /\ found' = EmptyMap
  /\ UNCHANGED <<stored, cache, fetched, patch, affected, loading>>

\* The end of commit, when every set affected is at hand
Affected(m, c, left) ==
  /\ affected' = m
  /\ loading' = left
  /\ phase' = IF left = {} THEN "writing" ELSE "loading"
  /\ cache' = IF left = {} THEN Evicted(c) ELSE c

\* It commits: it removes some of what it found (a remote operation claims
\* certain TIDs only) and inserts.  What it found is still in the cache.
Commit(removed, inserts) ==
  LET p == [deletes |-> removed \ inserts, inserts |-> inserts]
  IN  /\ phase = "preparing"
      /\ removed \subseteq Pairs(found)
      /\ patch' = p
      /\ found' = EmptyMap
      /\ Affected(CacheHits(p), Overlay(cache, CacheHits(p)), CacheMisses(p))
      /\ UNCHANGED <<stored, fetched>>

\* The store answers the read for one of the insertions
Load(i) ==
  /\ phase = "loading"
  /\ i \in loading
  /\ Affected(Overlay(affected, LoadedWith(i)), Overlay(cache, LoadedWith(i)),
              loading \ {i})
  /\ UNCHANGED <<stored, fetched, found, patch>>

\* The batch is written, or fails
Write ==
  /\ phase = "writing"
  /\ phase' = "idle"
  /\ stored' \in {Written(affected), stored}
  /\ patch' = NoPatch
  /\ affected' = EmptyMap
  /\ UNCHANGED <<cache, fetched, found, loading>>

\* A snapshot reads a triple's TIDs; those the cache has cost no read
StreamRead(t) ==
  /\ t \notin DOMAIN cache \cup DOMAIN fetched
  /\ fetched' = Overlay(fetched, [u \in {t} |-> TidsOf(stored, u)])
  /\ UNCHANGED <<stored, cache, phase, found, patch, affected, loading>>

\* The store answers: the set goes in the cache
StreamLoad(t) ==
  /\ t \in DOMAIN fetched
  /\ cache' = Overlay(cache, [u \in {t} |-> fetched[u]])
  /\ fetched' = [u \in DOMAIN fetched \ {t} |-> fetched[u]]
  /\ UNCHANGED <<stored, phase, found, patch, affected, loading>>

Next ==
  \/ \E T \in SUBSET Triple : Find(T)
  \/ Abandon
  \/ \E removed \in SUBSET Pairs(found), inserts \in InsertSets : Commit(removed, inserts)
  \/ \E i \in loading : Load(i)
  \/ Write
  \/ \E t \in Streamed : StreamRead(t) \/ StreamLoad(t)

Spec == Init /\ [][Next]_vars

-----------------------------------------------------------------------------
(* Properties *)

\* Every variable has its type.
TypeOK ==
  /\ stored \subseteq Triple \X Tid
  /\ IsMap(cache) /\ IsMap(fetched) /\ IsMap(found) /\ IsMap(affected)
  /\ phase \in {"idle", "preparing", "loading", "writing"}
  /\ patch \in [deletes : SUBSET (Triple \X Tid), inserts : SUBSET (Triple \X Tid)]
  /\ loading \subseteq Triple \X Tid

\* The TIDs a transaction finds are those in the store: its reads are "not
\* affected by concurrent transactions" (dataset/index.ts), nor by the cache, nor by
\* an earlier transaction that failed at any stage.  A snapshot in progress can
\* mislead it about the triples that the snapshot is reading, and no others.
FindsStoredElsewhere ==
  phase = "preparing" =>
    \A t \in DOMAIN found \ Streamed : found[t] = TidsOf(stored, t)

Elsewhere(s) == {i \in s : i[1] \notin Streamed}

PatchElsewhere(p) ==
  [deletes |-> Elsewhere(p.deletes), inserts |-> Elsewhere(p.inserts)]

\* The store implements the table, but for the triples that a snapshot is reading:
\* in however many steps the sets are read, mutated, cached and written, a
\* transaction applies its whole patch or nothing.
Table == INSTANCE TidTable WITH
           table <- Elsewhere(stored),
           request <- IF phase \in {"loading", "writing"}
                      THEN {PatchElsewhere(patch)} ELSE {}

ImplementsTable == Table!Spec

=============================================================================
