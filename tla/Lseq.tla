-------------------------------- MODULE Lseq --------------------------------
(***************************************************************************)
(* Positions of list items (lseq.ts).  A position is a sequence of places, *)
(* one per level, each with the site that made it.  Written as a string,   *)
(* every place has the width of its level, so strings compare as the       *)
(* sequences do.                                                           *)
(***************************************************************************)
EXTENDS Integers, Sequences, FiniteSets
LOCAL INSTANCE SequencesExt
LOCAL INSTANCE FiniteSetsExt

CONSTANTS Radix,  \* LseqDef.radix: places of level 1, those of level n being Radix^n
          Skew    \* LseqDef.skew

ASSUME LseqAssumption == Radix \in Nat /\ Radix > 1 /\ Skew \in Nat \ {0}

\* Sites are numbers, in the order of their names; 0 is the null site
NoSite == 0

Place(n, site) == [pos |-> n, site |-> site]

\* LseqDef.min and LseqDef.max
MinPos == <<Place(0, NoSite)>>
MaxPos == <<Place(Radix, NoSite)>>

PlaceLess(x, y) == x.pos < y.pos \/ (x.pos = y.pos /\ x.site < y.site)

\* p sorts before q: "posId < upper.toString()"
Before(p, q) ==
  \/ IsStrictPrefix(p, q)
  \/ \E l \in DOMAIN p \cap DOMAIN q :
       /\ PlaceLess(p[l], q[l])
       /\ \A k \in 1 .. l - 1 : p[k] = q[k]

\* A set in a total order, as a sequence.  (SetToSortSeq goes through all functions.)
Sorted(S, Less(_, _)) ==
  [i \in 1 .. Cardinality(S) |-> CHOOSE x \in S : Cardinality({y \in S : Less(y, x)}) = i - 1]

At(p, l) == IF l <= Len(p) THEN p[l].pos ELSE 0

SiteAt(p, l) == IF l <= Len(p) THEN p[l].site ELSE NoSite

Base(l) == Radix ^ l

\* Mutant: the last of the integers may be the upper bound.
IntegersUpTo(lower, upper, count) ==
  LET room == upper - lower - 1
      first == lower + (room \div 2 ^ (Skew + 1)) + 1
      gap == IF count > 1 THEN room \div (2 ^ Skew * (count - 1)) ELSE 0
      all == [i \in 1 .. count |-> first + (i - 1) * (IF gap = 0 THEN 1 ELSE gap)]
  IN  SelectSeq(all, LAMBDA n : n <= upper)

\* allocIntegers: as many of the integers between the bounds as there is room for
AllocIntegers(lower, upper, count) ==
  LET room == upper - lower - 1
      first == lower + (room \div 2 ^ (Skew + 1)) + 1
      gap == IF count > 1 THEN room \div (2 ^ Skew * (count - 1)) ELSE 0
      all == [i \in 1 .. count |-> first + (i - 1) * (IF gap = 0 THEN 1 ELSE gap)]
  IN  SelectSeq(all, LAMBDA n : n < upper)

\* cloneWith: p up to the level, with a new place there.  A null site becomes ours.
CloneWith(p, level, n, site) ==
  [l \in 1 .. level |->
     IF l = level THEN Place(n, site)
     ELSE Place(At(p, l), IF SiteAt(p, l) = NoSite THEN site ELSE p[l].site)]

\* The first level at which the two positions are found to differ: places differ,
\* or the sites of one place do.  A level where one of them has no site does not.
Differ(p, q, l) ==
  \/ At(p, l) # At(q, l)
  \/ NoSite \notin {SiteAt(p, l), SiteAt(q, l)} /\ SiteAt(p, l) # SiteAt(q, l)

\* The first level above l at which one of them can be extended: p up to the base,
\* or else, if downwards, q down to zero
Extension(p, q, l, downwards) ==
  Min({k \in l + 1 .. l + Len(p) + Len(q) + 1 :
         At(p, k) < Base(k) - 1 \/ (downwards /\ At(q, k) > 1)})

RECURSIVE Between(_, _, _, _)

\* alloc's loop: div more positions after each of those there are, up to count
RECURSIVE Fill(_, _, _, _, _, _)
Fill(posIds, i, div, next, site, count) ==
  IF i > Len(posIds) \/ Len(posIds) >= count THEN posIds
  ELSE LET upper == IF i < Len(posIds) THEN posIds[i + 1] ELSE next
       IN  Fill(SubSeq(posIds, 1, i) \o Between(posIds[i], upper, site, div)
                  \o SubSeq(posIds, i + 1, Len(posIds)),
                i + div + 1, div, next, site, count)

FirstOf(seq, count) == SubSeq(seq, 1, Min({Len(seq), count}))

\* If the level has too little room then the rest goes between those it has
Filled(posIds, next, site, count) ==
  IF Len(posIds) = count THEN posIds
  ELSE FirstOf(Fill(posIds, 1, (count - 1) \div Len(posIds), next, site, count), count)

\* alloc: p up to the level, with places there
Placed(p, level, places, site) ==
  [i \in DOMAIN places |-> CloneWith(p, level, places[i], site)]

Alloc(p, level, lower, upper, next, site, count) ==
  Filled(Placed(p, level, AllocIntegers(lower, upper, count), site), next, site, count)

\* between, below the first level at which they differ
Extended(p, q, level, site, count) ==
  IF At(p, level) < Base(level) - 1
  THEN Alloc(p, level, At(p, level), Base(level), q, site, count)
  ELSE Alloc(q, level, 0, At(q, level), q, site, count)

BetweenAt(p, q, level, site, count) ==
  IF \/ At(p, level) > At(q, level)
     \/ At(p, level) = At(q, level) /\ SiteAt(p, level) > SiteAt(q, level)
  THEN Between(q, p, site, 1)
  ELSE IF At(p, level) < At(q, level) - 1
  THEN Alloc(p, level, At(p, level), At(q, level), q, site, count)
  ELSE Extended(p, q, Extension(p, q, level, At(p, level) # At(q, level)), site, count)

Differing(p, q) == {l \in 1 .. Max({Len(p), Len(q)}) : Differ(p, q, l)}

\* LseqPosId.between: positions made by site, from p up to q.  <<>> when it throws.
Between(p, q, site, count) ==
  IF Differing(p, q) = {} THEN <<>>
  ELSE BetweenAt(p, q, Min(Differing(p, q)), site, count)

=============================================================================
