--------------------------- MODULE Presence_proofs ---------------------------
(***************************************************************************)
(* What a clone believes of the presence of others, for any set of clones, *)
(* either transport and any number of lost connections.                    *)
(***************************************************************************)
EXTENDS Presence, FiniteSetTheorems, SequenceTheorems, TLAPS

Word == {"here", "left", "ghost"}

Notice == {[type |-> "granted"], [type |-> "look"]} \cup [type : Word, of : Clone]
            \cup [type : {"present"}, is : SUBSET Clone]

Saying(word, d) == [type |-> word, of |-> d]

-----------------------------------------------------------------------------
(***************************************************************************)
(* What a clone will see.  It knows of those in s, and is to be told q: d  *)
(* shows after k messages if the last of them about it, or s if there is   *)
(* none, says that it is here.                                             *)
(***************************************************************************)
Shows(s, q, k, d) ==
  \/ d \in s /\ \A i \in 1 .. k : q[i] # Saying("left", d)
  \/ \E i \in 1 .. k : /\ q[i] = Saying("here", d)
                       /\ \A j \in i + 1 .. k : q[j] # Saying("left", d)

\* In the end c sees the others that are in L
Follows(c, s, q, L) == \A d \in Clone \ {c} : Shows(s, q, Len(q), d) <=> d \in L

\* c has had its ghost after k messages
Settled(c, g, q, k) == g \/ \E i \in 1 .. k : q[i] = Saying("ghost", c)

\* Once it has had its ghost, c sees no others only if there were none
Truthful(c, s, q, g, w) ==
  \A k \in 0 .. Len(q) :
    Settled(c, g, q, k) /\ (\A d \in Clone \ {c} : ~ Shows(s, q, k, d)) => w

\* What c knows once it has heard a message
Known(s, m) ==
  CASE m.type = "here" -> s \cup {m.of}
    [] m.type = "left" -> s \ {m.of}
    [] OTHER -> s

\* Those who are listed once the server has a word of d
Change(L, word, d) ==
  IF word = "here" THEN L \cup {d} ELSE IF word = "left" THEN L \ {d} ELSE L

\* Others are not what c says of itself.
LEMMA SelfShows ==
  ASSUME NEW c, NEW s, NEW u, NEW q, NEW L, NEW g, NEW w, u \ {c} = s \ {c}
  PROVE  /\ Follows(c, s, q, L) => Follows(c, u, q, L)
         /\ Truthful(c, s, q, g, w) => Truthful(c, u, q, g, w)
<1>1. \A d \in Clone \ {c} : d \in s <=> d \in u
  OBVIOUS
<1>2. \A d \in Clone \ {c} : \A k : Shows(s, q, k, d) <=> Shows(u, q, k, d)
  BY <1>1 DEF Shows
<1> HIDE DEF Shows
<1> QED
  BY <1>2 DEF Follows, Truthful

\* A message more is seen in its turn.
LEMMA ShowsAppended ==
  ASSUME NEW s, NEW q \in Seq(Notice), NEW m \in Notice, NEW d \in Clone
  PROVE  /\ Len(Append(q, m)) = Len(q) + 1
         /\ \A i \in 1 .. Len(q) : Append(q, m)[i] = q[i]
         /\ Append(q, m)[Len(q) + 1] = m
         /\ \A k \in 0 .. Len(q) : Shows(s, Append(q, m), k, d) <=> Shows(s, q, k, d)
         /\ Shows(s, Append(q, m), Len(q) + 1, d) <=>
              m = Saying("here", d) \/ (m # Saying("left", d) /\ Shows(s, q, Len(q), d))
<1> DEFINE r == Append(q, m)
           n == Len(q)
<1>1. /\ Len(r) = n + 1 /\ n \in Nat
      /\ \A i \in 1 .. n : r[i] = q[i]
      /\ r[n + 1] = m
  BY AppendProperties, LenProperties
<1>2. Saying("here", d) # Saying("left", d)
  BY DEF Saying
<1> HIDE DEF r, n
<1>3. ASSUME NEW k \in 0 .. n
      PROVE  Shows(s, r, k, d) <=> Shows(s, q, k, d)
  BY <1>1 DEF Shows
<1>4. Shows(s, r, n + 1, d) <=>
        m = Saying("here", d) \/ (m # Saying("left", d) /\ Shows(s, q, n, d))
  <2>1. CASE m = Saying("here", d)
    BY <1>1, <2>1 DEF Shows
  <2>2. CASE m = Saying("left", d)
    <3>1. ~ (\A i \in 1 .. n + 1 : r[i] # Saying("left", d))
      BY <1>1, <2>2
    <3>2. ASSUME NEW i \in 1 .. n + 1, r[i] = Saying("here", d),
                 \A j \in i + 1 .. n + 1 : r[j] # Saying("left", d)
          PROVE  FALSE
      BY <1>1, <1>2, <2>2, <3>2
    <3> QED
      BY <1>2, <2>2, <3>1, <3>2 DEF Shows
  <2>3. CASE m # Saying("here", d) /\ m # Saying("left", d)
    <3>1. (\A i \in 1 .. n + 1 : r[i] # Saying("left", d))
            <=> (\A i \in 1 .. n : q[i] # Saying("left", d))
      BY <1>1, <2>3
    <3>2. ASSUME NEW i \in 1 .. n
          PROVE  (\A j \in i + 1 .. n + 1 : r[j] # Saying("left", d))
                   <=> (\A j \in i + 1 .. n : q[j] # Saying("left", d))
      BY <1>1, <2>3
    <3>3. (\E i \in 1 .. n + 1 : /\ r[i] = Saying("here", d)
                                 /\ \A j \in i + 1 .. n + 1 : r[j] # Saying("left", d))
            <=> (\E i \in 1 .. n : /\ q[i] = Saying("here", d)
                                   /\ \A j \in i + 1 .. n : q[j] # Saying("left", d))
      BY <1>1, <2>3, <3>2
    <3> QED
      BY <2>3, <3>1, <3>3 DEF Shows
  <2> QED
    BY <2>1, <2>2, <2>3
<1> QED
  BY <1>1, <1>3, <1>4 DEF r, n

\* Messages are seen in order: after the first is heard, so is the rest.
LEMMA ShowsTaken ==
  ASSUME NEW s, NEW q \in Seq(Notice), q # <<>>, NEW d \in Clone
  PROVE  /\ Len(Tail(q)) = Len(q) - 1
         /\ \A i \in 1 .. Len(q) - 1 : Tail(q)[i] = q[i + 1]
         /\ \A k \in 0 .. Len(q) - 1 :
              Shows(Known(s, Head(q)), Tail(q), k, d) <=> Shows(s, q, k + 1, d)
<1> DEFINE r == Tail(q)
           n == Len(q)
           u == Known(s, Head(q))
<1>1. /\ Len(r) = n - 1 /\ n \in Nat \ {0}
      /\ \A i \in 1 .. n - 1 : r[i] = q[i + 1]
      /\ Head(q) = q[1] /\ q[1] \in Notice
  BY HeadTailProperties, LenProperties, ElementOfSeq, EmptySeq
<1>2. d \in u <=> q[1] = Saying("here", d) \/ (q[1] # Saying("left", d) /\ d \in s)
  BY <1>1 DEF Known, Notice, Word, Saying
<1>3. Saying("here", d) # Saying("left", d)
  BY DEF Saying
<1> HIDE DEF r, n, u
<1>4. ASSUME NEW k \in 0 .. n - 1
      PROVE  Shows(u, r, k, d) <=> Shows(s, q, k + 1, d)
  <2> DEFINE Left(x) == x = Saying("left", d)
             Here(x) == x = Saying("here", d)
  <2>1. \A i \in 1 .. k : r[i] = q[i + 1]
    BY <1>1
  <2>2. (\A i \in 1 .. k : ~ Left(r[i])) <=> (\A i \in 2 .. k + 1 : ~ Left(q[i]))
    <3>1. \A i \in 2 .. k + 1 : i - 1 \in 1 .. k /\ (i - 1) + 1 = i
      OBVIOUS
    <3>2. \A i \in 1 .. k : i + 1 \in 2 .. k + 1
      OBVIOUS
    <3> HIDE DEF Left
    <3> QED
      BY <2>1, <3>1, <3>2
  <2>3. ASSUME NEW i \in 1 .. k
        PROVE  (\A j \in i + 1 .. k : ~ Left(r[j])) <=> (\A j \in i + 2 .. k + 1 : ~ Left(q[j]))
    <3>1. \A j \in i + 2 .. k + 1 : j - 1 \in i + 1 .. k /\ j - 1 \in 1 .. k /\ (j - 1) + 1 = j
      OBVIOUS
    <3>2. \A j \in i + 1 .. k : j \in 1 .. k /\ j + 1 \in i + 2 .. k + 1
      OBVIOUS
    <3> HIDE DEF Left
    <3> QED
      BY <2>1, <3>1, <3>2
  <2>4. (\E i \in 1 .. k : Here(r[i]) /\ \A j \in i + 1 .. k : ~ Left(r[j]))
          <=> (\E i \in 2 .. k + 1 : Here(q[i]) /\ \A j \in i + 1 .. k + 1 : ~ Left(q[j]))
    <3>1. \A i \in 2 .. k + 1 : i - 1 \in 1 .. k /\ (i - 1) + 1 = i /\ (i - 1) + 2 = i + 1
      OBVIOUS
    <3>2. \A i \in 1 .. k : i + 1 \in 2 .. k + 1 /\ (i + 1) + 1 = i + 2
      OBVIOUS
    <3> HIDE DEF Left, Here
    <3>3. ASSUME NEW i \in 1 .. k, Here(r[i]), \A j \in i + 1 .. k : ~ Left(r[j])
          PROVE  Here(q[i + 1]) /\ \A j \in (i + 1) + 1 .. k + 1 : ~ Left(q[j])
      <4>1. \A j \in i + 2 .. k + 1 : ~ Left(q[j])
        BY <2>3, <3>3
      <4> QED
        BY <2>1, <3>2, <3>3, <4>1
    <3>4. ASSUME NEW i \in 2 .. k + 1, Here(q[i]), \A j \in i + 1 .. k + 1 : ~ Left(q[j])
          PROVE  Here(r[i - 1]) /\ \A j \in (i - 1) + 1 .. k : ~ Left(r[j])
      <4>1. i - 1 \in 1 .. k /\ (i - 1) + 1 = i /\ (i - 1) + 2 = i + 1
        BY <3>1
      <4>2. \A j \in (i - 1) + 2 .. k + 1 : ~ Left(q[j])
        BY <3>4, <4>1
      <4>3. \A j \in (i - 1) + 1 .. k : ~ Left(r[j])
        BY <2>3, <4>1, <4>2
      <4> QED
        BY <2>1, <3>4, <4>1, <4>3
    <3> QED
      BY <3>1, <3>2, <3>3, <3>4
  <2>5. (\A i \in 1 .. k + 1 : ~ Left(q[i])) <=> ~ Left(q[1]) /\ (\A i \in 2 .. k + 1 : ~ Left(q[i]))
    OBVIOUS
  <2>6. (\E i \in 1 .. k + 1 : Here(q[i]) /\ \A j \in i + 1 .. k + 1 : ~ Left(q[j]))
          <=> \/ Here(q[1]) /\ \A j \in 2 .. k + 1 : ~ Left(q[j])
              \/ (\E i \in 2 .. k + 1 : Here(q[i]) /\ \A j \in i + 1 .. k + 1 : ~ Left(q[j]))
    <3>1. 1 \in 1 .. k + 1 /\ 1 + 1 = 2
      OBVIOUS
    <3>2. \A i \in 1 .. k + 1 : i = 1 \/ i \in 2 .. k + 1
      OBVIOUS
    <3>3. \A i \in 2 .. k + 1 : i \in 1 .. k + 1
      OBVIOUS
    <3> HIDE DEF Left, Here
    <3> QED
      BY <3>1, <3>2, <3>3
  <2>7. Shows(u, r, k, d) <=>
          \/ d \in u /\ \A i \in 1 .. k : ~ Left(r[i])
          \/ \E i \in 1 .. k : Here(r[i]) /\ \A j \in i + 1 .. k : ~ Left(r[j])
    BY DEF Shows
  <2>8. Shows(s, q, k + 1, d) <=>
          \/ d \in s /\ \A i \in 1 .. k + 1 : ~ Left(q[i])
          \/ \E i \in 1 .. k + 1 : Here(q[i]) /\ \A j \in i + 1 .. k + 1 : ~ Left(q[j])
    BY DEF Shows
  <2>9. d \in u <=> Here(q[1]) \/ (~ Left(q[1]) /\ d \in s)
    BY <1>2
  <2> HIDE DEF Left, Here
  <2> QED
    BY <2>2, <2>4, <2>5, <2>6, <2>7, <2>8, <2>9
<1> QED
  BY <1>1, <1>4 DEF r, n, u

\* A word about a clone is passed on to those who heed, as it changes what is listed.
LEMMA AppendedView ==
  ASSUME NEW c \in Clone, NEW s, NEW q \in Seq(Notice), NEW L, NEW g \in BOOLEAN,
         NEW w \in BOOLEAN, NEW v \in BOOLEAN, NEW word \in Word, NEW e \in Clone,
         Follows(c, s, q, L), Truthful(c, s, q, g, w), w => v,
         Change(L, word, e) \subseteq Clone, Change(L, word, e) \subseteq {c} => v
  PROVE  /\ Follows(c, s, Append(q, Saying(word, e)), Change(L, word, e))
         /\ Truthful(c, s, Append(q, Saying(word, e)), g, v)
<1> DEFINE M == Change(L, word, e)
           m == Saying(word, e)
           r == Append(q, m)
           n == Len(q)
<1>1. m \in Notice
  BY DEF Notice, Saying
<1>2. ASSUME NEW d \in Clone
      PROVE  /\ n \in Nat /\ Len(r) = n + 1
             /\ \A i \in 1 .. n : r[i] = q[i]
             /\ \A k \in 0 .. n : Shows(s, r, k, d) <=> Shows(s, q, k, d)
             /\ Shows(s, r, n + 1, d) <=>
                  m = Saying("here", d) \/ (m # Saying("left", d) /\ Shows(s, q, n, d))
  <2> HIDE DEF m
  <2> QED
    BY <1>1, ShowsAppended, LenProperties DEF r, n
<1>3. \A d \in Clone : /\ m = Saying("here", d) <=> word = "here" /\ e = d
                       /\ m = Saying("left", d) <=> word = "left" /\ e = d
  BY DEF Saying
<1>4. n \in Nat /\ Len(r) = n + 1 /\ \A i \in 1 .. n : r[i] = q[i]
  BY <1>2
<1> HIDE DEF m, r, n
<1>5. ASSUME NEW d \in Clone \ {c}
      PROVE  Shows(s, r, n + 1, d) <=> d \in M
  <2>1. Shows(s, q, n, d) <=> d \in L
    BY DEF Follows, n
  <2> QED
    BY <1>2, <1>3, <2>1 DEF Word, Change
<1> HIDE DEF M
<1>6. Follows(c, s, r, M)
  BY <1>4, <1>5 DEF Follows
<1>7. M \subseteq Clone /\ (M \subseteq {c} => v)
  BY DEF M
<1>8. ASSUME NEW k \in 0 .. n + 1, Settled(c, g, r, k), \A d \in Clone \ {c} : ~ Shows(s, r, k, d)
      PROVE  v
  <2>1. CASE k \in 0 .. n
    <3>1. Settled(c, g, q, k)
      BY <1>4, <1>8, <2>1 DEF Settled
    <3>2. \A d \in Clone \ {c} : ~ Shows(s, q, k, d)
      BY <1>2, <1>8, <2>1
    <3> QED
      BY <2>1, <3>1, <3>2 DEF Truthful, n
  <2>2. CASE k = n + 1
    BY <1>5, <1>7, <1>8, <2>2
  <2> QED
    BY <1>4, <2>1, <2>2
<1>9. Truthful(c, s, r, g, v)
  BY <1>4, <1>8 DEF Truthful
<1> QED
  BY <1>6, <1>9 DEF r, m, M

\* A message is heard, which was to be heard anyway.
LEMMA TakenView ==
  ASSUME NEW c \in Clone, NEW s, NEW q \in Seq(Notice), q # <<>>, NEW L, NEW g \in BOOLEAN,
         NEW w \in BOOLEAN, Follows(c, s, q, L), Truthful(c, s, q, g, w)
  PROVE  LET u == Known(s, Head(q))
             h == g \/ Head(q) = Saying("ghost", c)
         IN  /\ Follows(c, u, Tail(q), L)
             /\ Truthful(c, u, Tail(q), h, w)
             /\ h /\ u \subseteq {c} => w
<1> DEFINE u == Known(s, Head(q))
           h == g \/ Head(q) = Saying("ghost", c)
           r == Tail(q)
           n == Len(q)
<1>1. /\ Len(r) = n - 1 /\ n \in Nat \ {0}
      /\ \A i \in 1 .. n - 1 : r[i] = q[i + 1]
      /\ Head(q) = q[1]
  BY HeadTailProperties, LenProperties, EmptySeq
<1>2. ASSUME NEW d \in Clone, NEW k \in 0 .. n - 1
      PROVE  Shows(u, r, k, d) <=> Shows(s, q, k + 1, d)
  BY ShowsTaken
<1> HIDE DEF u, r, n
<1>3. Follows(c, u, r, L)
  <2>1. n - 1 \in 0 .. n - 1 /\ (n - 1) + 1 = n
    BY <1>1
  <2>2. \A d \in Clone \ {c} : Shows(u, r, n - 1, d) <=> Shows(s, q, n, d)
    <3> TAKE d \in Clone \ {c}
    <3>1. Shows(u, r, n - 1, d) <=> Shows(s, q, (n - 1) + 1, d)
      BY <1>2, <2>1
    <3> QED
      BY <2>1, <3>1
  <2> QED
    BY <1>1, <2>2 DEF Follows, n
<1>4. ASSUME NEW k \in 0 .. n - 1
      PROVE  Settled(c, h, r, k) => Settled(c, g, q, k + 1)
  <2>1. CASE g
    BY <2>1 DEF Settled
  <2>2. CASE Head(q) = Saying("ghost", c)
    <3>1. 1 \in 1 .. k + 1
      OBVIOUS
    <3> QED
      BY <1>1, <2>2, <3>1 DEF Settled
  <2>3. ASSUME NEW i \in 1 .. k, r[i] = Saying("ghost", c)
        PROVE  Settled(c, g, q, k + 1)
    <3>1. i + 1 \in 1 .. k + 1 /\ i \in 1 .. n - 1
      BY <1>1
    <3>2. q[i + 1] = Saying("ghost", c)
      BY <1>1, <2>3, <3>1
    <3> QED
      BY <3>1, <3>2 DEF Settled
  <2> QED
    BY <2>1, <2>2, <2>3 DEF Settled
<1>5. Truthful(c, u, r, h, w)
  <2> SUFFICES ASSUME NEW k \in 0 .. n - 1, Settled(c, h, r, k),
                      \A d \in Clone \ {c} : ~ Shows(u, r, k, d)
               PROVE  w
    BY <1>1 DEF Truthful
  <2>1. k + 1 \in 0 .. n
    BY <1>1
  <2>2. Settled(c, g, q, k + 1)
    BY <1>4
  <2>3. \A d \in Clone \ {c} : ~ Shows(s, q, k + 1, d)
    BY <1>2
  <2> QED
    BY <2>1, <2>2, <2>3 DEF Truthful, n
<1>6. h /\ u \subseteq {c} => w
  <2> SUFFICES ASSUME h, u \subseteq {c}
               PROVE  w
    OBVIOUS
  <2>1. 0 \in 0 .. Len(r) /\ Len(r) \in Nat
    BY <1>1
  <2>2. Settled(c, h, r, 0)
    BY DEF Settled
  <2>3. \A d \in Clone \ {c} : ~ Shows(u, r, 0, d)
    BY DEF Shows
  <2> HIDE DEF h
  <2> QED
    BY <1>5, <2>1, <2>2, <2>3 DEF Truthful
<1> QED
  BY <1>3, <1>5, <1>6 DEF u, h, r

\* What is retained is made a sequence: each of those listed is named.
LEMMA Retained ==
  ASSUME NEW L \in SUBSET Clone
  PROVE  LET S == {Saying("here", d) : d \in L}
         IN  /\ SetToSeq(S) \in Seq(S)
             /\ \A m \in S : \E i \in 1 .. Len(SetToSeq(S)) : SetToSeq(S)[i] = m
<1> DEFINE S == {Saying("here", d) : d \in L}
           q == SetToSeq(S)
<1>1. IsFiniteSet(L)
  BY PresenceAssumption, FS_Subset
<1>2. IsFiniteSet(S)
  <2> DEFINE F == [d \in L |-> Saying("here", d)]
  <2>1. S = Range(F) /\ F \in Surjection(L, S)
    BY DEF Range, Surjection
  <2> QED
    BY <1>1, <2>1, FS_Surjection
<1> HIDE DEF S
<1>3. Cardinality(S) \in Nat
  BY <1>2, FS_CardinalityType
<1>4. PICK f \in Bijection(1 .. Cardinality(S), S) : TRUE
  BY <1>2, FS_CardinalityType DEF ExistsBijection
<1>5. f \in [1 .. Cardinality(S) -> S] /\ IsInjective(f)
  BY DEF Bijection, Injection, IsInjective
<1>6. q \in [1 .. Cardinality(S) -> S] /\ IsInjective(q)
  BY <1>5 DEF SetToSeq
<1>7. q \in Seq(S) /\ Len(q) = Cardinality(S)
  BY <1>3, <1>6
<1>8. q \in Injection(1 .. Cardinality(S), S)
  BY <1>6 DEF Injection, IsInjective
<1>9. q \in Surjection(1 .. Cardinality(S), S)
  <2>1. Cardinality(1 .. Cardinality(S)) = Cardinality(S)
    BY <1>3, FS_Interval
  <2> QED
    BY <1>2, <1>8, <2>1, FS_Injection
<1> QED
  BY <1>7, <1>9 DEF S, Surjection

\* What is sent for a subscription, when those in L are listed
Sent(L) ==
  LET here == SetToSeq({Saying("here", d) : d \in L})
      granted == <<[type |-> "granted"]>>
  IN  {granted \o here, here \o granted}

\* A new subscription shows all that are listed, and what is sent for it is no ghost.
LEMMA SubscribedView ==
  ASSUME NEW c \in Clone, NEW s, s \subseteq {c}, NEW L \in SUBSET Clone, NEW w, NEW q \in Sent(L)
  PROVE  /\ q \in Seq(Notice)
         /\ Follows(c, s, q, L)
         /\ Truthful(c, s, q, FALSE, w)
<1> DEFINE S == {Saying("here", d) : d \in L}
           here == SetToSeq(S)
           n == Len(here)
           G == [type |-> "granted"]
<1>1. /\ here \in Seq(S)
      /\ \A m \in S : \E i \in 1 .. n : here[i] = m
  BY Retained
<1>2. S \subseteq Notice /\ G \in Notice
  BY DEF Saying, Notice, Word
<1>3. here \in Seq(Notice) /\ <<G>> \in Seq(Notice) /\ Len(<<G>>) = 1 /\ <<G>>[1] = G /\ n \in Nat
  BY <1>1, <1>2
<1>0. \A word, d : Saying(word, d).type = word /\ Saying(word, d).of = d
  BY DEF Saying
<1>4. \A d : G # Saying("here", d) /\ G # Saying("left", d) /\ G # Saying("ghost", d)
  <2>1. G.type = "granted"
    OBVIOUS
  <2> HIDE DEF G
  <2> QED
    BY <1>0, <2>1
<1> HIDE DEF here, G
<1>5. \A i \in 1 .. n : here[i] \in S
  <2> HIDE DEF S
  <2> QED
    BY <1>1, ElementOfSeq
<1>6. \A i \in 1 .. n : \A d : here[i] # Saying("left", d) /\ here[i] # Saying("ghost", d)
  BY <1>0, <1>5
<1>7. \A d : (\E i \in 1 .. n : here[i] = Saying("here", d)) <=> d \in L
  <2> TAKE d
  <2>1. d \in L => Saying("here", d) \in S
    OBVIOUS
  <2>2. Saying("here", d) \in S => d \in L
    BY <1>0
  <2> HIDE DEF S
  <2> QED
    BY <1>1, <1>5, <2>1, <2>2
<1> HIDE DEF n, S
<1>8. q \in {<<G>> \o here, here \o <<G>>}
  BY DEF here, S, G, Sent
<1>9. /\ q \in Seq(Notice)
      /\ \A i \in 1 .. Len(q) : q[i] = G \/ \E j \in 1 .. n : q[i] = here[j]
      /\ \A j \in 1 .. n : \E i \in 1 .. Len(q) : q[i] = here[j]
  <2>1. CASE q = <<G>> \o here
    <3>1. q \in Seq(Notice) /\ Len(q) = 1 + n
      BY <1>3, <2>1, ConcatProperties DEF n
    <3>2. \A i \in 1 .. 1 + n : q[i] = IF i <= 1 THEN <<G>>[i] ELSE here[i - 1]
      BY <1>3, <2>1, ConcatProperties DEF n
    <3>3. q[1] = G /\ \A i \in 2 .. 1 + n : i - 1 \in 1 .. n /\ q[i] = here[i - 1]
      BY <1>3, <3>2
    <3>4. \A j \in 1 .. n : j + 1 \in 2 .. 1 + n /\ (j + 1) - 1 = j
      BY <1>3
    <3>5. \A j \in 1 .. n : q[j + 1] = here[j]
      BY <3>3, <3>4
    <3>6. \A i \in 1 .. 1 + n : i = 1 \/ i \in 2 .. 1 + n
      BY <1>3
    <3>7. \A i \in 2 .. 1 + n : i \in 1 .. 1 + n
      BY <1>3
    <3> QED
      BY <3>1, <3>3, <3>4, <3>5, <3>6, <3>7
  <2>2. CASE q = here \o <<G>>
    <3>1. q \in Seq(Notice) /\ Len(q) = n + 1
      BY <1>3, <2>2, ConcatProperties DEF n
    <3>2. \A i \in 1 .. n + 1 : q[i] = IF i <= n THEN here[i] ELSE <<G>>[i - n]
      BY <1>3, <2>2, ConcatProperties DEF n
    <3>3. q[n + 1] = G /\ \A i \in 1 .. n : i \in 1 .. n + 1 /\ q[i] = here[i]
      BY <1>3, <3>2
    <3>4. \A i \in 1 .. n + 1 : i = n + 1 \/ i \in 1 .. n
      BY <1>3
    <3> QED
      BY <3>1, <3>3, <3>4
  <2> QED
    BY <1>8, <2>1, <2>2
<1>10. \A i \in 1 .. Len(q) : \A d : q[i] # Saying("left", d) /\ q[i] # Saying("ghost", d)
  BY <1>4, <1>6, <1>9
<1>11. \A d : (\E i \in 1 .. Len(q) : q[i] = Saying("here", d)) <=> d \in L
  BY <1>4, <1>7, <1>9
<1>12. Len(q) \in Nat
  BY <1>9
<1>13. \A d \in Clone \ {c} : Shows(s, q, Len(q), d) <=> \E i \in 1 .. Len(q) : q[i] = Saying("here", d)
  <2>1. \A i \in 1 .. Len(q) : \A j \in i + 1 .. Len(q) : j \in 1 .. Len(q)
    BY <1>12
  <2> QED
    BY <1>10, <2>1 DEF Shows
<1>14. Follows(c, s, q, L)
  BY <1>11, <1>13 DEF Follows
<1>15. \A k \in 0 .. Len(q) : ~ Settled(c, FALSE, q, k)
  <2>1. \A k \in 0 .. Len(q) : \A i \in 1 .. k : i \in 1 .. Len(q)
    BY <1>12
  <2> QED
    BY <1>10, <2>1 DEF Settled
<1> QED
  BY <1>9, <1>14, <1>15 DEF Truthful

-----------------------------------------------------------------------------
(***************************************************************************)
(* The inductive invariant.                                                *)
(***************************************************************************)
Typed ==
  /\ transport \in {"mqtt", "io"}
  /\ drops \in 0 .. MaxDrops
  /\ conn \in [Clone -> Nat]
  /\ link \in [Clone -> BOOLEAN]
  /\ attached \subseteq Clone \X (0 .. MaxDrops + 1)
  /\ listed \subseteq Clone \X (0 .. MaxDrops + 1)
  /\ inbox \in [Clone -> Seq(Notice)]
  /\ outbox \in [Clone -> Seq(Word \cup {"subscribe"})]
  /\ connected \in [Clone -> BOOLEAN] /\ changed \in [Clone -> BOOLEAN]
  /\ seen \in [Clone -> SUBSET Clone]
  /\ ready \in [Clone -> BOOLEAN] /\ joining \in [Clone -> BOOLEAN]
  /\ remotes \in [Clone -> {"unknown", "alone", "peers"}]
  /\ live \in [Clone -> BOOLEAN] /\ newClone \in [Clone -> BOOLEAN]
  /\ todo \in [Clone -> BOOLEAN] /\ connecting \in [Clone -> BOOLEAN]
  /\ closed \subseteq Clone
  /\ wasAlone \in [Clone -> BOOLEAN] /\ ghosted \in [Clone -> BOOLEAN]

\* What each transport may say: socket.io has a clone look, and MQTT tells it.
Sayable(c) ==
  /\ Mqtt => \A i \in 1 .. Len(inbox[c]) : inbox[c][i].type \in Word \cup {"granted"}
  /\ ~Mqtt => \A i \in 1 .. Len(inbox[c]) : inbox[c][i].type \in {"granted", "look", "present"}

\* With MQTT, presence is of a client and not of a connection.
Keyed == Mqtt => \A x \in attached \cup listed : x[2] = 0

\* A clone is connected when it has a link that the server knows, and says so then only.
Linked(c) ==
  /\ connected[c] => link[c] /\ (Mqtt => Key(c) \in attached)
  /\ ~connected[c] => remotes[c] = "unknown"
  /\ link[c] => conn[c] >= 1 /\ c \notin closed
  /\ ~link[c] => inbox[c] = <<>>
  /\ conn[c] <= drops + (IF link[c] \/ c \in closed THEN 1 ELSE 0)

\* A subscription is asked for once in a connection, after what it has not sent before.
Subscribing(c) ==
  \A i \in 1 .. Len(outbox[c]) : outbox[c][i] = "subscribe" =>
    Mqtt /\ link[c] /\ Key(c) \notin attached /\ i = Len(outbox[c])

\* Presence is ready once there was a ghost, in this connection or an earlier one.
Readiness(c) ==
  /\ ready[c] => Mqtt /\ conn[c] >= 1 /\ (ghosted[c] \/ conn[c] > 1) /\ ~joining[c]
  /\ changed[c] => ready[c]

\* A socket.io server's first word is that there is a connection.
Ordered(c) ==
  ~Mqtt /\ link[c] /\ ~connected[c] => inbox[c] # <<>> /\ Head(inbox[c]) = [type |-> "granted"]

\* That there is no other is noted, and any answer that says so is right.
Noticed(c) ==
  /\ link[c] /\ Listed \subseteq {c} => wasAlone[c]
  /\ \A i \in 1 .. Len(inbox[c]) :
       inbox[c][i].type = "present" /\ inbox[c][i].is \subseteq {c} => wasAlone[c]

\* A clone that has subscribed will see who is listed, and another sees nothing.
Viewing(c) ==
  Mqtt => IF c \in Heeding
          THEN /\ Follows(c, seen[c], inbox[c], Listed)
               /\ Truthful(c, seen[c], inbox[c], ghosted[c], wasAlone[c])
          ELSE c \notin closed =>
                 seen[c] \subseteq {c} /\ inbox[c] = <<>> /\ (link[c] => ~ghosted[c])

\* AloneOnceReady, of one clone
Justified(c) ==
  remotes[c] = "alone" => wasAlone[c] \/ (Mqtt /\ conn[c] > 1 /\ ~ghosted[c])

Sound(c) ==
  /\ Sayable(c) /\ Linked(c) /\ Subscribing(c) /\ Readiness(c) /\ Ordered(c)
  /\ Noticed(c) /\ Viewing(c) /\ Justified(c)

IInv == Typed /\ Keyed /\ \A c \in Clone : Sound(c)

-----------------------------------------------------------------------------
(***************************************************************************)
(* What an action leaves alone                                             *)
(***************************************************************************)

\* Nothing of a clone changes by what another does, unless the server tells it.
LEMMA Untouched ==
  ASSUME Typed, NEW c \in Clone, Sound(c), transport' = transport,
         drops <= drops', drops' \in Nat,
         link'[c] = link[c], conn'[c] = conn[c], inbox'[c] = inbox[c], outbox'[c] = outbox[c],
         connected'[c] = connected[c], changed'[c] = changed[c], seen'[c] = seen[c],
         ready'[c] = ready[c], joining'[c] = joining[c], remotes'[c] = remotes[c],
         ghosted'[c] = ghosted[c], c \in closed' <=> c \in closed,
         wasAlone[c] => wasAlone'[c], listed' = listed,
         Key(c) \in attached' <=> Key(c) \in attached
  PROVE  Sound(c)'
<1>1. (Mqtt' <=> Mqtt) /\ Key(c)' = Key(c) /\ Listed' = Listed
  BY DEF Mqtt, Key, Listed
<1>2. c \in Heeding' <=> c \in Heeding
  BY <1>1 DEF Heeding
<1>3. Sayable(c)'
  BY <1>1 DEF Sound, Sayable
<1>4. Linked(c)'
  BY <1>1 DEF Sound, Linked, Typed
<1>5. Subscribing(c)'
  BY <1>1 DEF Sound, Subscribing
<1>6. Readiness(c)' /\ Ordered(c)' /\ Justified(c)'
  BY <1>1 DEF Sound, Readiness, Ordered, Justified
<1>7. Noticed(c)'
  BY <1>1 DEF Sound, Noticed
<1>8. Viewing(c)'
  <2>1. \A s, q, g, v, w : Truthful(c, s, q, g, v) /\ (v => w) => Truthful(c, s, q, g, w)
    BY DEF Truthful
  <2> QED
    BY <1>1, <1>2, <2>1 DEF Sound, Viewing
<1> QED
  BY <1>3, <1>4, <1>5, <1>6, <1>7, <1>8 DEF Sound

\* What follows what is listed
LEMMA NotedHere ==
  ASSUME Typed, Noted(listed'), NEW c \in Clone
  PROVE  /\ wasAlone'[c] <=> wasAlone[c] \/ Listed' \subseteq {c}
         /\ Listed' = {x[1] : x \in listed'}
<1>1. wasAlone'[c] = (wasAlone[c] \/ {x \in listed' : x[1] # c} = {})
  BY DEF Noted, Typed
<1>2. {x \in listed' : x[1] # c} = {} <=> Listed' \subseteq {c}
  BY DEF Listed
<1> QED
  BY <1>1, <1>2 DEF Listed

\* The server does something that concerns those who heed.
LEMMA Informed ==
  ASSUME Typed, Typed', NEW c \in Clone, Sound(c), Noted(listed'),
         transport' = transport, drops' = drops, link' = link, conn' = conn,
         UNCHANGED client, remotes' = remotes, ghosted' = ghosted, closed' = closed,
         outbox'[c] = outbox[c] \/ (outbox[c] # <<>> /\ outbox'[c] = Tail(outbox[c])),
         link[c] => (Key(c) \in attached' <=> Key(c) \in attached),
         \/ /\ Mqtt
            /\ \E word \in Word, e \in Clone :
                 /\ inbox' = Told(inbox, Saying(word, e))
                 /\ Listed' = Change(Listed, word, e)
         \/ ~Mqtt /\ inbox' \in {inbox, Told(inbox, [type |-> "look"])}
  PROVE  Sound(c)'
<1>1. (Mqtt' <=> Mqtt) /\ Key(c)' = Key(c)
  BY DEF Mqtt, Key
<1>2. c \in Heeding' <=> c \in Heeding
  BY <1>1 DEF Heeding
<1>3. wasAlone'[c] <=> wasAlone[c] \/ Listed' \subseteq {c}
  BY NotedHere
<1>4. inbox[c] \in Seq(Notice) /\ inbox'[c] \in Seq(Notice)
  BY DEF Typed
<1>5. \/ inbox'[c] = inbox[c] /\ (Mqtt => c \notin Heeding)
      \/ /\ Mqtt /\ c \in Heeding
         /\ \E word \in Word, e \in Clone :
              /\ inbox'[c] = Append(inbox[c], Saying(word, e))
              /\ Listed' = Change(Listed, word, e)
      \/ ~Mqtt /\ link[c] /\ inbox'[c] = Append(inbox[c], [type |-> "look"])
  <2>1. CASE Mqtt
    <3>1. PICK word \in Word, e \in Clone :
               /\ inbox' = Told(inbox, Saying(word, e))
               /\ Listed' = Change(Listed, word, e)
      BY <2>1
    <3>2. Saying(word, e) # [type |-> "look"]
      <4>1. Saying(word, e).type \in Word
        BY DEF Saying
      <4> HIDE DEF Word
      <4>2. [type |-> "look"].type = "look" /\ "look" \notin Word
        BY DEF Word
      <4> QED
        BY <4>1, <4>2
    <3>3. inbox'[c] = IF c \in Heeding THEN Append(inbox[c], Saying(word, e)) ELSE inbox[c]
      BY <3>1, <3>2 DEF Told
    <3> QED
      BY <2>1, <3>1, <3>3
  <2>2. CASE ~Mqtt
    <3>1. inbox'[c] = inbox[c] \/ (c \in Heeding /\ inbox'[c] = Append(inbox[c], [type |-> "look"]))
      BY <2>2 DEF Told
    <3> QED
      BY <2>2, <3>1 DEF Heeding
  <2> QED
    BY <2>1, <2>2
<1>6. ASSUME NEW m \in Notice, inbox'[c] = Append(inbox[c], m)
      PROVE  /\ Len(inbox'[c]) = Len(inbox[c]) + 1
             /\ \A i \in 1 .. Len(inbox[c]) : inbox'[c][i] = inbox[c][i]
             /\ inbox'[c][Len(inbox[c]) + 1] = m
             /\ \A i \in 1 .. Len(inbox[c]) + 1 : i \in 1 .. Len(inbox[c]) \/ i = Len(inbox[c]) + 1
  BY <1>4, <1>6, AppendProperties, LenProperties
<1>7. Len(inbox[c]) \in Nat
  BY <1>4
<1>8. [type |-> "look"] \in Notice /\ \A word \in Word, e \in Clone : Saying(word, e) \in Notice
  BY DEF Notice, Saying
<1>9. [type |-> "look"].type = "look" /\ \A word, e : Saying(word, e).type = word
  BY DEF Saying
<1>10. Sayable(c)'
  <2>1. CASE inbox'[c] = inbox[c]
    BY <1>1, <2>1 DEF Sound, Sayable
  <2>2. ASSUME Mqtt, NEW word \in Word, NEW e \in Clone, inbox'[c] = Append(inbox[c], Saying(word, e))
        PROVE  Sayable(c)'
    <3>1. Saying(word, e) \in Notice /\ Saying(word, e).type \in Word \cup {"granted"}
      BY <1>8, <1>9
    <3> QED
      BY <1>1, <1>6, <2>2, <3>1 DEF Sound, Sayable
  <2>3. CASE ~Mqtt /\ inbox'[c] = Append(inbox[c], [type |-> "look"])
    BY <1>1, <1>6, <1>8, <1>9, <2>3 DEF Sound, Sayable
  <2> QED
    BY <1>5, <2>1, <2>2, <2>3
<1>11. Linked(c)'
  <2>1. ~link[c] => inbox'[c] = inbox[c]
    BY <1>5 DEF Heeding
  <2> QED
    BY <1>1, <2>1 DEF Sound, Linked, client
<1>12. Subscribing(c)'
  <2>1. CASE outbox'[c] = outbox[c]
    BY <1>1, <2>1 DEF Sound, Subscribing
  <2>2. CASE outbox[c] # <<>> /\ outbox'[c] = Tail(outbox[c])
    <3>1. /\ Len(outbox'[c]) = Len(outbox[c]) - 1 /\ Len(outbox[c]) \in Nat \ {0}
          /\ \A i \in 1 .. Len(outbox[c]) - 1 : outbox'[c][i] = outbox[c][i + 1]
      BY <2>2, HeadTailProperties, LenProperties, EmptySeq DEF Typed
    <3>2. \A i \in 1 .. Len(outbox[c]) - 1 : i + 1 \in 1 .. Len(outbox[c])
      BY <3>1
    <3> QED
      BY <1>1, <3>1, <3>2 DEF Sound, Subscribing
  <2> QED
    BY <2>1, <2>2
<1>13. Readiness(c)' /\ Justified(c)'
  BY <1>1, <1>3 DEF Sound, Readiness, Justified, client
<1>14. Ordered(c)'
  <2>1. CASE inbox'[c] = inbox[c]
    BY <1>1, <2>1 DEF Sound, Ordered, client
  <2>2. ASSUME inbox[c] # <<>>, NEW m \in Notice, inbox'[c] = Append(inbox[c], m)
        PROVE  inbox'[c] # <<>> /\ Head(inbox'[c]) = Head(inbox[c])
    <3>1. Head(inbox[c]) = inbox[c][1] /\ 1 \in 1 .. Len(inbox[c])
      BY <1>4, <2>2, HeadTailProperties, EmptySeq, LenProperties
    <3>2. inbox'[c] # <<>>
      BY <1>4, <1>6, <1>7, <2>2, EmptySeq
    <3>3. Head(inbox'[c]) = inbox'[c][1]
      BY <1>4, <3>2, HeadTailProperties
    <3> QED
      BY <1>6, <2>2, <3>1, <3>2, <3>3
  <2>3. CASE ~Mqtt /\ inbox'[c] = Append(inbox[c], [type |-> "look"])
    BY <1>1, <1>8, <2>2, <2>3 DEF Sound, Ordered, client
  <2> QED
    BY <1>1, <1>5, <2>1, <2>3 DEF Ordered
<1>15. Noticed(c)'
  <2>1. CASE inbox'[c] = inbox[c]
    BY <1>3, <2>1 DEF Sound, Noticed
  <2>2. ASSUME NEW m \in Notice, m.type # "present", inbox'[c] = Append(inbox[c], m)
        PROVE  Noticed(c)'
    BY <1>3, <1>6, <2>2 DEF Sound, Noticed
  <2>3. CASE ~Mqtt /\ inbox'[c] = Append(inbox[c], [type |-> "look"])
    BY <1>8, <1>9, <2>2, <2>3
  <2>4. ASSUME NEW word \in Word, NEW e \in Clone, inbox'[c] = Append(inbox[c], Saying(word, e))
        PROVE  Noticed(c)'
    <3>1. Saying(word, e) \in Notice /\ Saying(word, e).type # "present"
      BY <1>8, <1>9 DEF Word
    <3> QED
      BY <2>2, <2>4, <3>1
  <2> QED
    BY <1>5, <2>1, <2>3, <2>4
<1>16. Viewing(c)'
  <2> SUFFICES ASSUME Mqtt
               PROVE  Viewing(c)'
    BY <1>1 DEF Viewing
  <2>1. CASE c \in Heeding
    <3>1. PICK word \in Word, e \in Clone :
            /\ inbox'[c] = Append(inbox[c], Saying(word, e))
            /\ Listed' = Change(Listed, word, e)
      BY <1>5, <2>1
    <3>2. Follows(c, seen[c], inbox[c], Listed) /\ Truthful(c, seen[c], inbox[c], ghosted[c], wasAlone[c])
      BY <2>1 DEF Sound, Viewing
    <3>3. Listed' \subseteq Clone /\ (Listed' \subseteq {c} => wasAlone'[c]) /\ (wasAlone[c] => wasAlone'[c])
      <4>1. \A x \in listed' : x[1] \in Clone
        BY DEF Typed
      <4>2. Listed' = {x[1] : x \in listed'}
        BY NotedHere
      <4> QED
        BY <1>3, <4>1, <4>2
    <3>4. ghosted[c] \in BOOLEAN /\ wasAlone[c] \in BOOLEAN /\ wasAlone'[c] \in BOOLEAN
      BY DEF Typed
    <3>5. /\ Follows(c, seen[c], Append(inbox[c], Saying(word, e)), Listed')
          /\ Truthful(c, seen[c], Append(inbox[c], Saying(word, e)), ghosted[c], wasAlone'[c])
      <4> DEFINE M == Listed'
                 L == Listed
                 v == wasAlone'[c]
                 w == wasAlone[c]
                 g == ghosted[c]
                 s == seen[c]
                 q == inbox[c]
      <4>1. M = Change(L, word, e)
        BY <3>1
      <4>2. /\ M \subseteq Clone /\ (M \subseteq {c} => v) /\ (w => v)
            /\ g \in BOOLEAN /\ w \in BOOLEAN /\ v \in BOOLEAN /\ q \in Seq(Notice)
            /\ Follows(c, s, q, L) /\ Truthful(c, s, q, g, w)
        BY <1>4, <3>2, <3>3, <3>4
      <4> HIDE DEF M, L, v, w, g, s, q
      <4>3. /\ Follows(c, s, Append(q, Saying(word, e)), M)
            /\ Truthful(c, s, Append(q, Saying(word, e)), g, v)
        BY <4>1, <4>2, AppendedView
      <4> QED
        BY <4>3 DEF M, v, g, s, q
    <3> QED
      BY <1>1, <1>2, <2>1, <3>1, <3>5 DEF Viewing, client
  <2>2. CASE c \notin Heeding
    BY <1>1, <1>2, <1>5, <2>2 DEF Sound, Viewing, client
  <2> QED
    BY <2>1, <2>2
<1> QED
  BY <1>10, <1>11, <1>12, <1>13, <1>14, <1>15, <1>16 DEF Sound

-----------------------------------------------------------------------------
(***************************************************************************)
(* The invariant holds to begin with, and every action keeps it.           *)
(***************************************************************************)

\* No clone has a connection, and none is listed.
LEMMA InitSound == Init => IInv
<1> SUFFICES ASSUME Init
             PROVE  IInv
  OBVIOUS
<1>1. <<>> \in Seq(Notice) /\ <<>> \in Seq(Word \cup {"subscribe"}) /\ Len(<<>>) = 0
  OBVIOUS
<1>2. Typed
  <2>1. newClone \in [Clone -> BOOLEAN]
    <3>1. PICK N \in SUBSET NewClones : newClone = [c \in Clone |-> c \in N]
      BY Zenon DEF Init
    <3>2. \A c \in Clone : (c \in N) \in BOOLEAN
      OBVIOUS
    <3> QED
      BY <3>1, <3>2, Zenon
  <2> QED
    BY <1>1, <2>1, PresenceAssumption DEF Init, Typed
<1>3. Keyed
  BY DEF Init, Keyed
<1>4. ASSUME NEW c \in Clone
      PROVE  Sound(c)
  <2>1. c \notin Heeding
    BY DEF Init, Heeding
  <2>2. Sayable(c) /\ Subscribing(c) /\ Readiness(c) /\ Ordered(c) /\ Noticed(c) /\ Justified(c)
    BY <1>1 DEF Init, Sayable, Subscribing, Readiness, Ordered, Noticed, Justified
  <2>3. Linked(c)
    BY PresenceAssumption DEF Init, Linked
  <2>4. Viewing(c)
    BY <2>1 DEF Init, Viewing
  <2> QED
    BY <2>2, <2>3, <2>4 DEF Sound
<1> QED
  BY <1>2, <1>3, <1>4 DEF IInv

\* Whatever the server tells is a notice.
LEMMA ToldTyped ==
  ASSUME Typed, NEW m \in Notice
  PROVE  Told(inbox, m) \in [Clone -> Seq(Notice)]
<1>1. ASSUME NEW c \in Clone
      PROVE  Append(inbox[c], m) \in Seq(Notice) /\ inbox[c] \in Seq(Notice)
  BY AppendProperties DEF Typed
<1> QED
  BY <1>1 DEF Told

\* News of a clone, with either transport
LEMMA NewsOf ==
  ASSUME NEW d \in Clone, NEW word \in Word
  PROVE  /\ News(d, word) \in Notice
         /\ Mqtt => News(d, word) = Saying(word, d)
         /\ ~Mqtt => News(d, word) = [type |-> "look"]
BY DEF News, Saying, Notice

\* A loss is noticed: the clone that it was of has no such connection any more.
LEMMA ExpireSound ==
  ASSUME IInv, NEW x \in attached, Expire(x)
  PROVE  IInv'
<1>1. x[1] \in Clone /\ x = <<x[1], x[2]>>
  BY DEF IInv, Typed
<1>2. "left" \in Word
  BY DEF Word
<1>3. Typed'
  <2>1. inbox' \in [Clone -> Seq(Notice)]
    BY <1>1, <1>2, ToldTyped, NewsOf DEF IInv, Typed, Expire
  <2>2. wasAlone' \in [Clone -> BOOLEAN]
    BY DEF IInv, Typed, Expire, Noted
  <2> QED
    BY <2>1, <2>2 DEF IInv, Typed, Expire, client, engine
<1>4. Keyed'
  BY DEF IInv, Keyed, Expire, Mqtt
<1>5. ASSUME NEW c \in Clone
      PROVE  Sound(c)'
  <2>1. link[c] => (Key(c) \in attached' <=> Key(c) \in attached)
    <3>1. link[c] => x # Key(c)
      BY DEF Expire, Key
    <3> QED
      BY <3>1 DEF Expire
  <2>2. CASE Mqtt
    <3>1. inbox' = Told(inbox, Saying("left", x[1]))
      BY <1>1, <1>2, <2>2, NewsOf DEF Expire
    <3>2. Listed' = Listed \ {x[1]}
      <4>1. \A y \in listed : y = <<y[1], 0>>
        BY <2>2 DEF IInv, Typed, Keyed
      <4>2. x = <<x[1], 0>>
        BY <1>1, <2>2 DEF IInv, Keyed
      <4> QED
        BY <4>1, <4>2 DEF Listed, Expire
    <3>3. Listed' = Change(Listed, "left", x[1])
      BY <3>2 DEF Change
    <3> QED
      BY <1>1, <1>2, <1>3, <2>1, <2>2, <3>1, <3>3, Informed DEF IInv, Expire, engine
  <2>3. CASE ~Mqtt
    <3>1. inbox' \in {inbox, Told(inbox, [type |-> "look"])}
      BY <1>1, <1>2, <2>3, NewsOf DEF Expire
    <3> QED
      BY <1>3, <2>1, <2>3, <3>1, Informed DEF IInv, Expire, engine
  <2> QED
    BY <2>2, <2>3
<1> QED
  BY <1>3, <1>4, <1>5 DEF IInv

\* A clone's word is served: the server lists the clone, or does so no more.
LEMMA ServeWordSound ==
  ASSUME IInv, NEW c \in Clone, Serve(c), Head(outbox[c]) # "subscribe"
  PROVE  IInv'
<1> DEFINE word == Head(outbox[c])
<1>1. /\ outbox[c] # <<>> /\ outbox[c] \in Seq(Word \cup {"subscribe"})
      /\ outbox' = [outbox EXCEPT ![c] = Tail(@)]
      /\ link[c] /\ Presented(c, word) /\ attached' = attached
      /\ Noted(listed')
      /\ UNCHANGED <<transport, drops, conn, link, client, remotes, engine, ghosted>>
  BY DEF Serve, IInv, Typed
<1>2. word \in Word /\ Tail(outbox[c]) \in Seq(Word \cup {"subscribe"})
  BY <1>1, HeadTailProperties
<1>3. Key(c) \in Clone \X (0 .. MaxDrops + 1)
  BY <1>1, PresenceAssumption DEF IInv, Sound, Typed, Linked, Key
<1> HIDE DEF word
<1>4. Typed'
  <2>1. inbox' \in [Clone -> Seq(Notice)]
    BY <1>1, <1>2, ToldTyped, NewsOf DEF IInv, Typed, Presented
  <2>2. wasAlone' \in [Clone -> BOOLEAN]
    BY <1>1 DEF IInv, Typed, Noted
  <2>3. outbox' \in [Clone -> Seq(Word \cup {"subscribe"})]
    BY <1>1, <1>2 DEF IInv, Typed
  <2>4. listed' \subseteq Clone \X (0 .. MaxDrops + 1)
    BY <1>1, <1>3 DEF IInv, Typed, Presented
  <2> QED
    BY <1>1, <2>1, <2>2, <2>3, <2>4 DEF IInv, Typed, client, engine
<1>5. Keyed'
  BY <1>1 DEF IInv, Keyed, Presented, Mqtt, Key
<1>6. ASSUME NEW d \in Clone
      PROVE  Sound(d)'
  <2>1. outbox'[d] = outbox[d] \/ (outbox[d] # <<>> /\ outbox'[d] = Tail(outbox[d]))
    BY <1>1 DEF IInv, Typed
  <2>2. CASE Mqtt
    <3>1. inbox' = Told(inbox, Saying(word, c))
      BY <1>1, <1>2, <2>2, NewsOf DEF Presented
    <3>2. Listed' = Change(Listed, word, c)
      <4>1. \A y \in listed : y = <<y[1], 0>>
        BY <2>2 DEF IInv, Typed, Keyed
      <4>2. Key(c) = <<c, 0>>
        BY <2>2 DEF Key
      <4>3. CASE word = "here"
        BY <1>1, <4>1, <4>2, <4>3 DEF Listed, Presented, Change
      <4>4. CASE word = "left"
        BY <1>1, <4>1, <4>2, <4>4 DEF Listed, Presented, Change
      <4>5. CASE word # "here" /\ word # "left"
        BY <1>1, <4>5 DEF Listed, Presented, Change
      <4> QED
        BY <4>3, <4>4, <4>5
    <3> QED
      BY <1>1, <1>2, <1>4, <2>1, <2>2, <3>1, <3>2, Informed DEF IInv, engine
  <2>3. CASE ~Mqtt
    <3>1. inbox' \in {inbox, Told(inbox, [type |-> "look"])}
      BY <1>1, <1>2, <2>3, NewsOf DEF Presented
    <3> QED
      BY <1>1, <1>4, <2>1, <2>3, <3>1, Informed DEF IInv, engine
  <2> QED
    BY <2>2, <2>3
<1> QED
  BY <1>4, <1>5, <1>6 DEF IInv

\* A subscription is served: the clone is sent what is retained.
LEMMA ServeSubscriptionSound ==
  ASSUME IInv, NEW c \in Clone, Serve(c), Head(outbox[c]) = "subscribe"
  PROVE  IInv'
<1>1. /\ outbox[c] # <<>> /\ outbox[c] \in Seq(Word \cup {"subscribe"})
      /\ outbox' = [outbox EXCEPT ![c] = Tail(@)]
      /\ link[c] /\ Subscribed(c)
      /\ Noted(listed')
      /\ UNCHANGED <<transport, drops, conn, link, client, remotes, engine, ghosted>>
  BY DEF Serve, IInv, Typed
<1>2. /\ 1 \in 1 .. Len(outbox[c]) /\ Head(outbox[c]) = outbox[c][1]
      /\ Tail(outbox[c]) \in Seq(Word \cup {"subscribe"})
  BY <1>1, HeadTailProperties, LenProperties, EmptySeq
<1>3. Mqtt /\ Key(c) \notin attached /\ Len(outbox[c]) = 1
  BY <1>2 DEF IInv, Sound, Subscribing
<1>4. Tail(outbox[c]) = <<>>
  <2>1. Len(Tail(outbox[c])) = 0
    BY <1>1, <1>3, HeadTailProperties
  <2> QED
    BY <1>2, <2>1, EmptySeq
<1>5. /\ c \notin Heeding /\ c \notin closed
      /\ seen[c] \subseteq {c} /\ inbox[c] = <<>> /\ ghosted[c] = FALSE
  <2>1. c \notin Heeding /\ c \notin closed
    BY <1>1, <1>3 DEF Heeding, IInv, Sound, Linked
  <2> QED
    BY <1>1, <1>3, <2>1 DEF IInv, Sound, Viewing, Typed
<1>6. Listed \subseteq Clone /\ listed' = listed /\ Listed' = Listed
  BY <1>1 DEF IInv, Typed, Listed, Subscribed
<1>7. /\ inbox' = [inbox EXCEPT ![c] = inbox'[c]]
      /\ inbox'[c] \in Seq(Notice)
      /\ Follows(c, seen[c], inbox'[c], Listed)
      /\ \A w : Truthful(c, seen[c], inbox'[c], FALSE, w)
      /\ \A i \in 1 .. Len(inbox'[c]) : inbox'[c][i].type \in {"granted", "here"}
  <2> DEFINE here == SetToSeq({Saying("here", d) : d \in Listed})
             granted == <<[type |-> "granted"]>>
             G == {[type |-> "granted"]} \cup {Saying("here", d) : d \in Listed}
             q == inbox'[c]
  <2>1. inbox' \in {[inbox EXCEPT ![c] = @ \o granted \o here], [inbox EXCEPT ![c] = @ \o here \o granted]}
    BY <1>1 DEF Subscribed, Saying
  <2>2. here \in Seq(G) /\ granted \in Seq(G)
    <3>1. here \in Seq({Saying("here", d) : d \in Listed})
      BY <1>6, Retained
    <3> HIDE DEF here
    <3> QED
      BY <3>1
  <2> HIDE DEF here
  <2>3. <<>> \o granted = granted /\ <<>> \o here = here
    BY <2>2, ConcatEmptySeq
  <2> HIDE DEF granted, G
  <2>4. inbox' \in {[inbox EXCEPT ![c] = granted \o here], [inbox EXCEPT ![c] = here \o granted]}
    BY <1>5, <2>1, <2>3
  <2>5. c \in DOMAIN inbox
    BY DEF IInv, Typed
  <2>6. q \in {granted \o here, here \o granted} /\ inbox' = [inbox EXCEPT ![c] = q]
    BY <2>4, <2>5
  <2>7. q \in Seq(G)
    <3>1. granted \o here \in Seq(G) /\ here \o granted \in Seq(G)
      <4> HIDE DEF q
      <4> QED
        BY <2>2, ConcatProperties
    <3> QED
      BY <2>6, <3>1
  <2> HIDE DEF q
  <2>8. q \in Seq(Notice) /\ Follows(c, seen[c], q, Listed) /\ \A w : Truthful(c, seen[c], q, FALSE, w)
    <3>1. q \in Sent(Listed)
      BY <2>6, Zenon DEF here, granted, Sent
    <3> QED
      BY <1>5, <1>6, <3>1, SubscribedView
  <2>9. \A i \in 1 .. Len(q) : q[i] \in G
    BY <2>7, ElementOfSeq
  <2>10. \A m \in G : m.type \in {"granted", "here"}
    BY DEF G, Saying
  <2> QED
    BY <2>6, <2>8, <2>9, <2>10 DEF q
<1>8. (Mqtt' <=> Mqtt) /\ \A d \in Clone : Key(d)' = Key(d)
  BY <1>1 DEF Mqtt, Key
<1>9. attached' = attached \cup {<<c, 0>>} /\ Key(c) = <<c, 0>>
  BY <1>1, <1>3 DEF Subscribed, Key
<1>10. Typed'
  <2>1. wasAlone' \in [Clone -> BOOLEAN]
    BY <1>1 DEF IInv, Typed, Noted
  <2>2. outbox' \in [Clone -> Seq(Word \cup {"subscribe"})]
    BY <1>1, <1>2 DEF IInv, Typed
  <2>3. inbox' \in [Clone -> Seq(Notice)]
    BY <1>7 DEF IInv, Typed
  <2>4. attached' \subseteq Clone \X (0 .. MaxDrops + 1)
    BY <1>9, PresenceAssumption DEF IInv, Typed
  <2> QED
    BY <1>1, <1>6, <2>1, <2>2, <2>3, <2>4 DEF IInv, Typed, client, engine
<1>11. Keyed'
  BY <1>6, <1>8, <1>9 DEF IInv, Keyed
<1>12. ASSUME NEW d \in Clone \ {c}
       PROVE  Sound(d)'
  <2>1. inbox'[d] = inbox[d] /\ outbox'[d] = outbox[d]
    BY <1>1, <1>7 DEF IInv, Typed
  <2>2. Key(d) \in attached' <=> Key(d) \in attached
    BY <1>3, <1>9 DEF Key
  <2>3. wasAlone[d] => wasAlone'[d]
    BY <1>1, NotedHere DEF IInv
  <2>4. drops <= drops' /\ drops' \in Nat
    BY <1>1, PresenceAssumption DEF IInv, Typed
  <2>5. Typed /\ Sound(d)
    BY DEF IInv
  <2> QED
    BY <1>1, <1>6, <2>1, <2>2, <2>3, <2>4, <2>5, Untouched DEF client, engine
<1>13. Sound(c)'
  <2>1. wasAlone'[c] <=> wasAlone[c] \/ Listed' \subseteq {c}
    BY <1>1, NotedHere DEF IInv
  <2>2. Sayable(c)'
    BY <1>3, <1>7, <1>8 DEF Sayable, Word
  <2>3. Linked(c)'
    BY <1>1, <1>8, <1>9 DEF IInv, Sound, Linked, client, engine
  <2>4. Subscribing(c)'
    <3>1. outbox'[c] = <<>>
      BY <1>1, <1>4 DEF IInv, Typed
    <3> QED
      BY <3>1 DEF Subscribing
  <2>5. Readiness(c)' /\ Justified(c)' /\ Ordered(c)'
    BY <1>1, <1>3, <1>8, <2>1 DEF IInv, Sound, Readiness, Justified, Ordered, client
  <2>6. Noticed(c)'
    BY <1>7, <2>1 DEF Noticed
  <2>7. Viewing(c)'
    <3>1. c \in Heeding'
      BY <1>1, <1>8, <1>9 DEF Heeding
    <3>2. seen'[c] = seen[c] /\ ghosted'[c] = FALSE
      BY <1>1, <1>5 DEF client
    <3> QED
      BY <1>6, <1>7, <3>1, <3>2 DEF Viewing
  <2> QED
    BY <2>2, <2>3, <2>4, <2>5, <2>6, <2>7 DEF Sound
<1> QED
  BY <1>10, <1>11, <1>12, <1>13 DEF IInv

\* A clone connects, and knows of no other yet.
LEMMA ConnectSound ==
  ASSUME IInv, NEW c \in Clone, Connect(c)
  PROVE  IInv'
<1>1. /\ link[c] = FALSE /\ c \notin closed /\ (Mqtt => Key(c) \notin attached)
      /\ link' = [link EXCEPT ![c] = TRUE] /\ conn' = [conn EXCEPT ![c] = @ + 1]
      /\ wasAlone' = [wasAlone EXCEPT ![c] = Listed \ {c} = {}]
      /\ ghosted' = [ghosted EXCEPT ![c] = FALSE]
      /\ UNCHANGED <<transport, drops, listed, client, remotes, engine>>
  BY DEF Connect, IInv, Typed
<1>2. /\ Mqtt => /\ outbox' = [outbox EXCEPT ![c] = Append(@, "subscribe")]
                 /\ attached' = attached /\ inbox' = inbox
      /\ ~Mqtt => /\ attached' = attached \cup {<<c, conn[c] + 1>>}
                  /\ inbox' = [inbox EXCEPT ![c] = <<[type |-> "granted"], [type |-> "look"]>>]
                  /\ outbox' = outbox
  BY <1>1 DEF Connect, IInv, Typed
<1>3. /\ (Mqtt' <=> Mqtt) /\ Listed' = Listed
      /\ \A d \in Clone \ {c} : Key(d)' = Key(d)
      /\ Key(c)' = <<c, IF Mqtt THEN 0 ELSE conn[c] + 1>>
  BY <1>1 DEF Mqtt, Key, Listed, IInv, Typed
<1>4. /\ conn[c] \in Nat /\ conn[c] <= drops /\ conn[c] + 1 <= MaxDrops + 1
      /\ connected[c] = FALSE /\ inbox[c] = <<>> /\ remotes[c] = "unknown"
      /\ drops \in Nat /\ MaxDrops \in Nat
  BY <1>1, PresenceAssumption DEF IInv, Sound, Linked, Typed
<1>5. \A i \in 1 .. Len(outbox[c]) : outbox[c][i] # "subscribe"
  BY <1>1 DEF IInv, Sound, Subscribing
<1>6. outbox[c] \in Seq(Word \cup {"subscribe"}) /\ Append(outbox[c], "subscribe") \in Seq(Word \cup {"subscribe"})
  BY AppendProperties DEF IInv, Typed
<1>7. <<[type |-> "granted"], [type |-> "look"]>> \in Seq(Notice)
  BY DEF Notice
<1>8. Typed'
  <2>1. attached' \subseteq Clone \X (0 .. MaxDrops + 1)
    <3>1. attached' = attached \/ attached' = attached \cup {<<c, conn[c] + 1>>}
      BY <1>2
    <3>2. conn[c] + 1 \in 0 .. MaxDrops + 1
      BY <1>4
    <3> QED
      BY <3>1, <3>2 DEF IInv, Typed
  <2>2. inbox' \in [Clone -> Seq(Notice)] /\ outbox' \in [Clone -> Seq(Word \cup {"subscribe"})]
    <3>1. inbox \in [Clone -> Seq(Notice)] /\ outbox \in [Clone -> Seq(Word \cup {"subscribe"})]
      BY DEF IInv, Typed
    <3>2. CASE Mqtt
      BY <1>2, <1>6, <3>1, <3>2
    <3>3. CASE ~Mqtt
      <4> DEFINE q == <<[type |-> "granted"], [type |-> "look"]>>
      <4>1. q \in Seq(Notice) /\ inbox' = [inbox EXCEPT ![c] = q] /\ outbox' = outbox
        BY <1>2, <1>7, <3>3
      <4> HIDE DEF q
      <4> QED
        BY <3>1, <4>1
    <3> QED
      BY <3>2, <3>3
  <2>3. (Listed \ {c} = {}) \in BOOLEAN
    OBVIOUS
  <2>4. wasAlone' \in [Clone -> BOOLEAN] /\ ghosted' \in [Clone -> BOOLEAN] /\ link' \in [Clone -> BOOLEAN]
    BY <1>1, <2>3 DEF IInv, Typed
  <2>5. conn' \in [Clone -> Nat]
    BY <1>1, <1>4 DEF IInv, Typed
  <2> QED
    BY <1>1, <2>1, <2>2, <2>4, <2>5 DEF IInv, Typed, client, engine
<1>9. Keyed'
  BY <1>1, <1>2, <1>3 DEF IInv, Keyed
<1>10. ASSUME NEW d \in Clone \ {c}
       PROVE  Sound(d)'
  <2>1. Key(d) \in attached' <=> Key(d) \in attached
    BY <1>2 DEF Key
  <2>2. /\ inbox'[d] = inbox[d] /\ outbox'[d] = outbox[d] /\ link'[d] = link[d] /\ conn'[d] = conn[d]
        /\ wasAlone'[d] = wasAlone[d] /\ ghosted'[d] = ghosted[d]
    BY <1>1, <1>2 DEF IInv, Typed
  <2>3. Typed /\ Sound(d) /\ drops <= drops' /\ drops' \in Nat
    BY <1>1, <1>4 DEF IInv
  <2> QED
    BY <1>1, <2>1, <2>2, <2>3, Untouched DEF client, engine
<1>11. Sound(c)'
  <2>0. /\ link'[c] = TRUE /\ conn'[c] = conn[c] + 1 /\ ghosted'[c] = FALSE
        /\ wasAlone'[c] <=> Listed \subseteq {c}
        /\ connected'[c] = FALSE /\ remotes'[c] = "unknown" /\ changed'[c] = changed[c]
        /\ ready'[c] = ready[c] /\ joining'[c] = joining[c] /\ seen'[c] = seen[c]
        /\ drops' = drops /\ closed' = closed
    <3>1. wasAlone'[c] = (Listed \ {c} = {})
      BY <1>1 DEF IInv, Typed
    <3>2. Listed \ {c} = {} <=> Listed \subseteq {c}
      OBVIOUS
    <3> QED
      BY <1>1, <1>4, <3>1, <3>2 DEF IInv, Typed, client, engine
  <2>1. CASE Mqtt
    <3>1. /\ inbox'[c] = <<>> /\ outbox'[c] = Append(outbox[c], "subscribe")
          /\ attached' = attached /\ Key(c)' = Key(c) /\ Len(inbox'[c]) = 0
      BY <1>2, <1>3, <1>4, <2>1 DEF IInv, Typed, Key
    <3>2. /\ Len(outbox'[c]) = Len(outbox[c]) + 1 /\ Len(outbox[c]) \in Nat
          /\ \A i \in 1 .. Len(outbox[c]) : outbox'[c][i] = outbox[c][i]
      BY <1>6, <3>1, AppendProperties, LenProperties
    <3>3. Subscribing(c)'
      <4>1. \A i \in 1 .. Len(outbox'[c]) : outbox'[c][i] = "subscribe" => i = Len(outbox'[c])
        BY <1>5, <3>2
      <4> QED
        BY <1>1, <1>3, <2>0, <2>1, <3>1, <4>1 DEF Subscribing
    <3>4. Sayable(c)' /\ Noticed(c)'
      BY <1>3, <2>0, <3>1 DEF Sayable, Noticed
    <3>5. Linked(c)'
      BY <1>1, <1>3, <1>4, <2>0, <3>1 DEF Linked
    <3>6. Readiness(c)' /\ Ordered(c)' /\ Justified(c)'
      BY <1>3, <1>4, <2>0, <2>1 DEF IInv, Sound, Readiness, Ordered, Justified
    <3>7. Viewing(c)'
      <4>1. c \notin Heeding' /\ c \notin Heeding
        BY <1>1, <2>1, <3>1 DEF Heeding
      <4> QED
        BY <1>1, <1>3, <2>0, <2>1, <3>1, <4>1 DEF IInv, Sound, Viewing
    <3> QED
      BY <3>3, <3>4, <3>5, <3>6, <3>7 DEF Sound
  <2>2. CASE ~Mqtt
    <3>1. /\ inbox'[c] = <<[type |-> "granted"], [type |-> "look"]>> /\ outbox'[c] = outbox[c]
          /\ attached' = attached \cup {<<c, conn[c] + 1>>}
      BY <1>2, <2>2 DEF IInv, Typed
    <3>2. /\ inbox'[c] # <<>> /\ Head(inbox'[c]) = [type |-> "granted"]
          /\ \A i \in 1 .. Len(inbox'[c]) : inbox'[c][i].type \in {"granted", "look"}
      <4>1. Len(inbox'[c]) = 2 /\ inbox'[c][1] = [type |-> "granted"] /\ inbox'[c][2] = [type |-> "look"]
        BY <3>1
      <4>2. \A i \in 1 .. Len(inbox'[c]) : i = 1 \/ i = 2
        BY <4>1
      <4>3. [type |-> "granted"].type = "granted" /\ [type |-> "look"].type = "look"
        OBVIOUS
      <4>4. inbox'[c] # <<>> /\ Head(inbox'[c]) = [type |-> "granted"]
        BY <3>1
      <4> QED
        BY <4>1, <4>2, <4>3, <4>4
    <3>3. Sayable(c)' /\ Noticed(c)' /\ Subscribing(c)' /\ Ordered(c)' /\ Viewing(c)'
      BY <1>3, <1>5, <2>0, <2>2, <3>1, <3>2 DEF Sayable, Noticed, Subscribing, Ordered, Viewing
    <3>4. Linked(c)'
      BY <1>1, <1>3, <1>4, <2>0, <2>2 DEF Linked
    <3>5. Readiness(c)' /\ Justified(c)'
      BY <1>3, <2>0, <2>2 DEF IInv, Sound, Readiness, Justified
    <3> QED
      BY <3>3, <3>4, <3>5 DEF Sound
  <2> QED
    BY <2>1, <2>2
<1> QED
  BY <1>8, <1>9, <1>10, <1>11 DEF IInv

\* A subscription that was not sent is the last of what is to be sent.
LEMMA UnsentKept ==
  ASSUME NEW q \in Seq(Word \cup {"subscribe"}),
         \A i \in 1 .. Len(q) : q[i] = "subscribe" => i = Len(q)
  PROVE  /\ Unsent(q) \in Seq(Word \cup {"subscribe"})
         /\ \A i \in 1 .. Len(Unsent(q)) : Unsent(q)[i] # "subscribe"
<1>1. Len(q) \in Nat /\ (q # <<>> => Len(q) > 0)
  BY LenProperties, EmptySeq
<1>2. CASE q # <<>> /\ q[Len(q)] = "subscribe"
  <2>1. Unsent(q) = SubSeq(q, 1, Len(q) - 1)
    BY <1>2 DEF Unsent, Last, Front
  <2>2. /\ SubSeq(q, 1, Len(q) - 1) \in Seq(Word \cup {"subscribe"})
        /\ Len(SubSeq(q, 1, Len(q) - 1)) = Len(q) - 1
        /\ \A i \in 1 .. Len(q) - 1 : SubSeq(q, 1, Len(q) - 1)[i] = q[i]
    <3> DEFINE m == Len(q) - 1
    <3>1. m \in Int /\ m >= 0 /\ \A i \in 1 .. m : q[i] \in Word \cup {"subscribe"}
      BY <1>1, <1>2, ElementOfSeq
    <3>2. m - 1 + 1 = m /\ \A i \in 1 .. m : 1 + i - 1 = i
      BY <3>1
    <3> HIDE DEF m
    <3>3. /\ SubSeq(q, 1, m) \in Seq(Word \cup {"subscribe"})
          /\ Len(SubSeq(q, 1, m)) = IF 1 <= m THEN m - 1 + 1 ELSE 0
          /\ \A i \in 1 .. m - 1 + 1 : SubSeq(q, 1, m)[i] = q[1 + i - 1]
      BY <3>1, SubSeqProperties
    <3>4. Len(SubSeq(q, 1, m)) = m
      BY <3>1, <3>3
    <3> QED
      BY <3>2, <3>3, <3>4 DEF m
  <2> QED
    BY <1>1, <2>1, <2>2
<1>3. CASE ~ (q # <<>> /\ q[Len(q)] = "subscribe")
  <2>1. Unsent(q) = q
    BY <1>3 DEF Unsent, Last
  <2>2. \A i \in 1 .. Len(q) : q[i] # "subscribe"
    BY <1>1, <1>3, EmptySeq
  <2> QED
    BY <2>1, <2>2
<1> QED
  BY <1>2, <1>3

\* A connection is lost: the clone knows nothing of the others.
LEMMA DropSound ==
  ASSUME IInv, NEW c \in Clone, Drop(c)
  PROVE  IInv'
<1>1. /\ link[c] /\ drops < MaxDrops /\ drops' = drops + 1
      /\ link' = [link EXCEPT ![c] = FALSE]
      /\ inbox' = [inbox EXCEPT ![c] = <<>>]
      /\ outbox' = [outbox EXCEPT ![c] = IF Mqtt THEN Unsent(@) ELSE <<>>]
      /\ connected' = [connected EXCEPT ![c] = FALSE]
      /\ seen' = [seen EXCEPT ![c] = {}]
      /\ remotes' = [remotes EXCEPT ![c] = "unknown"]
      /\ todo' = [todo EXCEPT ![c] = @ \/ "unknown" # remotes[c]]
      /\ UNCHANGED <<transport, conn, attached, listed, changed, ready, joining,
                     live, newClone, connecting, closed, wasAlone, ghosted>>
  BY DEF Drop, Offline, SetLive, server, history
<1>2. /\ (Mqtt' <=> Mqtt) /\ Listed' = Listed
      /\ \A d \in Clone : Key(d)' = Key(d)
  BY <1>1 DEF Mqtt, Key, Listed
<1>3. drops \in Nat /\ MaxDrops \in Nat /\ c \notin closed /\ conn[c] \in Nat
      /\ conn[c] <= drops + 1 /\ drops' <= MaxDrops
  BY <1>1, PresenceAssumption DEF IInv, Typed, Sound, Linked
<1>4. /\ outbox'[c] \in Seq(Word \cup {"subscribe"})
      /\ \A i \in 1 .. Len(outbox'[c]) : outbox'[c][i] # "subscribe"
  <2>1. outbox[c] \in Seq(Word \cup {"subscribe"}) /\ outbox'[c] = IF Mqtt THEN Unsent(outbox[c]) ELSE <<>>
    BY <1>1 DEF IInv, Typed
  <2>2. \A i \in 1 .. Len(outbox[c]) : outbox[c][i] = "subscribe" => i = Len(outbox[c])
    BY DEF IInv, Sound, Subscribing
  <2>3. CASE Mqtt
    BY <2>1, <2>2, <2>3, UnsentKept
  <2>4. CASE ~Mqtt
    BY <2>1, <2>4
  <2> QED
    BY <2>3, <2>4
<1>5. Typed'
  <2>1. outbox' \in [Clone -> Seq(Word \cup {"subscribe"})]
    BY <1>1, <1>4 DEF IInv, Typed
  <2>2. todo' \in [Clone -> BOOLEAN]
    BY <1>1 DEF IInv, Typed
  <2>3. <<>> \in Seq(Notice)
    OBVIOUS
  <2> QED
    BY <1>1, <1>3, <2>1, <2>2, <2>3 DEF IInv, Typed
<1>6. Keyed'
  BY <1>1, <1>2 DEF IInv, Keyed
<1>7. ASSUME NEW d \in Clone \ {c}
      PROVE  Sound(d)'
  <2>1. /\ inbox'[d] = inbox[d] /\ outbox'[d] = outbox[d] /\ link'[d] = link[d]
        /\ connected'[d] = connected[d] /\ seen'[d] = seen[d] /\ remotes'[d] = remotes[d]
    BY <1>1 DEF IInv, Typed
  <2>2. Typed /\ Sound(d) /\ drops <= drops' /\ drops' \in Nat
    BY <1>1, <1>3 DEF IInv
  <2> QED
    BY <1>1, <2>1, <2>2, Untouched
<1>8. Sound(c)'
  <2>0. /\ link'[c] = FALSE /\ inbox'[c] = <<>> /\ connected'[c] = FALSE /\ seen'[c] = {}
        /\ remotes'[c] = "unknown" /\ Len(inbox'[c]) = 0
    BY <1>1 DEF IInv, Typed
  <2>1. Sayable(c)' /\ Noticed(c)' /\ Ordered(c)' /\ Justified(c)'
    BY <1>2, <2>0 DEF Sayable, Noticed, Ordered, Justified
  <2>2. Linked(c)'
    BY <1>1, <1>2, <1>3, <2>0 DEF Linked
  <2>3. Subscribing(c)'
    BY <1>4 DEF Subscribing
  <2>4. Readiness(c)'
    BY <1>1, <1>2 DEF IInv, Sound, Readiness
  <2>5. Viewing(c)'
    <3>1. c \notin Heeding'
      BY <2>0 DEF Heeding
    <3> QED
      BY <2>0, <3>1 DEF Viewing
  <2> QED
    BY <2>1, <2>2, <2>3, <2>4, <2>5 DEF Sound
<1> QED
  BY <1>5, <1>6, <1>7, <1>8 DEF IInv

\* A clone that has subscribed, or need not, has but words to say.
LEMMA WordsOnly ==
  ASSUME Typed, NEW c \in Clone, Sound(c), Mqtt => Key(c) \in attached
  PROVE  outbox[c] \in Seq(Word)
<1>1. /\ outbox[c] \in Seq(Word \cup {"subscribe"})
      /\ \A i \in 1 .. Len(outbox[c]) : outbox[c][i] # "subscribe"
  BY DEF Typed, Sound, Subscribing
<1>2. \A i \in 1 .. Len(outbox[c]) : outbox[c][i] \in Word
  BY <1>1, ElementOfSeq
<1> QED
  BY <1>1, <1>2

\* The other way about, after a step
LEMMA WordsAfter ==
  ASSUME NEW c \in Clone, outbox'[c] \in Seq(Word)
  PROVE  Subscribing(c)' /\ outbox'[c] \in Seq(Word \cup {"subscribe"})
<1>1. \A i \in 1 .. Len(outbox'[c]) : outbox'[c][i] \in Word
  BY ElementOfSeq
<1>2. "subscribe" \notin Word /\ Word \subseteq Word \cup {"subscribe"}
  BY DEF Word
<1> HIDE DEF Word
<1> QED
  BY <1>1, <1>2 DEF Subscribing

\* A clone has a message from the broker only if it has subscribed.
LEMMA HeedingReceives ==
  ASSUME NEW c \in Clone, Sound(c), link[c], inbox[c] # <<>>, Mqtt
  PROVE  c \in Heeding /\ Key(c) \in attached
BY DEF Sound, Viewing, Linked, Heeding

\* A clone has received a message: it is as it should be, if the message is heard so.
LEMMA ReceivedSound ==
  ASSUME Typed, NEW c \in Clone, Sound(c), link[c], inbox[c] # <<>>,
         UNCHANGED <<transport, drops, conn, link, server, closed, wasAlone>>,
         inbox'[c] = Tail(inbox[c]), outbox'[c] \in Seq(Word),
         connected'[c] \in BOOLEAN, connected[c] \/ ~Mqtt => connected'[c],
         connected'[c] => link[c] /\ (Mqtt => Key(c) \in attached),
         ~connected'[c] => remotes'[c] = "unknown",
         ghosted'[c] = (ghosted[c] \/ Head(inbox[c]) = Saying("ghost", c)),
         seen'[c] \ {c} = Known(seen[c], Head(inbox[c])) \ {c},
         Readiness(c)', Justified(c)'
  PROVE  Sound(c)'
<1>1. /\ (Mqtt' <=> Mqtt) /\ Listed' = Listed /\ Key(c)' = Key(c)
      /\ (c \in Heeding' <=> c \in Heeding)
  BY DEF Mqtt, Key, Listed, Heeding, server
<1>2. inbox[c] \in Seq(Notice) /\ ghosted[c] \in BOOLEAN /\ wasAlone[c] \in BOOLEAN
  BY DEF Typed
<1>3. /\ Len(inbox'[c]) = Len(inbox[c]) - 1 /\ Len(inbox[c]) \in Nat \ {0}
      /\ \A i \in 1 .. Len(inbox[c]) - 1 : inbox'[c][i] = inbox[c][i + 1] /\ i + 1 \in 1 .. Len(inbox[c])
  BY <1>2, HeadTailProperties, LenProperties, EmptySeq
<1>4. Sayable(c)' /\ Noticed(c)'
  BY <1>1, <1>3 DEF Sound, Sayable, Noticed
<1>5. Linked(c)' /\ Ordered(c)'
  BY <1>1 DEF Sound, Linked, Ordered, server
<1>6. Subscribing(c)'
  BY WordsAfter
<1>7. Viewing(c)'
  <2> SUFFICES ASSUME Mqtt
               PROVE  Viewing(c)'
    BY <1>1 DEF Viewing
  <2> DEFINE s == seen[c]
             q == inbox[c]
             g == ghosted[c]
             w == wasAlone[c]
             L == Listed
             u == Known(s, Head(q))
             h == g \/ Head(q) = Saying("ghost", c)
             z == seen'[c]
  <2>1. c \in Heeding
    BY HeedingReceives
  <2>2. Follows(c, s, q, L) /\ Truthful(c, s, q, g, w)
    BY <2>1 DEF Sound, Viewing
  <2>3. q \in Seq(Notice) /\ q # <<>> /\ g \in BOOLEAN /\ w \in BOOLEAN /\ z \ {c} = u \ {c}
    BY <1>2
  <2> HIDE DEF s, q, g, w, L, z
  <2>4. Follows(c, u, Tail(q), L) /\ Truthful(c, u, Tail(q), h, w)
    BY <2>2, <2>3, TakenView
  <2> HIDE DEF u, h
  <2>5. Follows(c, z, Tail(q), L) /\ Truthful(c, z, Tail(q), h, w)
    BY <2>3, <2>4, SelfShows
  <2> QED
    BY <1>1, <2>1, <2>5 DEF Viewing, s, q, g, w, L, z, h
<1> QED
  BY <1>4, <1>5, <1>6, <1>7 DEF Sound

\* What a clone sends for its presence are words.
LEMMA PresentWords ==
  ASSUME NEW c, NEW r
  PROVE  Present(c, r) \in Seq(Word)
<1>1. <<>> \in Seq(Word) /\ <<"here">> \in Seq(Word)
  BY DEF Word
<1> QED
  BY <1>1 DEF Present

\* A clone that is told to look asks, and the answer names those who are listed.
LEMMA LookSound ==
  ASSUME IInv, NEW c \in Clone, Receive(c), Head(inbox[c]).type = "look"
  PROVE  IInv'
<1> DEFINE answer == [type |-> "present", is |-> Listed]
           q == inbox[c]
<1>1. /\ link[c] /\ q # <<>>
      /\ inbox' = [inbox EXCEPT ![c] = Append(Tail(@), answer)]
      /\ UNCHANGED <<transport, drops, conn, link, attached, listed, outbox, connected, changed,
                     seen, ready, joining, remotes, live, newClone, todo, connecting, closed,
                     wasAlone, ghosted>>
  BY DEF Receive, Look, server, client
<1>2. Listed \in SUBSET Clone
  BY DEF IInv, Typed, Listed
<1>3. answer \in Notice /\ answer.type = "present" /\ answer.is = Listed
  BY <1>2 DEF Notice
<1>4. /\ q \in Seq(Notice) /\ Tail(q) \in Seq(Notice) /\ Len(Tail(q)) = Len(q) - 1
      /\ Len(q) \in Nat \ {0} /\ Head(q) = q[1] /\ 1 \in 1 .. Len(q)
      /\ \A i \in 1 .. Len(q) - 1 : Tail(q)[i] = q[i + 1] /\ i + 1 \in 1 .. Len(q)
  <2>1. q \in Seq(Notice)
    BY DEF IInv, Typed
  <2> HIDE DEF q
  <2> QED
    BY <1>1, <2>1, HeadTailProperties, LenProperties, EmptySeq
<1> HIDE DEF answer
<1>5. /\ Append(Tail(q), answer) \in Seq(Notice)
      /\ Len(Append(Tail(q), answer)) = Len(q)
      /\ Append(Tail(q), answer)[Len(q)] = answer
      /\ \A i \in 1 .. Len(q) - 1 : Append(Tail(q), answer)[i] = q[i + 1]
  <2> DEFINE t == Tail(q)
             n == Len(q)
  <2>1. t \in Seq(Notice) /\ Len(t) = n - 1 /\ n \in Nat \ {0} /\ \A i \in 1 .. n - 1 : t[i] = q[i + 1]
    BY <1>4
  <2> HIDE DEF t, n
  <2>2. /\ Append(t, answer) \in Seq(Notice)
        /\ Len(Append(t, answer)) = Len(t) + 1
        /\ \A i \in 1 .. Len(t) : Append(t, answer)[i] = t[i]
        /\ Append(t, answer)[Len(t) + 1] = answer
    BY <1>3, <2>1, AppendProperties
  <2>3. Len(t) + 1 = n
    BY <2>1
  <2> QED
    BY <2>1, <2>2, <2>3 DEF t, n
<1>6. ~Mqtt
  <2>1. Mqtt => q[1].type \in Word \cup {"granted"}
    BY <1>4 DEF IInv, Sound, Sayable
  <2> QED
    BY <1>4, <2>1 DEF Word
<1>7. /\ (Mqtt' <=> Mqtt) /\ Listed' = Listed
      /\ \A d \in Clone : Key(d)' = Key(d)
  BY <1>1 DEF Mqtt, Key, Listed
<1>8. inbox'[c] = Append(Tail(q), answer)
  BY <1>1 DEF IInv, Typed
<1>9. Typed'
  <2>1. inbox' \in [Clone -> Seq(Notice)]
    BY <1>1, <1>5 DEF IInv, Typed
  <2> QED
    BY <1>1, <2>1 DEF IInv, Typed
<1>10. Keyed'
  BY <1>6, <1>7 DEF Keyed
<1>11. ASSUME NEW d \in Clone \ {c}
       PROVE  Sound(d)'
  <2>1. inbox'[d] = inbox[d]
    BY <1>1 DEF IInv, Typed
  <2>2. Typed /\ Sound(d)
    BY DEF IInv
  <2>3. drops <= drops' /\ drops' \in Nat
    BY <1>1, <2>2, PresenceAssumption DEF Typed
  <2> QED
    BY <1>1, <2>1, <2>2, <2>3, Untouched
<1>12. Sound(c)'
  <2> HIDE DEF q
  <2>1. \A i \in 1 .. Len(inbox'[c]) : i = Len(q) \/ i \in 1 .. Len(q) - 1
    <3> DEFINE n == Len(q)
    <3>1. Len(inbox'[c]) = n
      BY <1>5, <1>8
    <3>2. n \in Nat
      BY <1>4
    <3> HIDE DEF n
    <3>3. \A i \in 1 .. n : i = n \/ i \in 1 .. n - 1
      BY <3>2
    <3> QED
      BY <3>1, <3>3 DEF n
  <2>2. \A i \in 1 .. Len(inbox'[c]) : inbox'[c][i] = answer \/ \E j \in 1 .. Len(q) : inbox'[c][i] = q[j]
    BY <1>4, <1>5, <1>8, <2>1
  <2>3. Sayable(c)'
    BY <1>3, <1>6, <1>7, <2>2 DEF IInv, Sound, Sayable, q
  <2>4. Noticed(c)'
    BY <1>1, <1>3, <1>7, <2>2 DEF IInv, Sound, Noticed, q
  <2>5. Linked(c)' /\ Subscribing(c)' /\ Readiness(c)' /\ Justified(c)'
    BY <1>1, <1>7 DEF IInv, Sound, Linked, Subscribing, Readiness, Justified
  <2>6. Ordered(c)'
    <3>1. connected[c]
      <4>1. [type |-> "granted"].type # "look"
        OBVIOUS
      <4> QED
        BY <1>1, <1>6, <4>1 DEF IInv, Sound, Ordered, q
    <3> QED
      BY <1>1, <3>1 DEF Ordered
  <2>7. Viewing(c)'
    BY <1>6, <1>7 DEF Viewing
  <2> QED
    BY <2>3, <2>4, <2>5, <2>6, <2>7 DEF Sound
<1> QED
  BY <1>9, <1>10, <1>11, <1>12 DEF IInv

\* What all the other messages have in common: the message is taken, and nothing is
\* done to other clones.
LEMMA TakenSound ==
  ASSUME IInv, NEW c \in Clone, link[c], inbox[c] # <<>>,
         inbox' = [inbox EXCEPT ![c] = Tail(@)],
         UNCHANGED <<transport, drops, conn, link, server, live, newClone, connecting,
                     closed, wasAlone>>,
         NEW o \in Seq(Word), outbox' = [outbox EXCEPT ![c] = o],
         NEW on \in BOOLEAN, connected' = [connected EXCEPT ![c] = on],
         NEW ch \in BOOLEAN, changed' = [changed EXCEPT ![c] = ch],
         NEW s \in SUBSET Clone, seen' = [seen EXCEPT ![c] = s],
         NEW r \in BOOLEAN, ready' = [ready EXCEPT ![c] = r],
         NEW j \in BOOLEAN, joining' = [joining EXCEPT ![c] = j],
         NEW l \in {"unknown", "alone", "peers"}, remotes' = [remotes EXCEPT ![c] = l],
         NEW g \in BOOLEAN, ghosted' = [ghosted EXCEPT ![c] = g],
         todo' \in [Clone -> BOOLEAN],
         connected[c] \/ ~Mqtt => on, ~on => l = "unknown",
         g = (ghosted[c] \/ Head(inbox[c]) = Saying("ghost", c)),
         s \ {c} = Known(seen[c], Head(inbox[c])) \ {c},
         r => Mqtt /\ (g \/ conn[c] > 1) /\ ~j,
         ch => r,
         l = "alone" => wasAlone[c] \/ (Mqtt /\ conn[c] > 1 /\ ~g)
  PROVE  IInv'
<1>1. (Mqtt' <=> Mqtt) /\ \A d \in Clone : Key(d)' = Key(d)
  BY DEF Mqtt, Key
<1>2. o \in Seq(Word \cup {"subscribe"}) /\ Tail(inbox[c]) \in Seq(Notice)
  <2>1. inbox[c] \in Seq(Notice)
    BY DEF IInv, Typed
  <2>2. Word \subseteq Word \cup {"subscribe"}
    OBVIOUS
  <2> HIDE DEF Word
  <2> QED
    BY <2>1, <2>2, HeadTailProperties
<1>3. Typed'
  BY <1>2 DEF IInv, Typed, server
<1>4. Keyed'
  BY <1>1 DEF IInv, Keyed, server
<1>5. ASSUME NEW d \in Clone \ {c}
      PROVE  Sound(d)'
  <2>1. /\ inbox'[d] = inbox[d] /\ outbox'[d] = outbox[d] /\ connected'[d] = connected[d]
        /\ changed'[d] = changed[d] /\ seen'[d] = seen[d] /\ ready'[d] = ready[d]
        /\ joining'[d] = joining[d] /\ remotes'[d] = remotes[d] /\ ghosted'[d] = ghosted[d]
    BY DEF IInv, Typed
  <2>2. Typed /\ Sound(d) /\ drops <= drops' /\ drops' \in Nat
    BY PresenceAssumption, SMTT(30) DEF IInv, Typed
  <2> QED
    BY <2>1, <2>2, Untouched DEF server
<1>6. Sound(c)'
  <2>1. /\ inbox'[c] = Tail(inbox[c]) /\ outbox'[c] = o /\ connected'[c] = on
        /\ changed'[c] = ch /\ seen'[c] = s /\ ready'[c] = r
        /\ joining'[c] = j /\ remotes'[c] = l /\ ghosted'[c] = g
    BY DEF IInv, Typed
  <2>2. Typed /\ Sound(c) /\ conn[c] >= 1
    BY DEF IInv, Sound, Linked
  <2>3. Readiness(c)' /\ Justified(c)'
    BY <1>1, <2>1, <2>2 DEF Readiness, Justified
  <2>4. on => link[c] /\ (Mqtt => Key(c) \in attached)
    BY <2>2, HeedingReceives
  <2> QED
    BY <2>1, <2>2, <2>3, <2>4, ReceivedSound
<1> QED
  BY <1>3, <1>4, <1>5, <1>6 DEF IInv

\* setLive of the remotes keeps their types.
LEMMA SetLiveTyped ==
  ASSUME Typed, NEW c \in Clone, NEW l \in {"unknown", "alone", "peers"}, SetLive(c, l)
  PROVE  todo' \in [Clone -> BOOLEAN] /\ remotes' = [remotes EXCEPT ![c] = l]
BY DEF SetLive, Typed

\* A clone is connected: what it knows of presence, if it is ready, is right.
LEMMA GrantedSound ==
  ASSUME IInv, NEW c \in Clone, Receive(c), Head(inbox[c]).type = "granted"
  PROVE  IInv'
<1>1. /\ link[c] /\ inbox[c] # <<>> /\ inbox' = [inbox EXCEPT ![c] = Tail(@)] /\ Granted(c)
      /\ UNCHANGED <<transport, drops, conn, link, server, live, newClone, connecting,
                     closed, wasAlone>>
  BY DEF Receive
<1> DEFINE rejoins == Rejoins(c)
           o == outbox[c] \o (IF Mqtt THEN <<"ghost">> ELSE <<>>)
                          \o (IF rejoins THEN Present(c, ready[c]) ELSE <<>>)
           j == joining[c] \/ (Mqtt /\ rejoins /\ ~ready[c])
           s == IF Mqtt /\ rejoins /\ ready[c] THEN seen[c] \cup {c} ELSE seen[c]
           l == IF changed[c] THEN Liveness(c, seen[c]) ELSE remotes[c]
           m == Head(inbox[c])
<1>2. Typed /\ Sound(c) /\ Linked(c) /\ Readiness(c) /\ Justified(c) /\ (rejoins \in BOOLEAN)
  BY DEF IInv, Sound, Rejoins, Typed
<1>3. outbox[c] \in Seq(Word)
  BY <1>1, <1>2, WordsOnly, HeedingReceives
<1>4. o \in Seq(Word)
  <2>1. <<"ghost">> \in Seq(Word) /\ <<>> \in Seq(Word)
    BY DEF Word
  <2>2. Present(c, ready[c]) \in Seq(Word)
    BY PresentWords
  <2> DEFINE p == IF Mqtt THEN <<"ghost">> ELSE <<>>
             t == IF rejoins THEN Present(c, ready[c]) ELSE <<>>
  <2>3. p \in Seq(Word) /\ t \in Seq(Word)
    BY <2>1, <2>2
  <2> HIDE DEF p, t
  <2>4. outbox[c] \o p \o t \in Seq(Word)
    BY <1>3, <2>3, ConcatProperties
  <2> QED
    BY <2>4 DEF p, t
<1> HIDE DEF rejoins
<1>5. /\ connected' = [connected EXCEPT ![c] = TRUE]
      /\ changed' = [changed EXCEPT ![c] = FALSE]
      /\ outbox' = [outbox EXCEPT ![c] = o]
      /\ joining' = [joining EXCEPT ![c] = j]
      /\ seen' = [seen EXCEPT ![c] = s]
      /\ ready' = [ready EXCEPT ![c] = ready[c]] /\ ghosted' = [ghosted EXCEPT ![c] = ghosted[c]]
  BY <1>1, <1>2 DEF Granted, Typed, rejoins
<1>6. l \in {"unknown", "alone", "peers"} /\ todo' \in [Clone -> BOOLEAN] /\ remotes' = [remotes EXCEPT ![c] = l]
  <2>1. CASE changed[c]
    <3>1. Liveness(c, seen[c]) \in {"unknown", "alone", "peers"} /\ SetLive(c, Liveness(c, seen[c]))
      BY <1>1, <2>1 DEF Granted, Looks, Liveness
    <3> QED
      BY <1>2, <2>1, <3>1, SetLiveTyped
  <2>2. CASE ~changed[c]
    BY <1>1, <1>2, <2>2 DEF Granted, Looks, Typed
  <2> QED
    BY <2>1, <2>2
<1>7. /\ j \in BOOLEAN /\ s \in SUBSET Clone /\ ready[c] \in BOOLEAN /\ ghosted[c] \in BOOLEAN
      /\ s \ {c} = seen[c] \ {c}
  BY <1>2 DEF Typed
<1>8. \A word, d : m # Saying(word, d) \/ word = "granted"
  BY DEF Saying
<1>9. ghosted[c] = (ghosted[c] \/ m = Saying("ghost", c)) /\ Known(seen[c], m) = seen[c]
  BY <1>7, <1>8 DEF Known
<1>10. l = "alone" => wasAlone[c] \/ (Mqtt /\ conn[c] > 1 /\ ~ghosted[c])
  <2>1. CASE ~changed[c]
    BY <1>2, <2>1 DEF Justified
  <2>2. CASE changed[c]
    <3>1. Mqtt /\ (ghosted[c] \/ conn[c] > 1)
      BY <1>2, <2>2 DEF Readiness
    <3>2. c \in Heeding
      BY <1>1, <1>2, <3>1, HeedingReceives
    <3>3. Truthful(c, seen[c], inbox[c], ghosted[c], wasAlone[c])
      BY <1>2, <3>1, <3>2 DEF Sound, Viewing
    <3>4. ghosted[c] /\ seen[c] \subseteq {c} => wasAlone[c]
      <4>1. 0 \in 0 .. Len(inbox[c])
        BY <1>2, LenProperties DEF Typed
      <4>2. ghosted[c] => Settled(c, ghosted[c], inbox[c], 0)
        BY DEF Settled
      <4>3. seen[c] \subseteq {c} => \A d \in Clone \ {c} : ~ Shows(seen[c], inbox[c], 0, d)
        BY DEF Shows
      <4> QED
        BY <3>3, <4>1, <4>2, <4>3 DEF Truthful
    <3>5. l = "alone" => seen[c] \subseteq {c}
      BY <2>2 DEF Liveness
    <3> QED
      BY <3>1, <3>4, <3>5
  <2> QED
    BY <2>1, <2>2
<1>11. ready[c] => Mqtt /\ (ghosted[c] \/ conn[c] > 1) /\ ~j
  BY <1>2 DEF Readiness
<1> HIDE DEF o, j, s, l, m
<1>12. s \ {c} = Known(seen[c], m) \ {c}
  BY <1>7, <1>9
<1> QED
  BY <1>1, <1>4, <1>5, <1>6, <1>7, <1>9, <1>10, <1>11, <1>12, TakenSound DEF m

\* An answer about who is present is right, or was.
LEMMA AnsweredSound ==
  ASSUME IInv, NEW c \in Clone, Receive(c), Head(inbox[c]).type = "present"
  PROVE  IInv'
<1> DEFINE m == Head(inbox[c])
           l == Liveness(c, m.is)
<1>1. /\ link[c] /\ inbox[c] # <<>> /\ inbox' = [inbox EXCEPT ![c] = Tail(@)] /\ Answered(c, m)
      /\ UNCHANGED <<transport, drops, conn, link, server, live, newClone, connecting,
                     closed, wasAlone>>
  BY DEF Receive
<1>2. Typed /\ Sound(c) /\ Linked(c) /\ Readiness(c)
  BY DEF IInv, Sound
<1>3. inbox[c] \in Seq(Notice) /\ 1 \in 1 .. Len(inbox[c]) /\ m = inbox[c][1]
  BY <1>1, <1>2, LenProperties, EmptySeq, HeadTailProperties DEF Typed
<1>4. ~Mqtt /\ connected[c]
  <2>1. ~Mqtt
    BY <1>2, <1>3 DEF Sound, Sayable, Word
  <2>2. [type |-> "granted"].type # "present"
    OBVIOUS
  <2> QED
    BY <1>1, <1>2, <2>1, <2>2 DEF Sound, Ordered
<1>5. l \in {"unknown", "alone", "peers"}
  BY DEF Liveness
<1>6. l = "alone" => wasAlone[c]
  <2>1. l = "alone" => m.is \subseteq {c}
    BY DEF Liveness
  <2>2. m.is \subseteq {c} => wasAlone[c]
    BY <1>2, <1>3 DEF Sound, Noticed
  <2> QED
    BY <2>1, <2>2
<1>7. SetLive(c, l) /\ UNCHANGED <<outbox, client, ghosted>>
  BY <1>1 DEF Answered
<1>8. \A word, d : m # Saying(word, d) \/ word = "present"
  BY DEF Saying
<1>9. ghosted[c] = (ghosted[c] \/ m = Saying("ghost", c)) /\ Known(seen[c], m) = seen[c]
  BY <1>2, <1>8 DEF Known, Typed
<1> HIDE DEF m, l
<1>10. todo' \in [Clone -> BOOLEAN] /\ remotes' = [remotes EXCEPT ![c] = l]
  BY <1>2, <1>5, <1>7, SetLiveTyped
<1>11. outbox[c] \in Seq(Word)
  BY <1>2, <1>4, WordsOnly
<1>12. /\ outbox' = [outbox EXCEPT ![c] = outbox[c]]
       /\ connected' = [connected EXCEPT ![c] = connected[c]]
       /\ changed' = [changed EXCEPT ![c] = changed[c]]
       /\ seen' = [seen EXCEPT ![c] = seen[c]]
       /\ ready' = [ready EXCEPT ![c] = ready[c]]
       /\ joining' = [joining EXCEPT ![c] = joining[c]]
       /\ ghosted' = [ghosted EXCEPT ![c] = ghosted[c]]
       /\ connected[c] \in BOOLEAN /\ changed[c] \in BOOLEAN /\ seen[c] \in SUBSET Clone
       /\ ready[c] \in BOOLEAN /\ joining[c] \in BOOLEAN /\ ghosted[c] \in BOOLEAN
  BY <1>2, <1>7 DEF Typed, client
<1>13. ready[c] = FALSE /\ changed[c] = FALSE
  BY <1>2, <1>4, <1>12 DEF Readiness
<1> QED
  BY <1>1, <1>4, <1>5, <1>6, <1>9, <1>10, <1>11, <1>12, <1>13, TakenSound DEF m

\* A word of the broker is heard.  Once the ghost is back, no other is missing from what
\* the clone has seen.
LEMMA HeardSound ==
  ASSUME IInv, NEW c \in Clone, Receive(c), Head(inbox[c]).type \notin {"look", "granted", "present"}
  PROVE  IInv'
<1> DEFINE m == Head(inbox[c])
           isReady == IsReady(c, m)
           joins == isReady /\ joining[c]
           known == Known(seen[c], m)
           o == IF joins THEN Append(outbox[c], "here") ELSE outbox[c]
           s == IF joins THEN known \cup {c} ELSE known
           j == joining[c] /\ ~isReady
           ch == changed[c] \/ (isReady /\ ~connected[c])
           l == IF isReady /\ connected[c] THEN Liveness(c, known) ELSE remotes[c]
           g == ghosted[c] \/ m = Saying("ghost", c)
<1>1. /\ link[c] /\ inbox[c] # <<>> /\ inbox' = [inbox EXCEPT ![c] = Tail(@)] /\ Heard(c, m)
      /\ UNCHANGED <<transport, drops, conn, link, server, live, newClone, connecting,
                     closed, wasAlone>>
  BY DEF Receive
<1>2. Typed /\ Sound(c) /\ Linked(c) /\ Readiness(c) /\ Justified(c) /\ Viewing(c)
  BY DEF IInv, Sound
<1>3. inbox[c] \in Seq(Notice) /\ 1 \in 1 .. Len(inbox[c]) /\ m = inbox[c][1] /\ m \in Notice
  BY <1>1, <1>2, LenProperties, EmptySeq, HeadTailProperties DEF Typed
<1>4. m.type \in Word /\ m.of \in Clone
  BY <1>3 DEF Notice
<1>5. Mqtt
  BY <1>2, <1>3, <1>4 DEF Sound, Sayable, Word
<1>6. /\ c \in Heeding /\ outbox[c] \in Seq(Word)
      /\ Follows(c, seen[c], inbox[c], Listed)
      /\ Truthful(c, seen[c], inbox[c], ghosted[c], wasAlone[c])
  BY <1>1, <1>2, <1>5, HeedingReceives, WordsOnly DEF Viewing
<1>7. /\ connected[c] \in BOOLEAN /\ changed[c] \in BOOLEAN /\ seen[c] \in SUBSET Clone
      /\ ready[c] \in BOOLEAN /\ joining[c] \in BOOLEAN /\ ghosted[c] \in BOOLEAN
      /\ wasAlone[c] \in BOOLEAN
      /\ (isReady <=> ready[c] \/ m = Saying("ghost", c)) /\ isReady \in BOOLEAN
  BY <1>2 DEF Typed, IsReady, Saying
<1>8. g /\ known \subseteq {c} => wasAlone[c]
  BY <1>1, <1>3, <1>6, <1>7, TakenView
<1>9. known \in SUBSET Clone
  BY <1>4, <1>7 DEF Known
<1>10. o \in Seq(Word)
  <2>1. "here" \in Word
    BY DEF Word
  <2> QED
    BY <1>6, <2>1, AppendProperties
<1> HIDE DEF isReady, known, m
<1>11. /\ ready' = [ready EXCEPT ![c] = isReady]
       /\ joining' = [joining EXCEPT ![c] = j]
       /\ seen' = [seen EXCEPT ![c] = s]
       /\ outbox' = [outbox EXCEPT ![c] = o]
       /\ changed' = [changed EXCEPT ![c] = ch]
       /\ ghosted' = [ghosted EXCEPT ![c] = g]
       /\ connected' = [connected EXCEPT ![c] = connected[c]]
       /\ IF isReady /\ connected[c] THEN SetLive(c, Liveness(c, known)) ELSE UNCHANGED <<remotes, todo>>
  BY <1>1, <1>2 DEF Heard, Known, known, isReady, Typed, Saying
<1>12. l \in {"unknown", "alone", "peers"} /\ todo' \in [Clone -> BOOLEAN] /\ remotes' = [remotes EXCEPT ![c] = l]
  <2>1. CASE isReady /\ connected[c]
    <3>1. Liveness(c, known) \in {"unknown", "alone", "peers"}
      BY DEF Liveness
    <3> QED
      BY <1>2, <1>11, <2>1, <3>1, SetLiveTyped
  <2>2. CASE ~ (isReady /\ connected[c])
    BY <1>2, <1>11, <2>2 DEF Typed
  <2> QED
    BY <2>1, <2>2
<1>13. isReady => g \/ conn[c] > 1
  BY <1>2, <1>7 DEF Readiness
<1>14. l = "alone" => wasAlone[c] \/ (Mqtt /\ conn[c] > 1 /\ ~g)
  <2>1. CASE isReady /\ connected[c]
    <3>1. l = "alone" => known \subseteq {c}
      BY <2>1 DEF Liveness
    <3> QED
      BY <1>5, <1>8, <1>13, <2>1, <3>1
  <2>2. CASE ~ (isReady /\ connected[c])
    <3>1. CASE connected[c]
      <4>1. m # Saying("ghost", c)
        BY <1>7, <2>2, <3>1
      <4> QED
        BY <1>2, <2>2, <4>1 DEF Justified
    <3>2. CASE ~connected[c]
      BY <1>2, <2>2, <3>2 DEF Linked
    <3> QED
      BY <3>1, <3>2
  <2> QED
    BY <2>1, <2>2
<1>15. ~connected[c] => l = "unknown"
  BY <1>2 DEF Linked
<1>16. /\ j \in BOOLEAN /\ s \in SUBSET Clone /\ ch \in BOOLEAN /\ g \in BOOLEAN
       /\ s \ {c} = known \ {c}
       /\ isReady => ~j
       /\ ch => isReady
  BY <1>2, <1>7, <1>9 DEF Readiness
<1> HIDE DEF j, s, ch, l, o
<1>17. isReady => Mqtt /\ (g \/ conn[c] > 1) /\ ~j
  BY <1>5, <1>13, <1>16
<1> QED
  BY <1>1, <1>5, <1>7, <1>10, <1>11, <1>12, <1>14, <1>15, <1>16, <1>17, TakenSound, ZenonT(60) DEF m, known

\* The engine lives, or not: the clone says so, and sees itself or not.
LEMMA CloneLiveSound ==
  ASSUME IInv, NEW c \in Clone, NEW value \in BOOLEAN, CloneLive(c, value),
         UNCHANGED <<transport, drops, conn, link, server, inbox, connected, changed, ready,
                     remotes, closed, history>>,
         todo' \in [Clone -> BOOLEAN], newClone' \in [Clone -> BOOLEAN],
         connecting' \in [Clone -> BOOLEAN]
  PROVE  IInv'
<1> DEFINE tell == value # live[c] /\ connected[c]
           o == IF ~tell THEN outbox[c]
                ELSE outbox[c] \o (IF value THEN Present(c, ready[c]) ELSE <<"left">>)
           j == joining[c] \/ (Mqtt /\ tell /\ value /\ ~ready[c])
           s == IF ~(Mqtt /\ tell) THEN seen[c] ELSE IF ~value THEN seen[c] \ {c}
                ELSE IF ready[c] THEN seen[c] \cup {c} ELSE seen[c]
<1>1. Typed /\ Sound(c) /\ Linked(c) /\ Readiness(c)
  BY DEF IInv, Sound
<1>2. /\ live' = [live EXCEPT ![c] = value]
      /\ outbox' = [outbox EXCEPT ![c] = o]
      /\ joining' = [joining EXCEPT ![c] = j]
      /\ seen' = [seen EXCEPT ![c] = s]
  BY <1>1 DEF CloneLive, Typed
<1>3. j \in BOOLEAN /\ s \in SUBSET Clone /\ s \ {c} = seen[c] \ {c} /\ (ready[c] => j = joining[c])
  BY <1>1 DEF Typed
<1>4. o = outbox[c] \/ o \in Seq(Word)
  <2> SUFFICES ASSUME tell
               PROVE  o \in Seq(Word)
    OBVIOUS
  <2>1. outbox[c] \in Seq(Word)
    BY <1>1, WordsOnly DEF Linked
  <2>2. <<"left">> \in Seq(Word) /\ Present(c, ready[c]) \in Seq(Word)
    BY PresentWords DEF Word
  <2> QED
    BY <2>1, <2>2, ConcatProperties
<1>5. o \in Seq(Word \cup {"subscribe"})
  <2>1. Word \subseteq Word \cup {"subscribe"}
    OBVIOUS
  <2> HIDE DEF Word
  <2>2. o \in Seq(Word) => o \in Seq(Word \cup {"subscribe"})
    <3> HIDE DEF o
    <3> QED
      BY <2>1
  <2> HIDE DEF o
  <2> QED
    BY <1>1, <1>4, <2>2 DEF Typed
<1> HIDE DEF o, j, s
<1>6. (Mqtt' <=> Mqtt) /\ Listed' = Listed /\ \A d \in Clone : Key(d)' = Key(d)
  BY DEF Mqtt, Key, Listed, server
<1>7. Heeding' = Heeding
  BY <1>6 DEF Heeding, server
<1>8. Typed'
  BY <1>1, <1>2, <1>3, <1>5 DEF Typed, server, history
<1>9. Keyed'
  BY <1>6 DEF IInv, Keyed, server
<1>10. ASSUME NEW d \in Clone \ {c}
       PROVE  Sound(d)'
  <2>1. outbox'[d] = outbox[d] /\ seen'[d] = seen[d] /\ joining'[d] = joining[d]
    BY <1>1, <1>2 DEF Typed
  <2>2. Sound(d)
    BY DEF IInv
  <2>3. drops <= drops' /\ drops' \in Nat
    BY <1>1, PresenceAssumption DEF Typed
  <2> QED
    BY <1>1, <2>1, <2>2, <2>3, Untouched DEF server, history
<1>11. Sound(c)'
  <2>1. outbox'[c] = o /\ seen'[c] = s /\ joining'[c] = j
    BY <1>1, <1>2 DEF Typed
  <2>2. Subscribing(c)'
    <3>1. CASE o = outbox[c]
      BY <1>1, <1>6, <2>1, <3>1 DEF Sound, Subscribing, server
    <3>2. CASE o \in Seq(Word)
      BY <2>1, <3>2, WordsAfter
    <3> QED
      BY <1>4, <3>1, <3>2
  <2>3. Sayable(c)' /\ Linked(c)' /\ Ordered(c)' /\ Noticed(c)' /\ Justified(c)'
    BY <1>1, <1>6 DEF Sound, Sayable, Linked, Ordered, Noticed, Justified, server, history
  <2>4. Readiness(c)'
    BY <1>1, <1>3, <1>6, <2>1 DEF Readiness, history
  <2>5. Viewing(c)'
    <3>1. s \subseteq seen[c] \cup {c}
      BY DEF s
    <3>2. CASE Mqtt /\ c \in Heeding
      <4>1. Follows(c, seen[c], inbox[c], Listed) /\ Truthful(c, seen[c], inbox[c], ghosted[c], wasAlone[c])
        BY <1>1, <3>2 DEF Sound, Viewing
      <4>2. Follows(c, s, inbox[c], Listed) /\ Truthful(c, s, inbox[c], ghosted[c], wasAlone[c])
        BY <1>3, <4>1, SelfShows
      <4> QED
        BY <1>6, <1>7, <2>1, <3>2, <4>2 DEF Viewing, history
    <3>3. CASE ~ (Mqtt /\ c \in Heeding)
      BY <1>1, <1>6, <1>7, <2>1, <3>1, <3>3 DEF Sound, Viewing, history
    <3> QED
      BY <3>2, <3>3
  <2> QED
    BY <2>2, <2>3, <2>4, <2>5 DEF Sound
<1> QED
  BY <1>8, <1>9, <1>10, <1>11 DEF IInv

\* A clone that closes says nothing any more.
LEMMA CloseSound ==
  ASSUME IInv, NEW c \in Clone, remotes[c] = "alone", Close(c),
         UNCHANGED <<transport, drops, conn, server, changed, ready, newClone, history>>,
         todo' \in [Clone -> BOOLEAN]
  PROVE  IInv'
<1>1. Typed /\ Sound(c) /\ Linked(c) /\ Readiness(c) /\ connected[c] /\ link[c]
  BY DEF IInv, Sound, Linked
<1>2. /\ closed' = closed \cup {c}
      /\ link' = [link EXCEPT ![c] = FALSE]
      /\ inbox' = [inbox EXCEPT ![c] = <<>>] /\ outbox' = [outbox EXCEPT ![c] = <<>>]
      /\ connected' = [connected EXCEPT ![c] = FALSE]
      /\ remotes' = [remotes EXCEPT ![c] = "unknown"]
      /\ live' = [live EXCEPT ![c] = FALSE]
      /\ UNCHANGED <<seen, joining, connecting>>
  BY DEF Close
<1>3. (Mqtt' <=> Mqtt) /\ Listed' = Listed /\ \A d \in Clone : Key(d)' = Key(d)
  BY DEF Mqtt, Key, Listed, server
<1>4. <<>> \in Seq(Notice) /\ <<>> \in Seq(Word \cup {"subscribe"}) /\ Len(<<>>) = 0
  OBVIOUS
<1>5. Typed'
  BY <1>1, <1>2, <1>4 DEF Typed, server, history
<1>6. Keyed'
  BY <1>3 DEF IInv, Keyed, server
<1>7. ASSUME NEW d \in Clone \ {c}
      PROVE  Sound(d)'
  <2>1. /\ outbox'[d] = outbox[d] /\ inbox'[d] = inbox[d] /\ link'[d] = link[d]
        /\ connected'[d] = connected[d] /\ remotes'[d] = remotes[d]
        /\ (d \in closed' <=> d \in closed)
    BY <1>1, <1>2 DEF Typed
  <2>2. Sound(d)
    BY DEF IInv
  <2>3. drops <= drops' /\ drops' \in Nat
    BY <1>1, PresenceAssumption DEF Typed
  <2> QED
    BY <1>1, <1>2, <2>1, <2>2, <2>3, Untouched DEF server, history
<1>8. Sound(c)'
  <2>1. /\ outbox'[c] = <<>> /\ inbox'[c] = <<>> /\ link'[c] = FALSE
        /\ connected'[c] = FALSE /\ remotes'[c] = "unknown" /\ c \in closed'
    BY <1>1, <1>2 DEF Typed
  <2>2. /\ Sayable(c)' /\ Linked(c)' /\ Subscribing(c)' /\ Ordered(c)' /\ Noticed(c)'
        /\ Justified(c)'
    BY <1>1, <1>3, <1>4, <2>1 DEF Sayable, Linked, Subscribing, Ordered, Noticed, Justified
  <2>3. Readiness(c)'
    BY <1>1, <1>2, <1>3 DEF Readiness, history
  <2>4. Viewing(c)'
    BY <1>3, <2>1 DEF Viewing, Heeding
  <2> QED
    BY <2>2, <2>3, <2>4 DEF Sound
<1> QED
  BY <1>5, <1>6, <1>7, <1>8 DEF IInv

\* What the engine decides is as the remotes say.
LEMMA DecideSound ==
  ASSUME IInv, NEW c \in Clone, Decide(c)
  PROVE  IInv'
<1>1. /\ todo' = [todo EXCEPT ![c] = FALSE]
      /\ UNCHANGED <<transport, drops, conn, server, changed, ready, newClone, history>>
  BY DEF Decide
<1>2. /\ todo' \in [Clone -> BOOLEAN] /\ newClone' \in [Clone -> BOOLEAN]
      /\ connecting \in [Clone -> BOOLEAN] /\ remotes[c] \in {"unknown", "alone", "peers"}
  BY <1>1 DEF IInv, Typed
<1>3. CASE remotes[c] = "peers"
  <2>1. /\ connecting' = [connecting EXCEPT ![c] = TRUE]
        /\ UNCHANGED <<link, inbox, outbox, connected, seen, joining, remotes, live, closed>>
    BY <1>3 DEF Decide
  <2>2. Typed'
    BY <1>1, <1>2, <2>1 DEF IInv, Typed, server, history
  <2>3. Keyed'
    BY <1>1, <2>1 DEF IInv, Keyed, Mqtt, server
  <2>4. ASSUME NEW d \in Clone
        PROVE  Sound(d)'
    <3>1. Typed /\ Sound(d)
      BY DEF IInv
    <3>2. drops <= drops' /\ drops' \in Nat
      BY <1>1, <3>1, PresenceAssumption DEF Typed
    <3> QED
      BY <1>1, <2>1, <3>1, <3>2, Untouched DEF server, history
  <2> QED
    BY <2>2, <2>3, <2>4 DEF IInv
<1>4. CASE remotes[c] = "alone" /\ newClone[c]
  <2>1. Close(c)
    BY <1>4 DEF Decide
  <2> QED
    BY <1>1, <1>2, <1>4, <2>1, CloseSound
<1>5. CASE remotes[c] = "alone" /\ ~newClone[c]
  <2>1. CloneLive(c, TRUE) /\ UNCHANGED <<link, inbox, connected, remotes, connecting, closed>>
    BY <1>5 DEF Decide
  <2> QED
    BY <1>1, <1>2, <2>1, CloneLiveSound
<1>6. CASE remotes[c] = "unknown"
  <2>1. CloneLive(c, FALSE) /\ UNCHANGED <<link, inbox, connected, remotes, connecting, closed>>
    BY <1>6 DEF Decide
  <2> QED
    BY <1>1, <1>2, <2>1, CloneLiveSound
<1> QED
  BY <1>2, <1>3, <1>4, <1>5, <1>6

\* A recovery comes to an end.
LEMMA FinishSound ==
  ASSUME IInv, NEW c \in Clone, Finish(c)
  PROVE  IInv'
<1>1. PICK recovered \in BOOLEAN :
        /\ newClone' = [newClone EXCEPT ![c] = @ /\ ~recovered]
        /\ todo' = [todo EXCEPT ![c] = @ \/ ~recovered]
  BY DEF Finish
<1>2. newClone' \in [Clone -> BOOLEAN] /\ todo' \in [Clone -> BOOLEAN] /\ connecting' \in [Clone -> BOOLEAN]
  BY <1>1 DEF IInv, Typed, Finish
<1>3. /\ CloneLive(c, TRUE)
      /\ UNCHANGED <<transport, drops, conn, link, server, inbox, connected, changed, ready,
                     remotes, closed, history>>
  BY DEF Finish
<1> QED
  BY <1>2, <1>3, CloneLiveSound

-----------------------------------------------------------------------------
(***************************************************************************)
(* The theorems                                                            *)
(***************************************************************************)

\* The invariant holds in every state that is reached.
THEOREM Invariance == Spec => []IInv
<1>1. Init => IInv
  BY InitSound
<1>2. IInv /\ [Next]_vars => IInv'
  <2> SUFFICES ASSUME IInv, [Next]_vars
               PROVE  IInv'
    OBVIOUS
  <2>1. CASE UNCHANGED vars
    <3>1. Typed'
      BY <2>1 DEF IInv, Typed, vars, server, queues, client, engine, history
    <3>2. Keyed'
      BY <2>1 DEF IInv, Keyed, Mqtt, vars, server
    <3>3. ASSUME NEW d \in Clone
          PROVE  Sound(d)'
      <4>1. Typed /\ Sound(d)
        BY DEF IInv
      <4>2. drops <= drops' /\ drops' \in Nat
        BY <2>1, <4>1, PresenceAssumption DEF Typed, vars
      <4> QED
        BY <2>1, <4>1, <4>2, Untouched DEF vars, server, queues, client, engine, history
    <3> QED
      BY <3>1, <3>2, <3>3 DEF IInv
  <2>2. ASSUME NEW x \in attached, Expire(x)
        PROVE  IInv'
    BY <2>2, ExpireSound
  <2>3. ASSUME NEW c \in Clone, Serve(c)
        PROVE  IInv'
    BY <2>3, ServeWordSound, ServeSubscriptionSound
  <2>4. ASSUME NEW c \in Clone, Receive(c)
        PROVE  IInv'
    BY <2>4, LookSound, GrantedSound, AnsweredSound, HeardSound
  <2>5. ASSUME NEW c \in Clone, Connect(c) \/ Drop(c) \/ Decide(c) \/ Finish(c)
        PROVE  IInv'
    BY <2>5, ConnectSound, DropSound, DecideSound, FinishSound
  <2> QED
    BY <2>1, <2>2, <2>3, <2>4, <2>5 DEF Next
<1> QED
  BY <1>1, <1>2, PTL DEF Spec

\* A clone without a connection says nothing of others, and the state is what it should
\* be: PubsubRemotes.onDisconnect, and MqttPresence, which forgets.
THEOREM PresenceCorrect == Spec => []PresenceSound
<1>1. IInv => PresenceSound
  BY PresenceAssumption
     DEF IInv, Typed, Sound, Linked, PresenceSound, TypeOK, OfflineUnknown, Status
<1> QED
  BY <1>1, Invariance, PTL

\* A clone takes itself to be alone only if it was, since it connected; but for a
\* client of MQTT that has connected again and has not had its ghost back.
THEOREM AloneIsRight == Spec => []AloneOnceReady
<1>1. IInv => AloneOnceReady
  BY DEF IInv, Sound, Justified, AloneOnceReady
<1> QED
  BY <1>1, Invariance, PTL

=============================================================================
