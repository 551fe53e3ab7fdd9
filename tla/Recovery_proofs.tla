-------------------------- MODULE Recovery_proofs ---------------------------
(***************************************************************************)
(* What a clone that was away may rely on when it gets back on track: for  *)
(* any number of operations of each writer, and however often the remotes  *)
(* come and go, attempts fail and the process stops.  Of the adverse       *)
(* circumstances, each theorem admits those that leave it true.            *)
(***************************************************************************)
EXTENDS Recovery, FiniteSetTheorems, SequenceTheorems, WellFoundedInduction, TLAPS

-----------------------------------------------------------------------------
(* The inductive invariant *)

Clock == [Writer -> Nat]

Op == [p : Writer, n : Nat \ {0}]

Msg == [op : Op, mark : Marks]

Answer == [kind : {"none", "revup", "snapshot"}, gwc : Clock, data : SUBSET Op, updates : Seq(Op)]

Typed ==
  /\ log \in [Writer -> Seq(Clock)]
  /\ bJournal \in Seq(Op) /\ bTicked \in BOOLEAN /\ bMissed \in BOOLEAN
  /\ serving \in [open : BOOLEAN, at : Clock, ticked : BOOLEAN, forward : Seq(Op)]
  /\ toMe \in [{"b", "c"} -> Seq(Op)] /\ toB \in [{"me", "c"} -> Seq(Op)] /\ remote \in BOOLEAN
  /\ data \in SUBSET Op /\ journal \in Seq(Op) /\ start \in Nat /\ disk \in Clock
  /\ time \in Clock /\ newClone \in BOOLEAN
  /\ buffer \in Seq(Msg) /\ queue \in Seq(Msg) /\ taking \in Seq(Msg)
  /\ source \in {"never", "revups", "live"} /\ revups \in Seq(Op) /\ held \in Seq(Op)
  /\ outdated \in BOOLEAN
  /\ opps \in Nat /\ retries \in Nat
  /\ attempt \in {"idle", "asking", "answered", "connected", "attached", "cleared", "inserted"}
  /\ answer \in Answer /\ told \in Clock
  /\ out \in Seq(Op) /\ events \in Nat

\* How many operations of each writer there are
Written == [p \in Writer |-> Len(log[p])]

\* What has been seen had been written, and the operations before one's own
Logs ==
  \A p \in Writer :
    /\ Len(log[p]) <= MaxOps[p]
    /\ \A n \in 1 .. Len(log[p]) : log[p][n][p] = n - 1 /\ AtMost(log[p][n], Written)

\* Operations on their way, or that wait, have been written.
OpsOf(msgs) == {m.op : m \in ToSet(msgs)}

Known ==
  /\ ToSet(journal) \cup ToSet(out) \cup ToSet(toB["me"]) \cup ToSet(held) \cup ToSet(revups)
       \cup ToSet(serving.forward) \cup ToSet(answer.updates) \subseteq Covered(Written)
  /\ OpsOf(buffer) \cup OpsOf(queue) \cup OpsOf(taking) \subseteq Covered(Written)
  /\ \A p \in {"b", "c"} : ToSet(toMe[p]) \subseteq {op \in Covered(Written) : op.p = p}

\* All that is emitted is one's own.
Own == \A op \in ToSet(out) \cup ToSet(toB["me"]) : op.p = "me"

\* The collaborator has what its journal shows, in causal order, and in the end all.
Collaborator ==
  /\ ToSet(bJournal) = Covered(BHas)
  /\ AtMost(BHas, Written) /\ BHas["b"] = Len(log["b"])
  /\ BHas["c"] + Len(toB["c"]) = Len(log["c"])
  /\ \A i \in DOMAIN toB["c"] : toB["c"][i] = [p |-> "c", n |-> BHas["c"] + i]

\* The phases of an attempt, and of a period
Control ==
  /\ (attempt \in {"idle", "asking"}) <=> (answer = NoAnswer)
  /\ attempt \notin {"idle", "asking"} => answer.kind # "none"
  /\ attempt \in {"cleared", "inserted"} => answer.kind = "snapshot"
  /\ newClone /\ answer # NoAnswer => answer.kind = "snapshot"
  /\ attempt # "idle" => opps > 0
  /\ Len(taking) <= 1
  /\ source # "revups" => revups = <<>> /\ held = <<>>
  /\ source = "never" => queue = <<>>

\* While a snapshot is applied, the time is that of its
Joined == attempt \in {"connected", "attached", "cleared"} /\ answer.kind = "snapshot"

\* The times of the disk, the clone, an answer and the collaborator, in order
Times ==
  /\ AtMost(time, Written) /\ AtMost(disk, time)
  /\ time["me"] = Len(log["me"]) /\ disk["me"] = Len(log["me"])
  /\ newClone => Len(log["me"]) = 0
  /\ AtMost(answer.gwc, BHas)
  /\ attempt = "answered" => time["b"] <= answer.gwc["b"] /\ time["c"] <= answer.gwc["c"]
  /\ attempt = "answered" /\ answer.kind = "snapshot" => AtMost(time, answer.gwc)
  /\ IF Joined THEN time = answer.gwc ELSE disk = time
  /\ attempt = "cleared" => disk = time

Pending == OpsOf(buffer) \cup OpsOf(queue) \cup OpsOf(taking)

\* Messages that come before the answer is attached are no news to it, and while a
\* snapshot is applied nothing is received that is live.
Stale ==
  /\ attempt \in {"answered", "connected"} =>
       Pending \cup ToSet(revups) \cup ToSet(held) \subseteq Covered(answer.gwc) \cup Covered(time)
  /\ Joined => Pending \subseteq Covered(answer.gwc)
  /\ Applying => source # "live"

\* A new clone that has a time, but no data yet
Unfilled ==
  /\ newClone /\ data = {}
  /\ source = "never" \/ Applying
  /\ Pending \subseteq Covered(time)

\* The data shows what the saved time covers.
Shown ==
  /\ IF attempt = "cleared" THEN data = {} ELSE data = Covered(disk) \/ Unfilled
  /\ answer.kind = "snapshot" => answer.data = Covered(answer.gwc)

\* The journal has each operation once, and what is had but not by b is in it.
Journalled ==
  /\ IsInjective(journal)
  /\ ToSet(journal) \subseteq Covered(disk)
  /\ Covered(disk) \subseteq Covered(BHas) \cup ToSet(journal)

\* What is kept together by every step, and what all else rests on
Whole ==
  /\ Typed /\ Logs /\ Known /\ Own /\ Collaborator /\ Control /\ Times /\ Stale /\ Shown /\ Journalled

\* No operation comes without the one before.
Gapless(t, s) ==
  \A i \in DOMAIN s :
    \/ s[i].n <= t[s[i].p] + 1
    \/ \E k \in 1 .. i - 1 : s[k] = [p |-> s[i].p, n |-> s[i].n - 1]

\* When output is not paused, or is about to go on, the last own operation is sent.
LastSent ==
  \/ Len(log["me"]) <= BHas["me"]
  \/ [p |-> "me", n |-> Len(log["me"])] \in ToSet(toB["me"] \o out)

ToBeSent ==
  \/ opps = 0 /\ remote /\ retries = 0
  \/ opps = 1 /\ attempt \in {"connected", "attached", "cleared", "inserted"}

\* What is emitted, and what could be, has no gaps.
Streams ==
  /\ ~ bMissed
  /\ Gapless(BHas, journal)
  /\ Gapless(BHas, toB["me"] \o out)
  /\ opps = 0 => out = <<>>
  /\ ToBeSent => LastSent

\* What the author of an operation had seen
Prior(l, op) == Covered(l[op.p][op.n])

\* A journal, or a time, is in causal order.
Ordered ==
  \A i \in DOMAIN bJournal : Prior(log, bJournal[i]) \subseteq {bJournal[k] : k \in 1 .. i - 1}

Closed(t, l) == \A op \in Covered(t) : Prior(l, op) \subseteq Covered(t)

\* With a sequence of operations, whoever has a time comes to have another one, and
\* has what comes before an operation that is new to it by the turn of that.
Brings(s, t, now, l) ==
  /\ Covered(t) \subseteq Covered(now) \cup ToSet(s)
  /\ \A i \in DOMAIN s : s[i] \in Covered(t) \ Covered(now) =>
       Prior(l, s[i]) \subseteq Covered(now) \cup {s[k] : k \in 1 .. i - 1}

FirstOps(msgs, k) == [i \in 1 .. k |-> msgs[i].op]

Ops(msgs) == FirstOps(msgs, Len(msgs))

ToldBy(s) == Brings(s, told, time, log)

Brought(s) == ToldBy(s) \/ (taking # <<>> /\ ToldBy(<<taking[1].op>> \o s))

NoMark(msgs, mark) == \A i \in DOMAIN msgs : msgs[i].mark # mark

\* An answer, and what was told by the one that is attached, are in causal order.
Answered ==
  /\ Ordered
  /\ AtMost(told, Written) /\ Closed(told, log) /\ Closed(answer.gwc, log)
  /\ attempt \in {"answered", "connected"} /\ answer.kind = "revup" =>
       Brings(answer.updates, answer.gwc, time, log)

\* No attempt is under way that could be told something else before the last rev-up is
\* delivered.  While there are rev-ups to come, only the last message is marked.
Marked ==
  /\ attempt \in {"asking", "answered", "connected"} \/ source = "revups" =>
       NoMark(buffer, "due") /\ NoMark(queue, "due") /\ NoMark(taking, "due")
  /\ source = "revups" =>
       /\ \A i \in DOMAIN queue : queue[i].mark = "last" <=> i = Len(queue)
       /\ queue # <<>> => NoMark(taking, "last") /\ NoMark(buffer, "last")
       /\ taking # <<>> /\ taking[1].mark = "last" => NoMark(buffer, "last")

\* The rev-ups to come, after the messages that are queued and the one that has its
\* turn, bring what was told.
UpdatesArrive ==
  source = "revups" =>
    \/ ToldBy(Ops(queue) \o revups)
    \/ /\ taking # <<>> /\ ToldBy(<<taking[1].op>> \o (Ops(queue) \o revups))
       /\ queue = <<>> => taking[1].mark = "last"

\* What was told is brought by the time that the last rev-up is delivered.
DueArrives ==
  /\ \A k \in DOMAIN queue : queue[k].mark = "due" => Brought(FirstOps(queue, k))
  /\ taking # <<>> /\ taking[1].mark = "due" => Brought(<<>>)
  /\ ~ NoMark(buffer, "due") => Covered(told) \subseteq Covered(time)

\* The last attempt there will be, unless something happens, is at its end, or over.
Settled ==
  /\ remote /\ retries = 0
  /\ opps = 0 \/ (opps = 1 /\ attempt \in {"attached", "cleared", "inserted"})

\* Publications on their way, and with them all that may yet be applied
Coming == ToSet(toMe["b"]) \cup ToSet(toMe["c"])

Underway == Coming \cup ToSet(held) \cup ToSet(revups) \cup Pending

\* With what comes by itself, an answer brings everything, and when it is attached,
\* everything is underway.
AnswerComplete ==
  remote /\ opps = 1 /\ attempt \in {"answered", "connected"} =>
    Covered(Written) \subseteq Covered(answer.gwc) \cup Covered(time) \cup Coming

SettledComplete ==
  Settled => source # "never" /\ Covered(Written) \subseteq Covered(time) \cup Underway

Complete == AnswerComplete /\ SettledComplete

-----------------------------------------------------------------------------
(* Numbers and sequences *)

\* Induction, on the set of the numbers that have a property
LEMMA NumbersByInduction ==
  ASSUME NEW S \in SUBSET Nat, 0 \in S, \A n \in S : n + 1 \in S
  PROVE  S = Nat
<1> SUFFICES ASSUME Nat \ S # {} PROVE FALSE
  OBVIOUS
<1>1. PICK m \in Nat \ S : \A n \in Nat \ S : <<n, m>> \notin OpToRel(<, Nat)
  BY NatLessThanWellFounded, WFMin
<1>2. m # 0 /\ m - 1 \in Nat /\ m - 1 < m
  OBVIOUS
<1>3. m - 1 \in S
  BY <1>1, <1>2 DEF OpToRel
<1>4. (m - 1) + 1 \in S
  BY <1>3
<1>5. (m - 1) + 1 = m
  OBVIOUS
<1> QED
  BY <1>1, <1>4, <1>5

\* The least and the greatest of a set
LEMMA MinIsFirst ==
  ASSUME NEW S \in SUBSET Nat, S # {}
  PROVE  Min(S) \in S /\ \A n \in S : Min(S) <= n
<1>1. PICK m \in S : \A n \in S : <<n, m>> \notin OpToRel(<, Nat)
  BY NatLessThanWellFounded, WFMin
<1>2. \A n \in S : ~(n < m)
  BY <1>1 DEF OpToRel
<1>3. \A n \in S : m <= n
  BY <1>2
<1>4. \E x \in S : \A y \in S : x =< y
  BY <1>3
<1> QED
  BY <1>4 DEF Min

\* The greatest of a finite set of numbers is in it, and none is greater.
LEMMA MaxIsGreatest ==
  ASSUME NEW S \in SUBSET Nat, S # {}, NEW b \in Nat, \A n \in S : n <= b
  PROVE  Max(S) \in S /\ \A n \in S : n <= Max(S)
<1> DEFINE Above == {b - n : n \in S}
<1>1. Above \in SUBSET Nat /\ Above # {}
  <2>1. \A n \in S : b - n \in Nat
    OBVIOUS
  <2> QED
    BY <2>1
<1>2. Min(Above) \in Above /\ \A n \in Above : Min(Above) <= n
  BY <1>1, MinIsFirst
<1>3. PICK m \in S : Min(Above) = b - m
  BY <1>2
<1>4. \A n \in S : n <= m
  <2> TAKE n \in S
  <2>1. b - m <= b - n
    BY <1>2, <1>3
  <2>2. n \in Nat /\ m \in Nat
    OBVIOUS
  <2> QED
    BY <2>1, <2>2
<1>5. \E x \in S : \A y \in S : x >= y
  BY <1>4
<1> QED
  BY <1>5 DEF Max

\* The elements of sequences
LEMMA Elements ==
  ASSUME NEW S, NEW s \in Seq(S)
  PROVE  /\ Len(s) \in Nat /\ DOMAIN s = 1 .. Len(s)
         /\ \A i \in DOMAIN s : s[i] \in S /\ s[i] \in ToSet(s)
         /\ \A x \in ToSet(s) : \E i \in DOMAIN s : x = s[i]
         /\ ToSet(s) \in SUBSET S
         /\ (s = <<>> <=> ToSet(s) = {}) /\ (s = <<>> <=> Len(s) = 0)
  BY LenProperties, EmptySeq DEF ToSet

\* The empty sequence has no elements, and is a sequence of anything.
LEMMA NoElements == ToSet(<<>>) = {} /\ \A S : <<>> \in Seq(S)
  BY EmptySeq DEF ToSet

\* The elements of a sequence that one more is appended to
LEMMA ElementsAppended ==
  ASSUME NEW S, NEW s \in Seq(S), NEW x \in S
  PROVE  /\ Append(s, x) \in Seq(S) /\ Len(Append(s, x)) = Len(s) + 1
         /\ \A i \in 1 .. Len(s) : Append(s, x)[i] = s[i]
         /\ Append(s, x)[Len(s) + 1] = x
         /\ ToSet(Append(s, x)) = ToSet(s) \cup {x}
         /\ Append(s, x) # <<>>
<1>1. /\ Append(s, x) \in Seq(S) /\ Len(Append(s, x)) = Len(s) + 1
      /\ \A i \in 1 .. Len(s) : Append(s, x)[i] = s[i]
      /\ Append(s, x)[Len(s) + 1] = x
      /\ DOMAIN Append(s, x) = 1 .. Len(s) + 1
  BY AppendProperties, LenProperties
<1>2. Len(s) \in Nat /\ DOMAIN s = 1 .. Len(s)
  BY LenProperties
<1> DEFINE a == Append(s, x)
<1> HIDE DEF a
<1>3. ToSet(a) = ToSet(s) \cup {x}
  BY <1>1, <1>2 DEF ToSet, a
<1>4. a # <<>>
  <2>1. Len(<<>>) = 0 /\ Len(a) # 0
    BY <1>1, <1>2 DEF a
  <2> QED
    BY <2>1
<1> QED
  BY <1>1, <1>3, <1>4 DEF a

\* The elements of two sequences that are joined
LEMMA ElementsJoined ==
  ASSUME NEW S, NEW s \in Seq(S), NEW u \in Seq(S)
  PROVE  /\ s \o u \in Seq(S) /\ Len(s \o u) = Len(s) + Len(u)
         /\ DOMAIN (s \o u) = 1 .. Len(s) + Len(u)
         /\ \A i \in 1 .. Len(s) : (s \o u)[i] = s[i]
         /\ \A i \in 1 .. Len(u) : (s \o u)[Len(s) + i] = u[i]
         /\ ToSet(s \o u) = ToSet(s) \cup ToSet(u)
<1>1. /\ s \o u \in Seq(S) /\ Len(s \o u) = Len(s) + Len(u)
      /\ \A i \in 1 .. Len(s) + Len(u) : (s \o u)[i] = IF i <= Len(s) THEN s[i] ELSE u[i - Len(s)]
  BY ConcatProperties
<1>2. /\ Len(s) \in Nat /\ DOMAIN s = 1 .. Len(s) /\ Len(u) \in Nat /\ DOMAIN u = 1 .. Len(u)
      /\ DOMAIN (s \o u) = 1 .. Len(s) + Len(u)
  BY <1>1, LenProperties
<1> DEFINE a == s \o u
           n == Len(s)
           m == Len(u)
<1>3. /\ DOMAIN a = 1 .. n + m /\ n \in Nat /\ m \in Nat /\ DOMAIN s = 1 .. n /\ DOMAIN u = 1 .. m
      /\ \A i \in 1 .. n + m : a[i] = IF i <= n THEN s[i] ELSE u[i - n]
  BY <1>1, <1>2
<1> HIDE DEF a, n, m
<1>4. \A i \in 1 .. n : a[i] = s[i]
  BY <1>3
<1>5. \A i \in 1 .. m : a[n + i] = u[i]
  <2> TAKE i \in 1 .. m
  <2>1. n + i \in 1 .. n + m /\ ~(n + i <= n) /\ (n + i) - n = i
    BY <1>3
  <2> QED
    BY <1>3, <2>1
<1>6. ToSet(a) \subseteq ToSet(s) \cup ToSet(u)
  <2> SUFFICES ASSUME NEW i \in 1 .. n + m PROVE a[i] \in ToSet(s) \cup ToSet(u)
    BY <1>3 DEF ToSet
  <2>1. i <= n => i \in 1 .. n
    OBVIOUS
  <2>2. ~(i <= n) => i - n \in 1 .. m
    BY <1>3
  <2> QED
    BY <1>3, <2>1, <2>2 DEF ToSet
<1>7. ToSet(s) \cup ToSet(u) \subseteq ToSet(a)
  <2>1. \A i \in 1 .. n : i \in 1 .. n + m
    BY <1>3
  <2>2. \A i \in 1 .. m : n + i \in 1 .. n + m
    BY <1>3
  <2>3. \A i \in 1 .. n : s[i] \in ToSet(a)
    BY <1>3, <1>4, <2>1 DEF ToSet
  <2>4. \A i \in 1 .. m : u[i] \in ToSet(a)
    BY <1>3, <1>5, <2>2 DEF ToSet
  <2> QED
    BY <1>3, <2>3, <2>4 DEF ToSet
<1> QED
  BY <1>1, <1>2, <1>4, <1>5, <1>6, <1>7 DEF a, n, m

\* The elements of a sequence, and of what is left when the first is taken
LEMMA ElementsTaken ==
  ASSUME NEW S, NEW s \in Seq(S), s # <<>>
  PROVE  /\ Head(s) \in S /\ Tail(s) \in Seq(S)
         /\ Len(s) \in Nat /\ Len(s) > 0 /\ Len(Tail(s)) = Len(s) - 1
         /\ Head(s) = s[1] /\ 1 \in DOMAIN s
         /\ \A i \in 1 .. Len(s) - 1 : Tail(s)[i] = s[i + 1]
         /\ ToSet(s) = ToSet(Tail(s)) \cup {Head(s)}
<1>1. /\ Head(s) \in S /\ Tail(s) \in Seq(S) /\ Head(s) = s[1] /\ Len(Tail(s)) = Len(s) - 1
      /\ \A i \in 1 .. Len(Tail(s)) : Tail(s)[i] = s[i + 1]
  BY HeadTailProperties, LenProperties
<1>2. /\ Len(s) \in Nat /\ DOMAIN s = 1 .. Len(s) /\ Len(s) > 0
      /\ DOMAIN Tail(s) = 1 .. Len(s) - 1
  BY <1>1, LenProperties, EmptySeq
<1> DEFINE a == Tail(s)
           n == Len(s)
<1> HIDE DEF a, n
<1>3. /\ n \in Nat /\ n > 0 /\ DOMAIN s = 1 .. n /\ DOMAIN a = 1 .. n - 1
      /\ \A i \in 1 .. n - 1 : a[i] = s[i + 1]
  BY <1>1, <1>2 DEF a, n
<1>4. ToSet(s) \subseteq ToSet(a) \cup {s[1]}
  <2> SUFFICES ASSUME NEW i \in 1 .. n PROVE s[i] \in ToSet(a) \cup {s[1]}
    BY <1>3 DEF ToSet
  <2>1. i # 1 => i - 1 \in 1 .. n - 1 /\ (i - 1) + 1 = i
    BY <1>3
  <2> QED
    BY <1>3, <2>1 DEF ToSet
<1>5. ToSet(a) \subseteq ToSet(s)
  <2>1. \A i \in 1 .. n - 1 : i + 1 \in 1 .. n
    BY <1>3
  <2> QED
    BY <1>3, <2>1 DEF ToSet
<1>6. ToSet(s) = ToSet(a) \cup {s[1]}
  <2>1. 1 \in DOMAIN s
    BY <1>3
  <2>2. s[1] \in ToSet(s)
    BY <2>1 DEF ToSet
  <2> QED
    BY <1>4, <1>5, <2>2
<1> QED
  BY <1>1, <1>2, <1>3, <1>6 DEF a, n

-----------------------------------------------------------------------------
(* Clocks and journals *)

\* The time at which nothing is covered
LEMMA ZeroIsClock == Zero \in Clock /\ \A p \in Writer : Zero[p] = 0
  BY DEF Zero, Clock

\* What a time covers
LEMMA CoveredMembers ==
  ASSUME NEW t \in Clock
  PROVE  /\ Covered(t) \in SUBSET Op
         /\ \A op : op \in Covered(t) <=> op \in Op /\ op.n <= t[op.p]
         /\ \A p \in Writer, n \in Nat \ {0} : [p |-> p, n |-> n] \in Covered(t) <=> n <= t[p]
<1>1. \A p \in Writer : t[p] \in Nat
  BY DEF Clock
<1>2. \A op : op \in Covered(t) => op \in Op /\ op.n <= t[op.p]
  <2> SUFFICES ASSUME NEW p \in Writer, NEW n \in 1 .. t[p]
               PROVE  LET op == [p |-> p, n |-> n] IN op \in Op /\ op.n <= t[op.p]
    BY DEF Covered
  <2> QED
    BY <1>1 DEF Op
<1>3. \A op : op \in Op /\ op.n <= t[op.p] => op \in Covered(t)
  <2> SUFFICES ASSUME NEW op \in Op, op.n <= t[op.p] PROVE op \in Covered(t)
    OBVIOUS
  <2>1. op.p \in Writer /\ op.n \in 1 .. t[op.p] /\ op = [p |-> op.p, n |-> op.n]
    BY <1>1 DEF Op
  <2> QED
    BY <2>1 DEF Covered
<1>4. \A p \in Writer, n \in Nat \ {0} : [p |-> p, n |-> n] \in Op
  BY DEF Op
<1> QED
  BY <1>2, <1>3, <1>4

\* To cover more is to be later.
LEMMA CoveredOrder ==
  ASSUME NEW s \in Clock, NEW t \in Clock
  PROVE  /\ AtMost(s, t) <=> Covered(s) \subseteq Covered(t)
         /\ s = t <=> Covered(s) = Covered(t)
<1>1. \A p \in Writer : s[p] \in Nat /\ t[p] \in Nat
  BY DEF Clock
<1>2. AtMost(s, t) => Covered(s) \subseteq Covered(t)
  <2> SUFFICES ASSUME AtMost(s, t), NEW op \in Covered(s) PROVE op \in Covered(t)
    OBVIOUS
  <2>1. op \in Op /\ op.n <= s[op.p] /\ op.p \in Writer /\ op.n \in Nat
    BY CoveredMembers DEF Op
  <2>2. op.n <= t[op.p]
    BY <1>1, <2>1 DEF AtMost
  <2> QED
    BY <2>1, <2>2, CoveredMembers
<1>3. ASSUME NEW a \in Clock, NEW b \in Clock, Covered(a) \subseteq Covered(b)
      PROVE  AtMost(a, b)
  <2> SUFFICES ASSUME NEW p \in Writer PROVE a[p] <= b[p]
    BY DEF AtMost
  <2>1. a[p] \in Nat /\ b[p] \in Nat
    BY DEF Clock
  <2>2. a[p] # 0 => [p |-> p, n |-> a[p]] \in Covered(a)
    BY <2>1, CoveredMembers
  <2>3. a[p] # 0 => a[p] <= b[p]
    BY <1>3, <2>1, <2>2, CoveredMembers
  <2> QED
    BY <2>1, <2>3
<1>4. AtMost(s, t) /\ AtMost(t, s) => s = t
  <2>1. AtMost(s, t) /\ AtMost(t, s) => \A p \in Writer : s[p] = t[p]
    BY <1>1 DEF AtMost
  <2> QED
    BY <2>1 DEF Clock
<1> QED
  BY <1>2, <1>3, <1>4

\* The order of times is transitive.
LEMMA AtMostTransitive ==
  ASSUME NEW r \in Clock, NEW s \in Clock, NEW t \in Clock, AtMost(r, s), AtMost(s, t)
  PROVE  AtMost(r, t)
<1>1. \A p \in Writer : r[p] \in Nat /\ s[p] \in Nat /\ t[p] \in Nat
  BY DEF Clock
<1> QED
  BY <1>1 DEF AtMost

\* A time with one more operation of one writer
LEMMA CoveredNext ==
  ASSUME NEW s \in Clock, NEW p \in Writer, NEW n \in Nat \ {0}, n = s[p] + 1
  PROVE  /\ [s EXCEPT ![p] = n] \in Clock
         /\ Covered([s EXCEPT ![p] = n]) = Covered(s) \cup {[p |-> p, n |-> n]}
         /\ AtMost(s, [s EXCEPT ![p] = n])
<1> DEFINE t == [s EXCEPT ![p] = n]
<1>1. t \in Clock /\ t[p] = n /\ (\A q \in Writer \ {p} : t[q] = s[q]) /\ \A q \in Writer : s[q] \in Nat
  BY DEF Clock
<1> HIDE DEF t
<1>2. AtMost(s, t)
  BY <1>1 DEF AtMost
<1>3. [p |-> p, n |-> n] \in Covered(t)
  BY <1>1, CoveredMembers
<1>4. \A op \in Covered(t) : op \in Covered(s) \cup {[p |-> p, n |-> n]}
  <2> TAKE op \in Covered(t)
  <2>1. op \in Op /\ op.n <= t[op.p] /\ op.p \in Writer /\ op.n \in Nat /\ op = [p |-> op.p, n |-> op.n]
    BY <1>1, CoveredMembers DEF Op
  <2>2. CASE op.p = p /\ op.n = n
    BY <2>1, <2>2
  <2>3. CASE op.p # p \/ op.n # n
    <3>1. op.n <= s[op.p]
      BY <1>1, <2>1, <2>3
    <3> QED
      BY <2>1, <3>1, CoveredMembers
  <2> QED
    BY <2>2, <2>3
<1>5. Covered(s) \subseteq Covered(t)
  BY <1>1, <1>2, CoveredOrder
<1> QED
  BY <1>1, <1>2, <1>3, <1>4, <1>5 DEF t

\* The join of two times is later than both.
LEMMA JoinIsLater ==
  ASSUME NEW s \in Clock, NEW t \in Clock
  PROVE  /\ Join(s, t) \in Clock
         /\ AtMost(s, t) => Join(s, t) = t
<1>1. \A p \in Writer : s[p] \in Nat /\ t[p] \in Nat
  BY DEF Clock
<1>2. Join(s, t) \in Clock
  BY <1>1 DEF Join, Clock
<1>3. ASSUME AtMost(s, t) PROVE Join(s, t) = t
  <2>1. \A p \in Writer : Join(s, t)[p] = t[p]
    BY <1>1, <1>3 DEF Join, AtMost
  <2> QED
    BY <1>2, <2>1 DEF Clock
<1> QED
  BY <1>2, <1>3

\* The time of a journal is that of the last operation of each writer.
LEMMA TimeIsOfLast ==
  ASSUME NEW j \in Seq(Op)
  PROVE  /\ TimeOf(j) \in Clock
         /\ \A op \in ToSet(j) : op.n <= TimeOf(j)[op.p]
         /\ \A p \in Writer : TimeOf(j)[p] # 0 => [p |-> p, n |-> TimeOf(j)[p]] \in ToSet(j)
<1>1. /\ Len(j) \in Nat /\ DOMAIN j = 1 .. Len(j)
      /\ \A i \in DOMAIN j : j[i] \in Op /\ j[i] \in ToSet(j)
      /\ \A x \in ToSet(j) : \E i \in DOMAIN j : x = j[i]
  BY Elements
<1> DEFINE Places(p) == {k \in DOMAIN j : j[k].p = p}
           Numbers(p) == {0} \cup {j[i].n : i \in Places(p)}
<1>2. \A i \in DOMAIN j : j[i].n \in Nat \ {0} /\ j[i].p \in Writer /\ j[i] = [p |-> j[i].p, n |-> j[i].n]
  BY <1>1 DEF Op
<1>3. ASSUME NEW p \in Writer
      PROVE  Max(Numbers(p)) \in Numbers(p) /\ \A n \in Numbers(p) : n <= Max(Numbers(p))
  <2>1. Numbers(p) \in SUBSET Nat /\ Numbers(p) # {}
    BY <1>2
  <2>2. \E b \in Nat : \A n \in Numbers(p) : n <= b
    <3> DEFINE Bounded == {m \in Nat : m <= Len(j) => \E b \in Nat : \A i \in 1 .. m : j[i].n <= b}
    <3>1. 0 \in Bounded
      OBVIOUS
    <3>2. \A m \in Bounded : m + 1 \in Bounded
      <4> TAKE m \in Bounded
      <4> SUFFICES ASSUME m + 1 <= Len(j)
                   PROVE  \E b \in Nat : \A i \in 1 .. m + 1 : j[i].n <= b
        OBVIOUS
      <4>1. PICK b \in Nat : \A i \in 1 .. m : j[i].n <= b
        BY <1>1
      <4>2. m + 1 \in DOMAIN j /\ j[m + 1].n \in Nat
        BY <1>1, <1>2
      <4>3. \A i \in 1 .. m + 1 : j[i].n <= b + j[m + 1].n
        <5> TAKE i \in 1 .. m + 1
        <5>1. i \in DOMAIN j /\ j[i].n \in Nat
          BY <1>1, <1>2
        <5>2. i = m + 1 \/ i \in 1 .. m
          OBVIOUS
        <5> QED
          BY <4>1, <4>2, <5>1, <5>2
      <4>4. b + j[m + 1].n \in Nat
        BY <4>2
      <4> QED
        BY <4>3, <4>4
    <3>7. Bounded \in SUBSET Nat
      OBVIOUS
    <3> HIDE DEF Bounded
    <3>8. Bounded = Nat
      BY <3>1, <3>2, <3>7, NumbersByInduction
    <3>3. Len(j) \in Bounded
      BY <1>1, <3>8
    <3>4. PICK b \in Nat : \A i \in 1 .. Len(j) : j[i].n <= b
      BY <1>1, <3>3 DEF Bounded
    <3>5. \A n \in Numbers(p) : n <= b
      BY <1>1, <3>4
    <3> QED
      BY <3>5
  <2>3. PICK b \in Nat : \A n \in Numbers(p) : n <= b
    BY <2>2
  <2> HIDE DEF Numbers
  <2> QED
    BY <2>1, <2>3, MaxIsGreatest
<1>4. \A p \in Writer : TimeOf(j)[p] = Max(Numbers(p))
  BY DEF TimeOf
<1>5. TimeOf(j) \in Clock
  <2>1. \A p \in Writer : Max(Numbers(p)) \in Nat
    BY <1>2, <1>3
  <2> QED
    BY <2>1 DEF TimeOf, Clock
<1>6. ASSUME NEW op \in ToSet(j) PROVE op.n <= TimeOf(j)[op.p]
  <2>1. PICK i \in DOMAIN j : op = j[i]
    BY <1>1
  <2>2. op.p \in Writer /\ op.n \in Numbers(op.p)
    BY <1>2, <2>1
  <2> HIDE DEF Numbers
  <2> QED
    BY <1>3, <1>4, <2>2
<1>7. ASSUME NEW p \in Writer, TimeOf(j)[p] # 0
      PROVE  [p |-> p, n |-> TimeOf(j)[p]] \in ToSet(j)
  <2>1. TimeOf(j)[p] \in Numbers(p)
    BY <1>3, <1>4
  <2>2. PICK i \in Places(p) : TimeOf(j)[p] = j[i].n
    BY <1>7, <2>1
  <2> QED
    BY <1>1, <1>2, <2>2
<1> QED
  BY <1>5, <1>6, <1>7

\* A journal that has all that a time covers, and no more, is of that time.
LEMMA TimeIsCovered ==
  ASSUME NEW j \in Seq(Op), NEW t \in Clock, ToSet(j) = Covered(t)
  PROVE  TimeOf(j) = t
<1>1. /\ TimeOf(j) \in Clock
      /\ \A op \in ToSet(j) : op.n <= TimeOf(j)[op.p]
      /\ \A p \in Writer : TimeOf(j)[p] # 0 => [p |-> p, n |-> TimeOf(j)[p]] \in ToSet(j)
  BY TimeIsOfLast
<1> DEFINE u == TimeOf(j)
<1>2. u \in Clock
  BY <1>1
<1> HIDE DEF u
<1>3. AtMost(t, u)
  <2>1. Covered(t) \subseteq Covered(u)
    BY <1>1, <1>2, CoveredMembers DEF u
  <2> QED
    BY <1>2, <2>1, CoveredOrder
<1>4. AtMost(u, t)
  <2> SUFFICES ASSUME NEW p \in Writer PROVE u[p] <= t[p]
    BY DEF AtMost
  <2>1. u[p] \in Nat /\ t[p] \in Nat
    BY <1>2 DEF Clock
  <2>2. u[p] # 0 => [p |-> p, n |-> u[p]] \in Covered(t)
    BY <1>1 DEF u
  <2>3. u[p] # 0 => u[p] <= t[p]
    BY <2>1, <2>2, CoveredMembers
  <2> QED
    BY <2>1, <2>3
<1>5. Covered(t) = Covered(u)
  BY <1>2, <1>3, <1>4, CoveredOrder, ZenonT(30)
<1> QED
  BY <1>2, <1>5, CoveredOrder DEF u

\* The operations of a journal since a time, place by place: the function by which
\* operationsSince is defined
IsFirst(f, j, t, m) ==
  f = [i \in 0 .. m |->
         IF i = 0 THEN <<>>
         ELSE IF j[i].n > t[j[i].p] THEN Append(f[i - 1], j[i]) ELSE f[i - 1]]

\* The function that Since is made of is the one that its definition states.
LEMMA FirstExists ==
  ASSUME NEW j \in Seq(Op), NEW t \in Clock
  PROVE  \A m \in Nat : \E f : IsFirst(f, j, t, m)
<1> DEFINE Fine == {m \in Nat : \E f : IsFirst(f, j, t, m)}
           body(f, i) == IF i = 0 THEN <<>>
                         ELSE IF j[i].n > t[j[i].p] THEN Append(f[i - 1], j[i]) ELSE f[i - 1]
<1>1. 0 \in Fine
  <2>1. IsFirst([i \in 0 .. 0 |-> <<>>], j, t, 0)
    BY DEF IsFirst
  <2> QED
    BY <2>1
<1>2. ASSUME NEW m \in Fine PROVE m + 1 \in Fine
  <2>1. PICK f : IsFirst(f, j, t, m)
    OBVIOUS
  <2> DEFINE g == [i \in 0 .. m + 1 |-> IF i <= m THEN f[i] ELSE body(f, i)]
  <2>2. \A i \in 0 .. m : g[i] = f[i]
    OBVIOUS
  <2>3. \A i \in 0 .. m : f[i] = body(f, i)
    BY <2>1 DEF IsFirst
  <2>4. \A i \in 0 .. m + 1 : g[i] = body(f, i)
    BY <2>2, <2>3
  <2>5. \A i \in 1 .. m + 1 : g[i - 1] = f[i - 1]
    BY <2>2
  <2>6. g = [i \in 0 .. m + 1 |-> g[i]]
    OBVIOUS
  <2> HIDE DEF g
  <2>7. \A i \in 0 .. m + 1 : g[i] = body(g, i)
    BY <2>4, <2>5
  <2>8. IsFirst(g, j, t, m + 1)
    BY <2>6, <2>7 DEF IsFirst
  <2> QED
    BY <2>8
<1>3. Fine \in SUBSET Nat
  OBVIOUS
<1> HIDE DEF Fine
<1>4. Fine = Nat
  BY <1>1, <1>2, <1>3, NumbersByInduction
<1> QED
  BY <1>4 DEF Fine

\* It has the operations that the time does not cover, in the same order.
Picked(s, j, t, m) ==
  /\ s \in Seq(Op)
  /\ ToSet(s) = {op \in {j[i] : i \in 1 .. m} : op.n > t[op.p]}
  /\ \A i \in DOMAIN s : \E k \in 1 .. m :
       /\ s[i] = j[k]
       /\ \A l \in 1 .. k - 1 : j[l].n > t[j[l].p] => \E h \in 1 .. i - 1 : s[h] = j[l]

\* What a journal has that is new to a time is picked out, each once, and in order.
LEMMA SincePicks ==
  ASSUME NEW j \in Seq(Op), NEW t \in Clock
  PROVE  Picked(Since(j, t), j, t, Len(j))
<1> DEFINE first == CHOOSE f : IsFirst(f, j, t, Len(j))
<1>1. Len(j) \in Nat /\ DOMAIN j = 1 .. Len(j) /\ \A i \in DOMAIN j : j[i] \in Op
  BY Elements
<1>2. IsFirst(first, j, t, Len(j))
  BY <1>1, FirstExists
<1>3. Since(j, t) = first[Len(j)]
  BY DEF Since, IsFirst
<1> HIDE DEF first
<1> DEFINE Fine == {m \in Nat : m <= Len(j) => Picked(first[m], j, t, m)}
<1>4. 0 \in Fine
  <2>1. first[0] = <<>>
    BY <1>1, <1>2 DEF IsFirst
  <2>2. Picked(<<>>, j, t, 0)
    BY NoElements DEF Picked
  <2> QED
    BY <2>1, <2>2
<1>5. ASSUME NEW m \in Fine PROVE m + 1 \in Fine
  <2> SUFFICES ASSUME m + 1 <= Len(j) PROVE Picked(first[m + 1], j, t, m + 1)
    OBVIOUS
  <2> DEFINE s == first[m]
             op == j[m + 1]
             u == first[m + 1]
  <2>1. /\ s \in Seq(Op)
        /\ ToSet(s) = {x \in {j[i] : i \in 1 .. m} : x.n > t[x.p]}
        /\ \A i \in DOMAIN s : \E k \in 1 .. m :
             /\ s[i] = j[k]
             /\ \A l \in 1 .. k - 1 : j[l].n > t[j[l].p] => \E h \in 1 .. i - 1 : s[h] = j[l]
    BY <1>1 DEF Picked
  <2>2. m + 1 \in 1 .. Len(j) /\ m \in Nat /\ op \in Op
    BY <1>1
  <2>3. u = IF op.n > t[op.p] THEN Append(s, op) ELSE s
    <3>1. m + 1 \in 0 .. Len(j) /\ m + 1 # 0 /\ (m + 1) - 1 = m
      BY <2>2
    <3> QED
      BY <1>2, <3>1 DEF IsFirst
  <2>4. {j[i] : i \in 1 .. m + 1} = {j[i] : i \in 1 .. m} \cup {op}
    <3>1. 1 .. m + 1 = 1 .. m \cup {m + 1}
      BY <2>2
    <3> QED
      BY <3>1
  <2> HIDE DEF s, op, u
  <2>5. CASE ~(op.n > t[op.p])
    <3>1. u = s
      BY <2>3, <2>5
    <3>2. \A k \in 1 .. m : k \in 1 .. m + 1
      BY <2>2
    <3>3. ToSet(u) = {x \in {j[i] : i \in 1 .. m + 1} : x.n > t[x.p]}
      BY <2>1, <2>4, <2>5, <3>1
    <3>4. Picked(u, j, t, m + 1)
      BY <2>1, <3>1, <3>2, <3>3 DEF Picked
    <3> QED
      BY <3>4 DEF u
  <2>6. CASE op.n > t[op.p]
    <3>1. /\ u \in Seq(Op) /\ Len(u) = Len(s) + 1 /\ Len(s) \in Nat
          /\ DOMAIN s = 1 .. Len(s) /\ DOMAIN u = 1 .. Len(u)
          /\ \A i \in 1 .. Len(s) : u[i] = s[i]
          /\ u[Len(s) + 1] = op
          /\ ToSet(u) = ToSet(s) \cup {op}
      BY <2>1, <2>2, <2>3, <2>6, ElementsAppended, Elements
    <3>2. ToSet(u) = {x \in {j[i] : i \in 1 .. m + 1} : x.n > t[x.p]}
      BY <2>1, <2>4, <2>6, <3>1
    <3>3. ASSUME NEW i \in DOMAIN u
          PROVE  \E k \in 1 .. m + 1 :
                   /\ u[i] = j[k]
                   /\ \A l \in 1 .. k - 1 : j[l].n > t[j[l].p] => \E h \in 1 .. i - 1 : u[h] = j[l]
      <4>1. CASE i \in 1 .. Len(s)
        <5>1. PICK k \in 1 .. m :
                /\ s[i] = j[k]
                /\ \A l \in 1 .. k - 1 : j[l].n > t[j[l].p] => \E h \in 1 .. i - 1 : s[h] = j[l]
          BY <2>1, <3>1, <4>1
        <5>2. k \in 1 .. m + 1 /\ u[i] = j[k]
          BY <2>2, <3>1, <4>1, <5>1
        <5>3. \A h \in 1 .. i - 1 : u[h] = s[h]
          BY <3>1, <4>1
        <5> QED
          BY <5>1, <5>2, <5>3
      <4>2. CASE i = Len(s) + 1
        <5>1. u[i] = j[m + 1] /\ m + 1 \in 1 .. m + 1
          BY <2>2, <3>1, <4>2 DEF op
        <5>2. ASSUME NEW l \in 1 .. m, j[l].n > t[j[l].p]
              PROVE  \E h \in 1 .. i - 1 : u[h] = j[l]
          <6>1. j[l] \in ToSet(s)
            BY <2>1, <5>2
          <6>2. PICK h \in DOMAIN s : s[h] = j[l]
            BY <6>1 DEF ToSet
          <6>3. h \in 1 .. i - 1 /\ u[h] = s[h]
            BY <3>1, <4>2
          <6> QED
            BY <6>2, <6>3
        <5>3. (m + 1) - 1 = m
          BY <2>2
        <5> QED
          BY <5>1, <5>2, <5>3
      <4> QED
        BY <3>1, <4>1, <4>2
    <3>4. Picked(u, j, t, m + 1)
      BY <3>1, <3>2, <3>3 DEF Picked
    <3> QED
      BY <3>4 DEF u
  <2> QED
    BY <2>5, <2>6
<1>6. Fine \in SUBSET Nat
  OBVIOUS
<1> HIDE DEF Fine
<1>7. Fine = Nat
  BY <1>4, <1>5, <1>6, NumbersByInduction
<1> QED
  BY <1>1, <1>3, <1>7 DEF Fine

-----------------------------------------------------------------------------
(* Delivery *)

Delivery == [time : Clock, buffer : Seq(Msg), applied : Seq(Op), due : BOOLEAN, disordered : BOOLEAN]

\* What has come of the delivery of messages: those that were handled are covered or
\* still in the buffer, and the operations that are done are covered.
Sound(r, msgs, handled, done) ==
  /\ r \in Delivery
  /\ Covered(r.time) = Covered(time) \cup ToSet(r.applied)
  /\ ToSet(r.applied) \cap Covered(time) = {} /\ IsInjective(r.applied)
  /\ ToSet(r.applied) \subseteq {m.op : m \in msgs}
  /\ ToSet(r.buffer) \subseteq ToSet(buffer)
  /\ \A m \in handled : m \in ToSet(r.buffer) \/ m.op \in Covered(r.time) \/ r.disordered
  /\ \A op \in done : op \in Covered(r.time) \/ r.disordered
  /\ r.due => \E m \in msgs : m.mark = "due"
  /\ Gapless(time, r.applied)

\* One operation more is the next of its writer.
LEMMA GaplessAppended ==
  ASSUME NEW t \in Clock, NEW s \in Seq(Op), Gapless(t, s), NEW op \in Op,
         op.n <= t[op.p] + 1 \/ [p |-> op.p, n |-> op.n - 1] \in ToSet(s)
  PROVE  Gapless(t, Append(s, op))
<1> DEFINE u == Append(s, op)
<1>1. /\ u \in Seq(Op) /\ Len(u) = Len(s) + 1 /\ Len(s) \in Nat
      /\ DOMAIN s = 1 .. Len(s) /\ DOMAIN u = 1 .. Len(u)
      /\ \A i \in 1 .. Len(s) : u[i] = s[i]
      /\ u[Len(s) + 1] = op
  BY ElementsAppended, Elements
<1> HIDE DEF u
<1>2. ASSUME NEW i \in DOMAIN u
      PROVE  \/ u[i].n <= t[u[i].p] + 1
             \/ \E k \in 1 .. i - 1 : u[k] = [p |-> u[i].p, n |-> u[i].n - 1]
  <2>1. CASE i \in 1 .. Len(s)
    <3>1. u[i] = s[i] /\ i \in DOMAIN s /\ \A k \in 1 .. i - 1 : u[k] = s[k]
      BY <1>1, <2>1
    <3> QED
      BY <3>1 DEF Gapless
  <2>2. CASE i = Len(s) + 1
    <3>1. u[i] = op
      BY <1>1, <2>2
    <3>2. ASSUME [p |-> op.p, n |-> op.n - 1] \in ToSet(s)
          PROVE  \E k \in 1 .. i - 1 : u[k] = [p |-> op.p, n |-> op.n - 1]
      <4>1. PICK k \in DOMAIN s : s[k] = [p |-> op.p, n |-> op.n - 1]
        BY <3>2 DEF ToSet
      <4>2. k \in 1 .. i - 1 /\ u[k] = s[k]
        BY <1>1, <2>2
      <4> QED
        BY <4>1, <4>2
    <3> QED
      BY <3>1, <3>2
  <2> QED
    BY <1>1, <2>1, <2>2
<1> QED
  BY <1>2 DEF Gapless, u

\* Every operation that a time covers has all of its writer's before it covered.
LEMMA CoveredBefore ==
  ASSUME NEW t \in Clock, NEW op \in Op, op.n <= t[op.p] + 1, op.n > 1
  PROVE  [p |-> op.p, n |-> op.n - 1] \in Covered(t)
<1>1. op.p \in Writer /\ op.n \in Nat /\ op.n - 1 \in Nat \ {0} /\ t[op.p] \in Nat
  BY DEF Op, Clock
<1>2. op.n - 1 <= t[op.p]
  BY <1>1
<1> QED
  BY <1>1, <1>2, CoveredMembers

\* To deliver a message, and what waits for it, keeps what is sound of the state so far
\* (MessageService.deliver).
LEMMA DeliverSound ==
  ASSUME NEW msgs \in SUBSET Msg, NEW handled, NEW done, NEW r, Sound(r, msgs, handled, done),
         time \in Clock, NEW m \in msgs
  PROVE  Sound(Deliver(r, m), msgs, handled \cup {m}, done \cup {m.op})
<1> DEFINE op == m.op
           seen == r.time[op.p]
           d == Deliver(r, m)
<1>1. op \in Op /\ op.p \in Writer /\ op.n \in Nat \ {0} /\ op = [p |-> op.p, n |-> op.n]
      /\ r \in Delivery /\ r.time \in Clock /\ seen \in Nat /\ r.applied \in Seq(Op)
  BY DEF Msg, Op, Sound, Delivery, Clock
<1>2. CASE op.n - 1 > seen
  <2>1. d = [r EXCEPT !.disordered = TRUE]
    BY <1>2 DEF Deliver
  <2> HIDE DEF d
  <2>2. /\ d \in Delivery /\ d.time = r.time /\ d.applied = r.applied /\ d.buffer = r.buffer
        /\ d.due = r.due /\ d.disordered
    BY <1>1, <2>1 DEF Delivery
  <2>3. Sound(d, msgs, handled \cup {m}, done \cup {m.op})
    BY <2>2 DEF Sound
  <2> QED
    BY <2>3 DEF d
<1>3. CASE ~(op.n - 1 > seen) /\ op.n <= seen
  <2>0. ~(seen < op.n)
    BY <1>1, <1>3
  <2>1. d = [r EXCEPT !.time[op.p] = seen, !.applied = r.applied,
                      !.due = r.due \/ m.mark = "due"]
    BY <1>3, <2>0 DEF Deliver
  <2>2. [r.time EXCEPT ![op.p] = seen] = r.time
    BY <1>1 DEF Clock
  <2> HIDE DEF d
  <2>3. /\ d \in Delivery /\ d.time = r.time /\ d.applied = r.applied /\ d.buffer = r.buffer
        /\ d.due = (r.due \/ m.mark = "due") /\ d.disordered = r.disordered
    BY <1>1, <2>1, <2>2 DEF Delivery
  <2>4. op \in Covered(d.time)
    BY <1>1, <1>3, <2>3, CoveredMembers
  <2>5. Sound(d, msgs, handled \cup {m}, done \cup {m.op})
    BY <2>3, <2>4 DEF Sound
  <2> QED
    BY <2>5 DEF d
<1>4. CASE ~(op.n - 1 > seen) /\ ~(op.n <= seen)
  <2>0. op.n = seen + 1 /\ seen < op.n
    BY <1>1, <1>4
  <2>1. d = [r EXCEPT !.time[op.p] = op.n, !.applied = Append(r.applied, op),
                      !.due = r.due \/ m.mark = "due"]
    BY <1>1, <1>4, <2>0 DEF Deliver
  <2> HIDE DEF d
  <2>2. /\ [r.time EXCEPT ![op.p] = op.n] \in Clock
        /\ Covered([r.time EXCEPT ![op.p] = op.n]) = Covered(r.time) \cup {op}
    BY <1>1, <2>0, CoveredNext
  <2>3. /\ Append(r.applied, op) \in Seq(Op) /\ ToSet(Append(r.applied, op)) = ToSet(r.applied) \cup {op}
        /\ Len(r.applied) \in Nat /\ DOMAIN r.applied = 1 .. Len(r.applied)
        /\ DOMAIN Append(r.applied, op) = 1 .. Len(r.applied) + 1
        /\ \A i \in 1 .. Len(r.applied) : Append(r.applied, op)[i] = r.applied[i]
        /\ Append(r.applied, op)[Len(r.applied) + 1] = op
    BY <1>1, ElementsAppended, Elements
  <2>4. /\ d \in Delivery /\ d.time = [r.time EXCEPT ![op.p] = op.n]
        /\ d.applied = Append(r.applied, op) /\ d.buffer = r.buffer
        /\ d.due = (r.due \/ m.mark = "due") /\ d.disordered = r.disordered
    BY <1>1, <2>1, <2>2, <2>3 DEF Delivery
  <2>5. op \notin Covered(r.time) /\ op \notin ToSet(r.applied) /\ op \notin Covered(time)
    <3>1. op \notin Covered(r.time)
      BY <1>1, <1>4, CoveredMembers
    <3> QED
      BY <3>1 DEF Sound
  <2>6. IsInjective(Append(r.applied, op))
    <3> DEFINE a == r.applied
               b == Append(r.applied, op)
    <3>1. \A i \in 1 .. Len(a) : b[i] = a[i] /\ a[i] # op
      BY <2>3, <2>5 DEF ToSet
    <3>2. \A i, k \in DOMAIN a : a[i] = a[k] => i = k
      BY DEF Sound, IsInjective
    <3>3. b[Len(a) + 1] = op /\ DOMAIN b = 1 .. Len(a) + 1 /\ DOMAIN a = 1 .. Len(a) /\ Len(a) \in Nat
      BY <2>3
    <3> HIDE DEF a, b
    <3>4. \A i, k \in DOMAIN b : b[i] = b[k] => i = k
      BY <3>1, <3>2, <3>3
    <3> QED
      BY <3>4 DEF IsInjective, b
  <2>7. Gapless(time, Append(r.applied, op))
    <3>1. CASE op.n = 1
      <4>1. op.n <= time[op.p] + 1
        BY <1>1, <3>1 DEF Clock
      <4> QED
        BY <1>1, <4>1, GaplessAppended DEF Sound
    <3>2. CASE op.n > 1
      <4> DEFINE before == [p |-> op.p, n |-> op.n - 1]
      <4>1. before \in Covered(r.time)
        BY <1>1, <2>0, <3>2, CoveredBefore
      <4>2. before \in Covered(time) \/ before \in ToSet(r.applied)
        BY <4>1 DEF Sound
      <4>3. before \in Covered(time) => op.n <= time[op.p] + 1
        <5>1. op.n - 1 \in Nat \ {0} /\ time[op.p] \in Nat
          BY <1>1, <3>2 DEF Clock
        <5>2. before \in Covered(time) => op.n - 1 <= time[op.p]
          BY <1>1, <5>1, CoveredMembers
        <5> QED
          BY <1>1, <5>1, <5>2
      <4> QED
        BY <1>1, <4>2, <4>3, GaplessAppended DEF Sound
    <3> QED
      BY <1>1, <3>1, <3>2
  <2>8. op \in {x.op : x \in msgs}
    OBVIOUS
  <2>9. Sound(d, msgs, handled \cup {m}, done \cup {m.op})
    <3>1. Covered(d.time) = Covered(time) \cup ToSet(d.applied)
      BY <2>2, <2>3, <2>4 DEF Sound
    <3>2. ToSet(d.applied) \cap Covered(time) = {} /\ IsInjective(d.applied)
      BY <2>3, <2>4, <2>5, <2>6 DEF Sound
    <3>3. ToSet(d.applied) \subseteq {x.op : x \in msgs}
      BY <2>3, <2>4, <2>8 DEF Sound
    <3>4. \A x \in handled \cup {m} : x \in ToSet(d.buffer) \/ x.op \in Covered(d.time) \/ d.disordered
      BY <2>2, <2>4 DEF Sound
    <3>5. \A x \in done \cup {op} : x \in Covered(d.time) \/ d.disordered
      BY <2>2, <2>4 DEF Sound
    <3> QED
      BY <2>4, <2>7, <3>1, <3>2, <3>3, <3>4, <3>5 DEF Sound
  <2> QED
    BY <2>9 DEF d
<1> QED
  BY <1>2, <1>3, <1>4

\* What is left of a sequence when an element is removed
LEMMA RemovedFrom ==
  ASSUME NEW S, NEW q \in Seq(S), NEW i \in DOMAIN q
  PROVE  /\ RemoveAt(q, i) \in Seq(S) /\ Len(q) \in Nat
         /\ Len(RemoveAt(q, i)) = Len(q) - 1
         /\ ToSet(RemoveAt(q, i)) \subseteq ToSet(q)
         /\ \A x \in ToSet(q) : x # q[i] => x \in ToSet(RemoveAt(q, i))
<1> DEFINE n == Len(q)
           a == SubSeq(q, 1, i - 1)
           b == SubSeq(q, i + 1, n)
           r == a \o b
<1>1. n \in Nat /\ DOMAIN q = 1 .. n /\ i \in 1 .. n /\ \A k \in 1 .. n : q[k] \in S
  BY LenProperties
<1> HIDE DEF n
<1>2. /\ a \in Seq(S) /\ Len(a) = i - 1 /\ DOMAIN a = 1 .. i - 1
      /\ \A k \in 1 .. i - 1 : a[k] = q[k]
  <2>1. i - 1 \in Int /\ 1 \in Int /\ \A k \in 1 .. i - 1 : q[k] \in S
    BY <1>1
  <2>2. /\ a \in Seq(S) /\ Len(a) = IF 1 <= i - 1 THEN (i - 1) - 1 + 1 ELSE 0
        /\ \A k \in 1 .. (i - 1) - 1 + 1 : a[k] = q[1 + k - 1]
    BY <2>1, SubSeqProperties
  <2> HIDE DEF a
  <2>3. \A k \in 1 .. i - 1 : k \in 1 .. (i - 1) - 1 + 1 /\ 1 + k - 1 = k
    BY <1>1
  <2> QED
    BY <1>1, <2>2, <2>3, LenProperties
<1>3. /\ b \in Seq(S) /\ Len(b) = n - i /\ DOMAIN b = 1 .. n - i
      /\ \A k \in 1 .. n - i : b[k] = q[i + k]
  <2>1. i + 1 \in Int /\ n \in Int /\ \A k \in i + 1 .. n : q[k] \in S
    BY <1>1
  <2>2. /\ b \in Seq(S) /\ Len(b) = IF i + 1 <= n THEN n - (i + 1) + 1 ELSE 0
        /\ \A k \in 1 .. n - (i + 1) + 1 : b[k] = q[(i + 1) + k - 1]
    BY <2>1, SubSeqProperties
  <2> HIDE DEF b
  <2>3. \A k \in 1 .. n - i : k \in 1 .. n - (i + 1) + 1 /\ (i + 1) + k - 1 = i + k
    BY <1>1
  <2> QED
    BY <1>1, <2>2, <2>3, LenProperties
<1> HIDE DEF a, b
<1>4. r \in Seq(S) /\ Len(r) = (i - 1) + (n - i) /\ ToSet(r) = ToSet(a) \cup ToSet(b)
  BY <1>2, <1>3, ElementsJoined
<1> HIDE DEF r
<1>5. \A x \in ToSet(a) \cup ToSet(b) : x \in ToSet(q)
  <2>1. \A k \in 1 .. i - 1 : k \in 1 .. n
    BY <1>1
  <2>2. \A k \in 1 .. n - i : i + k \in 1 .. n
    BY <1>1
  <2>3. \A k \in 1 .. i - 1 : a[k] \in ToSet(q)
    BY <1>1, <1>2, <2>1 DEF ToSet
  <2>4. \A k \in 1 .. n - i : b[k] \in ToSet(q)
    BY <1>1, <1>3, <2>2 DEF ToSet
  <2> QED
    BY <1>2, <1>3, <2>3, <2>4 DEF ToSet
<1>6. ASSUME NEW x \in ToSet(q), x # q[i] PROVE x \in ToSet(a) \cup ToSet(b)
  <2>1. PICK k \in 1 .. n : x = q[k]
    BY <1>1 DEF ToSet
  <2>2. CASE k < i
    <3>1. k \in 1 .. i - 1
      BY <1>1, <2>2
    <3> QED
      BY <1>2, <2>1, <3>1 DEF ToSet
  <2>3. CASE k > i
    <3>1. k - i \in 1 .. n - i /\ i + (k - i) = k
      BY <1>1, <2>3
    <3> QED
      BY <1>3, <2>1, <3>1 DEF ToSet
  <2> QED
    BY <1>1, <1>6, <2>1, <2>2, <2>3
<1>7. (i - 1) + (n - i) = n - 1
  BY <1>1
<1>8. RemoveAt(q, i) = r
  BY DEF RemoveAt, r, a, b, n
<1> QED
  BY <1>1, <1>4, <1>5, <1>6, <1>7, <1>8 DEF n

\* To reconsider one message of the buffer does, too (MessageService.reconsider).
LEMMA ReconsiderSound ==
  ASSUME NEW msgs \in SUBSET Msg, NEW handled, NEW done, NEW r, Sound(r, msgs, handled, done),
         time \in Clock, ToSet(buffer) \subseteq msgs
  PROVE  Sound(Reconsider(r), msgs, handled, done)
<1> DEFINE ready == {i \in DOMAIN r.buffer : ReadyFor(r.time, r.buffer[i].op)}
           i == Min(ready)
           m == r.buffer[i]
           r0 == [r EXCEPT !.buffer = RemoveAt(r.buffer, i)]
<1>1. CASE r.disordered \/ ready = {}
  <2>1. Reconsider(r) = r
    BY <1>1 DEF Reconsider
  <2> QED
    BY <2>1
<1>2. CASE ~(r.disordered \/ ready = {})
  <2>1. r \in Delivery /\ r.buffer \in Seq(Msg) /\ ToSet(r.buffer) \subseteq ToSet(buffer)
    BY DEF Sound, Delivery
  <2>2. Reconsider(r) = Deliver(r0, m)
    BY <1>2 DEF Reconsider
  <2>3. i \in DOMAIN r.buffer
    <3>1. ready \in SUBSET Nat
      BY <2>1, Elements
    <3> HIDE DEF ready
    <3>2. i \in ready
      BY <1>2, <3>1, MinIsFirst
    <3> QED
      BY <3>2 DEF ready
  <2> HIDE DEF i
  <2>4. m \in ToSet(r.buffer)
    BY <2>1, <2>3, Elements
  <2>5. /\ RemoveAt(r.buffer, i) \in Seq(Msg)
        /\ ToSet(RemoveAt(r.buffer, i)) \subseteq ToSet(r.buffer)
        /\ \A x \in ToSet(r.buffer) : x # m => x \in ToSet(RemoveAt(r.buffer, i))
    BY <2>1, <2>3, RemovedFrom
  <2>6. /\ r0 \in Delivery /\ r0.time = r.time /\ r0.applied = r.applied
        /\ r0.buffer = RemoveAt(r.buffer, i) /\ r0.due = r.due /\ r0.disordered = r.disordered
    BY <2>1, <2>5 DEF Delivery
  <2> HIDE DEF r0
  <2>7. Sound(r0, msgs, handled \ {m}, done)
    BY <2>1, <2>5, <2>6 DEF Sound
  <2>8. m \in msgs
    BY <2>1, <2>4
  <2>9. Sound(Deliver(r0, m), msgs, (handled \ {m}) \cup {m}, done \cup {m.op})
    BY <2>7, <2>8, DeliverSound
  <2>10. Sound(Deliver(r0, m), msgs, handled, done)
    BY <2>9 DEF Sound
  <2> QED
    BY <2>2, <2>10
<1> QED
  BY <1>1, <1>2

\* Delivery, message by message: the function by which Accepted is defined
AsIs == [time |-> time, buffer |-> buffer, applied |-> <<>>, due |-> FALSE, disordered |-> FALSE]

IsAfter(f, msg, m) ==
  f = [k \in 0 .. m |-> IF k = 0 THEN Deliver(AsIs, msg) ELSE Reconsider(f[k - 1])]

\* The function that Accepted is made of is the one that its definition states.
LEMMA AfterExists ==
  ASSUME NEW msg
  PROVE  \A m \in Nat : \E f : IsAfter(f, msg, m)
<1> DEFINE Fine == {m \in Nat : \E f : IsAfter(f, msg, m)}
           body(f, i) == IF i = 0 THEN Deliver(AsIs, msg) ELSE Reconsider(f[i - 1])
<1>1. 0 \in Fine
  <2>1. IsAfter([i \in 0 .. 0 |-> Deliver(AsIs, msg)], msg, 0)
    BY DEF IsAfter
  <2> QED
    BY <2>1
<1>2. ASSUME NEW m \in Fine PROVE m + 1 \in Fine
  <2>1. PICK f : IsAfter(f, msg, m)
    OBVIOUS
  <2> DEFINE g == [i \in 0 .. m + 1 |-> IF i <= m THEN f[i] ELSE body(f, i)]
  <2>2. \A i \in 0 .. m : g[i] = f[i]
    OBVIOUS
  <2>3. \A i \in 0 .. m : f[i] = body(f, i)
    BY <2>1 DEF IsAfter
  <2>4. \A i \in 0 .. m + 1 : g[i] = body(f, i)
    BY <2>2, <2>3
  <2>5. \A i \in 1 .. m + 1 : g[i - 1] = f[i - 1]
    BY <2>2
  <2>6. g = [i \in 0 .. m + 1 |-> g[i]]
    OBVIOUS
  <2> HIDE DEF g
  <2>7. \A i \in 0 .. m + 1 : g[i] = body(g, i)
    BY <2>4, <2>5
  <2>8. IsAfter(g, msg, m + 1)
    BY <2>6, <2>7 DEF IsAfter
  <2> QED
    BY <2>8
<1>3. Fine \in SUBSET Nat
  OBVIOUS
<1> HIDE DEF Fine
<1>4. Fine = Nat
  BY <1>1, <1>2, <1>3, NumbersByInduction
<1> QED
  BY <1>4 DEF Fine

\* A message that is accepted, and those in the buffer that it is waited for by, are
\* applied once each, none without the one before, unless they were already.
LEMMA AcceptedSound ==
  ASSUME Typed, NEW msg \in Msg
  PROVE  /\ Sound(Accepted(msg), ToSet(buffer) \cup {msg}, ToSet(buffer) \cup {msg}, {msg.op})
         /\ ~Accepted(msg).disordered => msg.op \in Covered(Accepted(msg).time)
<1> DEFINE msgs == ToSet(buffer) \cup {msg}
           after == CHOOSE f : IsAfter(f, msg, Len(buffer))
<1>1. /\ buffer \in Seq(Msg) /\ Len(buffer) \in Nat /\ time \in Clock /\ msgs \in SUBSET Msg
      /\ msg \in msgs /\ ToSet(buffer) \subseteq msgs
  BY Elements DEF Typed
<1>2. IsAfter(after, msg, Len(buffer))
  BY <1>1, AfterExists
<1>3. Accepted(msg) = after[Len(buffer)]
  BY DEF Accepted, IsAfter, AsIs
<1> HIDE DEF after, msgs
<1>4. Sound(AsIs, msgs, ToSet(buffer), {})
  <2>1. AsIs \in Delivery
    BY <1>1, NoElements DEF AsIs, Delivery
  <2>2. /\ AsIs.time = time /\ AsIs.applied = <<>> /\ AsIs.buffer = buffer /\ ~AsIs.due
        /\ ToSet(<<>>) = {} /\ IsInjective(<<>>) /\ Gapless(time, <<>>)
    BY NoElements DEF AsIs, IsInjective, Gapless
  <2> QED
    BY <2>1, <2>2 DEF Sound
<1>5. Sound(Deliver(AsIs, msg), msgs, ToSet(buffer) \cup {msg}, {msg.op})
  <2>1. Sound(Deliver(AsIs, msg), msgs, ToSet(buffer) \cup {msg}, {} \cup {msg.op})
    BY <1>1, <1>4, DeliverSound
  <2> QED
    BY <2>1
<1> DEFINE Fine == {k \in Nat : k <= Len(buffer) => Sound(after[k], msgs, ToSet(buffer) \cup {msg}, {msg.op})}
<1>6. 0 \in Fine
  <2>1. after[0] = Deliver(AsIs, msg)
    BY <1>1, <1>2 DEF IsAfter
  <2> QED
    BY <1>5, <2>1
<1>7. ASSUME NEW k \in Fine PROVE k + 1 \in Fine
  <2> SUFFICES ASSUME k + 1 <= Len(buffer)
               PROVE  Sound(after[k + 1], msgs, ToSet(buffer) \cup {msg}, {msg.op})
    OBVIOUS
  <2>1. k + 1 \in 0 .. Len(buffer) /\ k + 1 # 0 /\ (k + 1) - 1 = k /\ k <= Len(buffer)
    BY <1>1
  <2>2. after[k + 1] = Reconsider(after[k])
    BY <1>2, <2>1 DEF IsAfter
  <2>3. Sound(after[k], msgs, ToSet(buffer) \cup {msg}, {msg.op})
    BY <2>1
  <2>4. Sound(Reconsider(after[k]), msgs, ToSet(buffer) \cup {msg}, {msg.op})
    BY <1>1, <2>3, ReconsiderSound
  <2> QED
    BY <2>2, <2>4
<1>8. Fine \in SUBSET Nat
  OBVIOUS
<1> HIDE DEF Fine
<1>9. Fine = Nat
  BY <1>6, <1>7, <1>8, NumbersByInduction
<1>10. Sound(Accepted(msg), msgs, ToSet(buffer) \cup {msg}, {msg.op})
  <2>1. Len(buffer) \in Fine /\ Len(buffer) <= Len(buffer)
    BY <1>1, <1>9
  <2> QED
    BY <1>3, <2>1 DEF Fine
<1>11. Accepted(msg).disordered \/ msg.op \in Covered(Accepted(msg).time)
  BY <1>10 DEF Sound
<1> QED
  BY <1>10, <1>11 DEF msgs

-----------------------------------------------------------------------------
(* Messages *)

\* The operations of messages are those at their places.
LEMMA OpsByPlace ==
  ASSUME NEW s
  PROVE  OpsOf(s) = {s[i].op : i \in DOMAIN s}
<1>1. \A x \in OpsOf(s) : x \in {s[i].op : i \in DOMAIN s}
  <2> TAKE x \in OpsOf(s)
  <2>1. PICK m \in ToSet(s) : x = m.op
    BY DEF OpsOf
  <2>2. PICK i \in DOMAIN s : m = s[i]
    BY DEF ToSet
  <2> QED
    BY <2>1, <2>2
<1>2. \A i \in DOMAIN s : s[i].op \in OpsOf(s)
  <2> TAKE i \in DOMAIN s
  <2>1. s[i] \in ToSet(s)
    BY DEF ToSet
  <2> QED
    BY <2>1 DEF OpsOf
<1> QED
  BY <1>1, <1>2

\* To change marks keeps the operations, and their order.
LEMMA RemarkKeeps ==
  ASSUME NEW msgs \in Seq(Msg), NEW from, NEW to \in Marks
  PROVE  /\ Remark(msgs, from, to) \in Seq(Msg)
         /\ Len(Remark(msgs, from, to)) = Len(msgs) /\ DOMAIN Remark(msgs, from, to) = DOMAIN msgs
         /\ \A i \in DOMAIN msgs :
              /\ Remark(msgs, from, to)[i].op = msgs[i].op
              /\ Remark(msgs, from, to)[i].mark = IF msgs[i].mark = from THEN to ELSE msgs[i].mark
         /\ OpsOf(Remark(msgs, from, to)) = OpsOf(msgs)
         /\ \A k \in 0 .. Len(msgs) : FirstOps(Remark(msgs, from, to), k) = FirstOps(msgs, k)
         /\ Remark(msgs, from, to) = <<>> <=> msgs = <<>>
<1> DEFINE r == Remark(msgs, from, to)
<1>1. Len(msgs) \in Nat /\ DOMAIN msgs = 1 .. Len(msgs) /\ \A i \in DOMAIN msgs : msgs[i] \in Msg
  BY Elements
<1>2. \A i \in DOMAIN msgs : /\ r[i] \in Msg /\ r[i].op = msgs[i].op
                             /\ r[i].mark = IF msgs[i].mark = from THEN to ELSE msgs[i].mark
  BY <1>1 DEF Remark, Msg
<1>3. DOMAIN r = DOMAIN msgs /\ r = [i \in 1 .. Len(msgs) |-> r[i]]
  BY <1>1 DEF Remark
<1> HIDE DEF r
<1>4. r \in Seq(Msg)
  BY <1>1, <1>2, <1>3, IsASeq
<1>5. Len(r) = Len(msgs)
  BY <1>1, <1>3, <1>4, LenProperties
<1>6. OpsOf(r) = OpsOf(msgs)
  <2>1. {r[i].op : i \in DOMAIN msgs} = {msgs[i].op : i \in DOMAIN msgs}
    BY <1>2
  <2> QED
    BY <1>3, <2>1, OpsByPlace
<1>7. \A k \in 0 .. Len(msgs) : FirstOps(r, k) = FirstOps(msgs, k)
  BY <1>1, <1>2 DEF FirstOps
<1>8. r = <<>> <=> msgs = <<>>
  BY <1>1, <1>4, <1>5, Elements
<1> QED
  BY <1>2, <1>3, <1>4, <1>5, <1>6, <1>7, <1>8 DEF r

\* The messages of what is held until the rev-ups end
LEMMA LiveMessages ==
  ASSUME NEW s \in Seq(Op)
  PROVE  /\ Live(s) \in Seq(Msg) /\ Len(Live(s)) = Len(s) /\ OpsOf(Live(s)) = ToSet(s)
         /\ \A i \in DOMAIN Live(s) : Live(s)[i].mark = "none"
<1> DEFINE r == Live(s)
<1>1. Len(s) \in Nat /\ DOMAIN s = 1 .. Len(s) /\ \A i \in DOMAIN s : s[i] \in Op
  BY Elements
<1>2. \A i \in DOMAIN s : r[i] \in Msg /\ r[i].op = s[i] /\ r[i].mark = "none"
  BY <1>1 DEF Live, Message, Msg, Marks
<1>3. DOMAIN r = DOMAIN s /\ r = [i \in 1 .. Len(s) |-> r[i]]
  BY <1>1 DEF Live
<1> HIDE DEF r
<1>4. r \in Seq(Msg)
  BY <1>1, <1>2, <1>3, IsASeq
<1>5. Len(r) = Len(s)
  BY <1>1, <1>3, <1>4, LenProperties
<1>6. OpsOf(r) = ToSet(s)
  <2>1. {r[i].op : i \in DOMAIN s} = {s[i] : i \in DOMAIN s}
    BY <1>2
  <2> QED
    BY <1>3, <2>1, OpsByPlace DEF ToSet
<1> QED
  BY <1>2, <1>3, <1>4, <1>5, <1>6 DEF r

\* The operations of messages are operations.
LEMMA OpsOfMessages ==
  ASSUME NEW s \in Seq(Msg)
  PROVE  /\ OpsOf(s) \in SUBSET Op
         /\ \A i \in DOMAIN s : s[i].op \in OpsOf(s)
         /\ s # <<>> => 1 \in DOMAIN s /\ s[1] \in Msg /\ s[1].op \in OpsOf(s)
<1>1. Len(s) \in Nat /\ DOMAIN s = 1 .. Len(s) /\ ToSet(s) \in SUBSET Msg /\ (s = <<>> <=> Len(s) = 0)
      /\ \A i \in DOMAIN s : s[i] \in Msg /\ s[i] \in ToSet(s)
  BY Elements
<1>2. s # <<>> => 1 \in DOMAIN s
  BY <1>1
<1> QED
  BY <1>1, <1>2 DEF OpsOf, Msg

\* No messages have no operations.
LEMMA NoOps == OpsOf(<<>>) = {}
  BY NoElements DEF OpsOf

\* The operations of messages that are joined
LEMMA OpsOfJoined ==
  ASSUME NEW s \in Seq(Msg), NEW u \in Seq(Msg)
  PROVE  s \o u \in Seq(Msg) /\ OpsOf(s \o u) = OpsOf(s) \cup OpsOf(u)
<1>1. s \o u \in Seq(Msg) /\ ToSet(s \o u) = ToSet(s) \cup ToSet(u)
  BY ElementsJoined
<1> QED
  BY <1>1 DEF OpsOf

\* The operations of messages that one more is appended to
LEMMA OpsOfAppended ==
  ASSUME NEW s \in Seq(Msg), NEW m \in Msg
  PROVE  Append(s, m) \in Seq(Msg) /\ OpsOf(Append(s, m)) = OpsOf(s) \cup {m.op}
<1>1. Append(s, m) \in Seq(Msg) /\ ToSet(Append(s, m)) = ToSet(s) \cup {m}
  BY ElementsAppended
<1> QED
  BY <1>1 DEF OpsOf

\* The operations of messages that the first is taken of
LEMMA OpsOfTaken ==
  ASSUME NEW s \in Seq(Msg), s # <<>>
  PROVE  /\ Head(s) \in Msg /\ Tail(s) \in Seq(Msg) /\ <<Head(s)>> \in Seq(Msg)
         /\ OpsOf(s) = OpsOf(Tail(s)) \cup {Head(s).op} /\ OpsOf(<<Head(s)>>) = {Head(s).op}
<1>1. Head(s) \in Msg /\ Tail(s) \in Seq(Msg) /\ ToSet(s) = ToSet(Tail(s)) \cup {Head(s)}
  BY ElementsTaken
<1>2. <<Head(s)>> \in Seq(Msg) /\ ToSet(<<Head(s)>>) = {Head(s)}
  <2> DEFINE h == Head(s)
  <2>1. h \in Msg
    BY <1>1
  <2> HIDE DEF h
  <2>2. <<h>> \in Seq(Msg) /\ DOMAIN <<h>> = {1} /\ <<h>>[1] = h
    BY <2>1
  <2>3. ToSet(<<h>>) = {h}
    BY <2>2 DEF ToSet
  <2> QED
    BY <2>2, <2>3 DEF h
<1> QED
  BY <1>1, <1>2 DEF OpsOf

-----------------------------------------------------------------------------
(* Types *)

\* The writers, one by one
LEMMA WritersAre == Writer = {"me", "b", "c"}
  BY DEF Writer

\* What is sent when output goes on
LEMMA PublishedTyped ==
  ASSUME Typed, NEW s \in Seq(Op), Published(s)
  PROVE  toB' \in [{"me", "c"} -> Seq(Op)]
<1>1. toB["me"] \o s \in Seq(Op)
  BY ElementsJoined DEF Typed
<1> QED
  BY <1>1 DEF Published, Typed

\* When an attempt is over, what is published, and the answer, are of their types.
LEMMA OverTyped ==
  ASSUME Typed, Over, attempt # "idle" => opps > 0, attempt # "idle"
  PROVE  /\ attempt' = "idle" /\ answer' \in Answer /\ opps' \in Nat /\ out' \in Seq(Op)
         /\ toB' \in [{"me", "c"} -> Seq(Op)]
<1>1. NoAnswer \in Answer
  BY ZeroIsClock, NoElements DEF NoAnswer, Answer
<1>2. opps' \in Nat
  BY DEF Over, Typed
<1>3. out' \in Seq(Op)
  BY NoElements DEF Over, Typed
<1>4. toB' \in [{"me", "c"} -> Seq(Op)]
  <2>1. CASE opps = 1
    BY <2>1, PublishedTyped DEF Over, Typed
  <2>2. CASE opps # 1
    BY <2>2 DEF Over, Typed
  <2> QED
    BY <2>1, <2>2
<1> QED
  BY <1>1, <1>2, <1>3, <1>4 DEF Over

\* When the remotes are detached, what is left of a period is of its type.
LEMMA DetachedTyped ==
  ASSUME Detached
  PROVE  /\ queue' \in Seq(Msg) /\ source' \in {"never", "revups", "live"}
         /\ revups' \in Seq(Op) /\ held' \in Seq(Op)
  BY NoElements DEF Detached

\* Every step keeps the types of the variables.
LEMMA TypedStep ==
  ASSUME Typed, Control, Next
  PROVE  Typed'
<1> USE DEF collaborator, network, database, receiving, deciding
<1>0. /\ BHas \in Clock /\ Zero \in Clock /\ NoAnswer \in Answer /\ <<>> \in Seq(Op) /\ <<>> \in Seq(Msg)
      /\ NotServing \in [open : BOOLEAN, at : Clock, ticked : BOOLEAN, forward : Seq(Op)]
  BY ZeroIsClock, NoElements, TimeIsOfLast DEF Typed, BHas, NoAnswer, Answer, NotServing
<1>1. CASE BWrites
  <2>1. Len(log["b"]) \in Nat
    BY Elements DEF Typed, Writer
  <2>2. [p |-> "b", n |-> Len(log["b"]) + 1] \in Op
    BY <2>1 DEF Op, Writer
  <2>3. /\ Append(log["b"], BHas) \in Seq(Clock)
        /\ Append(bJournal, [p |-> "b", n |-> Len(log["b"]) + 1]) \in Seq(Op)
        /\ Append(toMe.b, [p |-> "b", n |-> Len(log["b"]) + 1]) \in Seq(Op)
    BY <1>0, <2>2, ElementsAppended DEF Typed, Writer
  <2> QED
    BY <1>1, <2>3, ZenonT(30) DEF BWrites, Typed
<1>2. CASE CWrites
  <2>1. Len(log["c"]) \in Nat /\ log["c"] \in Seq(Clock)
    BY Elements DEF Typed, Writer
  <2> DEFINE op == [p |-> "c", n |-> Len(log["c"]) + 1]
             had == IF op.n = 1 THEN 0 ELSE Last(log["c"])["b"]
  <2>2. op \in Op
    BY <2>1 DEF Op, Writer
  <2>3. had \in Nat
    <3>1. op.n # 1 => Last(log["c"]) \in Clock
      BY <2>1, Elements DEF Last
    <3> QED
      BY <3>1 DEF Clock, Writer
  <2>4. /\ \A n \in had .. BHas["b"] : [Zero EXCEPT !["b"] = n, !["c"] = op.n - 1] \in Clock
    <3>1. op.n - 1 \in Nat
      BY <2>1
    <3> HIDE DEF op, had
    <3>2. \A n \in had .. BHas["b"] : n \in Nat
      BY <2>3
    <3> QED
      BY <1>0, <3>1, <3>2 DEF Clock
  <2>5. log' \in [Writer -> Seq(Clock)]
    <3>1. PICK n \in had .. BHas["b"] :
            log' = [log EXCEPT !["c"] = Append(@, [Zero EXCEPT !["b"] = n, !["c"] = op.n - 1])]
      BY <1>2 DEF CWrites
    <3> DEFINE t == [Zero EXCEPT !["b"] = n, !["c"] = op.n - 1]
    <3>2. t \in Clock
      BY <2>4
    <3> HIDE DEF t
    <3>3. Append(log["c"], t) \in Seq(Clock)
      BY <2>1, <3>2, ElementsAppended
    <3>4. log' = [log EXCEPT !["c"] = Append(@, t)]
      BY <3>1 DEF t
    <3> QED
      BY <3>3, <3>4 DEF Typed
  <2>6. Append(toMe.c, op) \in Seq(Op) /\ Append(toB.c, op) \in Seq(Op)
    BY <2>2, ElementsAppended DEF Typed
  <2>7. toMe' \in [{"b", "c"} -> Seq(Op)] /\ toB' \in [{"me", "c"} -> Seq(Op)]
    BY <1>2, <2>6 DEF CWrites, Typed
  <2> QED
    BY <1>2, <2>5, <2>7, SMTT(30) DEF CWrites, Typed
<1>3. CASE Change
  BY <1>0, <1>3 DEF Change, Opportunity, Typed
<1>4. CASE Write
  <2> DEFINE op == [p |-> "me", n |-> Len(log["me"]) + 1]
  <2>1. Len(log["me"]) \in Nat /\ log["me"] \in Seq(Clock)
    BY Elements DEF Typed, Writer
  <2>2. op \in Op /\ op.n \in Nat
    BY <2>1 DEF Op, Writer
  <2>3. /\ Append(log["me"], time) \in Seq(Clock) /\ Append(journal, op) \in Seq(Op)
        /\ Append(out, op) \in Seq(Op) /\ <<op>> \in Seq(Op)
    <3> HIDE DEF op
    <3> QED
      BY <2>1, <2>2, ElementsAppended DEF Typed
  <2>4. time' \in Clock /\ disk' \in Clock /\ data' \in SUBSET Op /\ journal' \in Seq(Op)
        /\ log' \in [Writer -> Seq(Clock)]
    <3>1. /\ time' = [time EXCEPT !["me"] = op.n] /\ disk' = time' /\ data' = data \cup {op}
          /\ journal' = Append(journal, op) /\ log' = [log EXCEPT !["me"] = Append(@, time)]
      BY <1>4 DEF Write
    <3> HIDE DEF op
    <3> QED
      BY <2>2, <2>3, <3>1 DEF Typed, Clock
  <2>5. out' \in Seq(Op) /\ toB' \in [{"me", "c"} -> Seq(Op)]
    <3>1. IF Paused THEN out' = Append(out, op) /\ UNCHANGED toB
                    ELSE Published(<<op>>) /\ UNCHANGED out
      BY <1>4 DEF Write
    <3> HIDE DEF op
    <3>2. CASE Paused
      BY <2>3, <3>1, <3>2 DEF Typed
    <3>3. CASE ~ Paused
      BY <2>3, <3>1, <3>3, PublishedTyped DEF Typed
    <3> QED
      BY <3>2, <3>3
  <2> QED
    BY <1>4, <2>4, <2>5 DEF Write, Typed
<1>5. CASE RevupsFail
  BY <1>5, DetachedTyped, SMTT(30) DEF RevupsFail, Typed
<1>6. CASE SnapshotFails
  <2>1. Over /\ Detached /\ attempt # "idle"
    BY <1>6 DEF SnapshotFails
  <2>2. /\ attempt' = "idle" /\ answer' \in Answer /\ opps' \in Nat /\ out' \in Seq(Op)
        /\ toB' \in [{"me", "c"} -> Seq(Op)]
    BY <2>1, OverTyped DEF Control
  <2>3. /\ queue' \in Seq(Msg) /\ source' \in {"never", "revups", "live"}
        /\ revups' \in Seq(Op) /\ held' \in Seq(Op)
    BY <2>1, DetachedTyped
  <2> QED
    BY <1>6, <2>2, <2>3, SMTT(30) DEF SnapshotFails, Typed
<1>7. CASE Restart
  <2>1. /\ queue' \in Seq(Msg) /\ source' \in {"never", "revups", "live"}
        /\ revups' \in Seq(Op) /\ held' \in Seq(Op)
    BY <1>7, DetachedTyped DEF Restart
  <2>2. toMe' \in [{"b", "c"} -> Seq(Op)]
    BY <1>0, <1>7 DEF Restart
  <2>3. /\ events' \in Nat /\ time' = disk /\ newClone' = FALSE /\ buffer' = <<>> /\ taking' = <<>>
        /\ outdated' = TRUE /\ opps' = 1 /\ retries' = 0 /\ attempt' = "idle" /\ answer' = NoAnswer
        /\ out' = <<>>
        /\ UNCHANGED <<log, bJournal, bTicked, serving, bMissed, toB, remote, data, journal, start,
                       disk, told>>
    BY <1>7 DEF Restart, Typed
  <2> QED
    BY <1>0, <2>1, <2>2, <2>3 DEF Typed
<1>8. CASE Decide
  <2>1. CASE remote
    BY <1>8, <2>1 DEF Decide, Typed
  <2>2. CASE ~remote
    <3>1. /\ opps' = opps - 1 /\ Detached /\ attempt' = attempt /\ taking' = taking /\ opps > 0
          /\ (IF opps = 1 THEN Published(out) /\ out' = <<>> ELSE UNCHANGED <<toB, out>>)
      BY <1>8, <2>2 DEF Decide
    <3>2. out' \in Seq(Op) /\ toB' \in [{"me", "c"} -> Seq(Op)]
      <4>1. CASE opps = 1
        BY <1>0, <3>1, <4>1, PublishedTyped DEF Typed
      <4>2. CASE opps # 1
        BY <3>1, <4>2 DEF Typed
      <4> QED
        BY <4>1, <4>2
    <3>3. opps' \in Nat
      BY <3>1 DEF Typed
    <3> QED
      BY <1>8, <3>1, <3>2, <3>3, DetachedTyped DEF Decide, Typed
  <2> QED
    BY <2>1, <2>2
<1>9. CASE Reply
  <2>1. Since(bJournal, time) \in Seq(Op) /\ ToSet(bJournal) \in SUBSET Op
    BY SincePicks, Elements DEF Picked, Typed
  <2>2. answer' \in Answer
    <3>1. PICK kind \in {"revup", "snapshot"} :
            answer' = [kind |-> kind, gwc |-> BHas,
                       data |-> IF kind = "snapshot" THEN ToSet(bJournal) ELSE {},
                       updates |-> IF kind = "revup" THEN Since(bJournal, time) ELSE <<>>]
      BY <1>9 DEF Reply
    <3> QED
      BY <1>0, <2>1, <3>1 DEF Answer
  <2>3. serving' \in [open : BOOLEAN, at : Clock, ticked : BOOLEAN, forward : Seq(Op)]
    BY <1>0, <1>9 DEF Reply, Typed
  <2> QED
    BY <1>9, <2>2, <2>3 DEF Reply, Typed
<1>10. CASE Fail
  <2>1. Over /\ attempt # "idle"
    BY <1>10 DEF Fail
  <2> QED
    BY <1>10, <2>1, OverTyped, SMTT(30) DEF Fail, Typed, Control
<1>11. CASE Retry
  BY <1>0, <1>11, SMTT(30) DEF Retry, Opportunity, Typed
<1>12. CASE Connect
  <2>1. Emitted \in Seq(Op)
    BY <1>0, SincePicks DEF Emitted, Picked, Typed, Answer
  <2>2. out \o Emitted \in Seq(Op) /\ answer.updates \o Emitted \in Seq(Op)
    BY <2>1, ElementsJoined DEF Typed, Answer
  <2>3. Join(time, answer.gwc) \in Clock
    BY JoinIsLater DEF Typed, Answer
  <2>4. time' \in Clock /\ answer' \in Answer
    BY <1>12, <2>2, <2>3 DEF Connect, Typed, Answer
  <2> QED
    BY <1>12, <2>2, <2>4 DEF Connect, Typed
<1>13. CASE Attach
  <2>1. /\ Remark(taking, "last", "none") \in Seq(Msg) /\ Remark(buffer, "last", "none") \in Seq(Msg)
        /\ answer.updates \in Seq(Op) /\ answer.gwc \in Clock
    BY RemarkKeeps DEF Typed, Marks, Answer
  <2> QED
    BY <1>0, <1>13, <2>1 DEF Attach, Typed
<1>14. CASE Clear
  BY <1>0, <1>14 DEF Clear, Typed, Clock, Writer
<1>15. CASE Insert
  BY <1>15 DEF Insert, Typed, Answer
<1>16. CASE Connected
  <2>1. Over /\ attempt # "idle"
    BY <1>16 DEF Connected
  <2> QED
    BY <1>16, <2>1, OverTyped DEF Connected, Typed, Control
<1>17. CASE SentAll
  <2>1. serving.forward \in Seq(Op) /\ answer.updates \in Seq(Op) /\ revups \in Seq(Op)
    BY DEF Typed, Answer
  <2>2. answer.updates \o serving.forward \in Seq(Op) /\ revups \o serving.forward \in Seq(Op)
    BY <2>1, ElementsJoined
  <2>3. answer' \in Answer /\ revups' \in Seq(Op)
    BY <1>17, <2>2 DEF SentAll, Typed, Answer
  <2> QED
    BY <1>0, <1>17, <2>3, SMTT(30) DEF SentAll, Typed
<1>18. CASE Revup
  <2>1. Head(revups) \in Op /\ Tail(revups) \in Seq(Op)
    BY <1>18, ElementsTaken DEF Revup, Typed
  <2>2. Message(Head(revups), "last") \in Msg
    BY <2>1 DEF Message, Msg, Marks
  <2>3. /\ Remark(taking, "last", "none") \in Seq(Msg) /\ Remark(buffer, "last", "none") \in Seq(Msg)
        /\ Append(Remark(queue, "last", "none"), Message(Head(revups), "last")) \in Seq(Msg)
    BY <2>2, RemarkKeeps, ElementsAppended DEF Typed, Marks
  <2> QED
    BY <1>18, <2>1, <2>3, SMTT(30) DEF Revup, Typed
<1>19. CASE RevupsEnd
  <2>1. /\ Remark(taking, "last", "due") \in Seq(Msg) /\ Remark(buffer, "last", "due") \in Seq(Msg)
        /\ Remark(queue, "last", "due") \in Seq(Msg) /\ Live(held) \in Seq(Msg)
    BY RemarkKeeps, LiveMessages DEF Typed, Marks
  <2>2. Remark(queue, "last", "due") \o Live(held) \in Seq(Msg)
    BY <2>1, ElementsJoined
  <2> QED
    BY <1>0, <1>19, <2>1, <2>2 DEF RevupsEnd, Typed
<1>20. CASE Take
  <2>1. <<Head(queue)>> \in Seq(Msg) /\ Tail(queue) \in Seq(Msg)
    BY <1>20, OpsOfTaken DEF Take, Typed
  <2> QED
    BY <1>20, <2>1 DEF Take, Typed
<1>21. CASE Accept
  <2>1. taking[1] \in Msg
    BY <1>21, Elements, SMTT(30) DEF Accept, Typed
  <2> DEFINE r == Accepted(taking[1])
  <2>2. r \in Delivery
    BY <2>1, AcceptedSound DEF Sound
  <2>3. /\ time' = r.time /\ buffer' = r.buffer /\ disk' = (IF r.applied = <<>> THEN disk ELSE r.time)
        /\ journal' = journal \o r.applied /\ data' = data \cup ToSet(r.applied)
        /\ outdated' = (outdated /\ ~ r.due)
    BY <1>21 DEF Accept
  <2> HIDE DEF r
  <2>4. journal \o r.applied \in Seq(Op) /\ ToSet(r.applied) \in SUBSET Op
    BY <2>2, ElementsJoined, Elements DEF Delivery, Typed
  <2> QED
    BY <1>0, <1>21, <2>2, <2>3, <2>4, SMTT(30) DEF Accept, Typed, Delivery
<1>22. CASE Buffer
  <2>1. taking[1] \in Msg
    BY <1>22, Elements DEF Buffer, Typed
  <2>2. Append(buffer, taking[1]) \in Seq(Msg)
    BY <2>1, ElementsAppended DEF Typed
  <2> QED
    BY <1>0, <1>22, <2>2 DEF Buffer, Typed
<1>23. CASE Disordered
  BY <1>0, <1>23, DetachedTyped, SMTT(30) DEF Disordered, Reconnect, Opportunity, Typed
<1>24. CASE BackingUp
  BY <1>0, <1>24, DetachedTyped DEF BackingUp, Reconnect, Opportunity, Typed
<1>25. ASSUME NEW p \in {"b", "c"}, Arrive(p) PROVE Typed'
  <2>1. toMe[p] \in Seq(Op) /\ toMe[p] # <<>>
    BY <1>25 DEF Arrive, Typed
  <2>2. Tail(toMe[p]) \in Seq(Op) /\ Head(toMe[p]) \in Op
    BY <2>1, ElementsTaken
  <2>3. Append(held, Head(toMe[p])) \in Seq(Op)
    BY <2>2, ElementsAppended DEF Typed
  <2>4. Message(Head(toMe[p]), "none") \in Msg
    BY <2>2 DEF Message, Msg, Marks
  <2>5. Append(queue, Message(Head(toMe[p]), "none")) \in Seq(Msg)
    BY <2>4, ElementsAppended DEF Typed
  <2>6. toMe' \in [{"b", "c"} -> Seq(Op)] /\ queue' \in Seq(Msg) /\ held' \in Seq(Op)
    BY <1>25, <2>2, <2>3, <2>5 DEF Arrive, Typed
  <2> QED
    BY <1>25, <2>6 DEF Arrive, Typed
<1>26. ASSUME NEW p \in {"me", "c"}, BReceives(p) PROVE Typed'
  <2>1. toB[p] \in Seq(Op) /\ toB[p] # <<>>
    BY <1>26 DEF BReceives, Typed
  <2>2. Tail(toB[p]) \in Seq(Op) /\ Head(toB[p]) \in Op
    BY <2>1, ElementsTaken
  <2> DEFINE op == Head(toB[p])
  <2>3. Append(bJournal, op) \in Seq(Op) /\ Append(serving.forward, op) \in Seq(Op)
    BY <2>2, ElementsAppended DEF Typed
  <2>4. /\ toB' = [toB EXCEPT ![p] = Tail(@)] /\ bMissed' \in BOOLEAN
        /\ IF op.n = BHas[op.p] + 1 THEN BHas1(op) ELSE UNCHANGED <<bJournal, bTicked, serving>>
    BY <1>26 DEF BReceives, Typed
  <2> HIDE DEF op
  <2>5. bJournal' \in Seq(Op) /\ bTicked' \in BOOLEAN
        /\ serving' \in [open : BOOLEAN, at : Clock, ticked : BOOLEAN, forward : Seq(Op)]
    BY <2>3, <2>4 DEF BHas1, Typed
  <2>6. toB' \in [{"me", "c"} -> Seq(Op)]
    BY <2>2, <2>4 DEF Typed
  <2> QED
    BY <1>26, <2>4, <2>5, <2>6 DEF BReceives, Typed
<1> QED
  BY <1>1, <1>2, <1>3, <1>4, <1>5, <1>6, <1>7, <1>8, <1>9, <1>10, <1>11, <1>12, <1>13, <1>14,
     <1>15, <1>16, <1>17, <1>18, <1>19, <1>20, <1>21, <1>22, <1>23, <1>24, <1>25, <1>26
     DEF Next, Environment, Process

-----------------------------------------------------------------------------
(* Control *)

\* No answer is of kind none.
LEMMA NoAnswerIs == NoAnswer.kind = "none" /\ NoAnswer.gwc = Zero
  BY DEF NoAnswer

\* Every step keeps the phases of an attempt and of a period in line.
LEMMA ControlStep ==
  ASSUME Typed, Control, Next
  PROVE  Control'
<1> USE DEF collaborator, network, database, receiving, deciding
<1>0. /\ Len(<<>>) = 0 /\ NoAnswer.kind = "none" /\ opps \in Nat /\ answer \in Answer
      /\ answer # NoAnswer => answer.kind # "none"
  BY NoAnswerIs DEF Typed, Control
<1>1. CASE BWrites
  BY <1>1 DEF BWrites, Control
<1>2. CASE CWrites
  BY <1>2 DEF CWrites, Control
<1>3. CASE Change
  BY <1>0, <1>3 DEF Change, Opportunity, Control
<1>4. CASE Write
  BY <1>4 DEF Write, Control
<1>5. CASE RevupsFail
  BY <1>5 DEF RevupsFail, Detached, Control
<1>6. CASE SnapshotFails
  <2>1. attempt' = "idle" /\ answer' = NoAnswer /\ Detached /\ UNCHANGED <<newClone, taking>>
    BY <1>6 DEF SnapshotFails, Over
  <2> QED
    BY <1>0, <2>1 DEF Detached, Control
<1>7. CASE Restart
  <2>1. attempt' = "idle" /\ answer' = NoAnswer /\ Detached /\ taking' = <<>>
    BY <1>7 DEF Restart
  <2> QED
    BY <1>0, <2>1 DEF Detached, Control
<1>8. CASE Decide
  <2>1. CASE remote
    <3>1. attempt = "idle" /\ attempt' = "asking" /\ opps > 0
          /\ UNCHANGED <<opps, receiving, answer, newClone>>
      BY <1>8, <2>1 DEF Decide
    <3> QED
      BY <1>0, <3>1 DEF Control
  <2>2. CASE ~remote
    <3>1. attempt = "idle" /\ Detached /\ UNCHANGED <<attempt, taking, answer, newClone>>
      BY <1>8, <2>2 DEF Decide
    <3> QED
      BY <1>0, <3>1 DEF Detached, Control
  <2> QED
    BY <2>1, <2>2
<1>9. CASE Reply
  <2>1. /\ attempt = "asking" /\ attempt' = "answered" /\ UNCHANGED <<receiving, newClone, opps>>
        /\ answer'.kind \in {"revup", "snapshot"} /\ (newClone => answer'.kind = "snapshot")
    BY <1>9 DEF Reply
  <2> QED
    BY <1>0, <2>1 DEF Control
<1>10. CASE Fail
  <2>1. attempt' = "idle" /\ answer' = NoAnswer /\ UNCHANGED <<receiving, newClone>>
    BY <1>10 DEF Fail, Over
  <2> QED
    BY <1>0, <2>1 DEF Control
<1>11. CASE Retry
  BY <1>0, <1>11 DEF Retry, Opportunity, Control
<1>12. CASE Connect
  <2>1. /\ attempt = "answered" /\ attempt' = "connected" /\ UNCHANGED <<receiving, newClone, opps>>
        /\ answer'.kind = answer.kind
    BY <1>0, <1>12 DEF Connect, Answer
  <2> QED
    BY <1>0, <2>1 DEF Control
<1>13. CASE Attach
  <2>1. Len(Remark(taking, "last", "none")) = Len(taking)
    BY RemarkKeeps DEF Typed, Marks
  <2>2. /\ attempt = "connected" /\ attempt' = "attached" /\ source' = "revups"
        /\ UNCHANGED <<newClone, opps, answer>> /\ Len(taking') = Len(taking)
    BY <1>13, <2>1 DEF Attach
  <2> QED
    BY <1>0, <2>2 DEF Control
<1>14. CASE Clear
  <2>1. /\ attempt = "attached" /\ answer.kind = "snapshot" /\ attempt' = "cleared"
        /\ UNCHANGED <<receiving, newClone, opps, answer>>
    BY <1>14 DEF Clear
  <2> QED
    BY <1>0, <2>1 DEF Control
<1>15. CASE Insert
  BY <1>0, <1>15 DEF Insert, Control
<1>16. CASE Connected
  <2>1. attempt' = "idle" /\ answer' = NoAnswer /\ UNCHANGED <<receiving, newClone>>
    BY <1>16 DEF Connected, Over
  <2> QED
    BY <1>0, <2>1 DEF Control
<1>17. CASE SentAll
  <2>1. /\ answer'.kind = answer.kind /\ (attempt \in {"idle", "asking"} => answer' = answer)
        /\ UNCHANGED <<attempt, newClone, opps, queue, taking, held, source>>
        /\ (source # "revups" => revups' = revups)
    <3>1. CASE attempt \in {"answered", "connected"}
      BY <1>0, <1>17, <3>1 DEF SentAll, Answer
    <3>2. CASE ~(attempt \in {"answered", "connected"})
      BY <1>17, <3>2 DEF SentAll
    <3> QED
      BY <3>1, <3>2
  <2> QED
    BY <1>0, <2>1 DEF Control
<1>18. CASE Revup
  <2>1. Len(Remark(taking, "last", "none")) = Len(taking)
    BY RemarkKeeps DEF Typed, Marks
  <2> QED
    BY <1>0, <1>18, <2>1 DEF Revup, Control
<1>19. CASE RevupsEnd
  <2>1. Len(Remark(taking, "last", "due")) = Len(taking)
    BY RemarkKeeps DEF Typed, Marks
  <2>2. /\ source' = "live" /\ held' = <<>> /\ newClone' = FALSE /\ Len(taking') = Len(taking)
        /\ revups' = <<>> /\ UNCHANGED deciding
    BY <1>19, <2>1 DEF RevupsEnd
  <2> QED
    BY <1>0, <2>2 DEF Control
<1>20. CASE Take
  <2>1. Len(<<Head(queue)>>) = 1
    OBVIOUS
  <2> QED
    BY <1>0, <1>20, <2>1 DEF Take, Control
<1>21. CASE Accept
  BY <1>0, <1>21 DEF Accept, Control
<1>22. CASE Buffer
  BY <1>0, <1>22 DEF Buffer, Control
<1>23. CASE Disordered
  BY <1>0, <1>23 DEF Disordered, Reconnect, Opportunity, Detached, Control
<1>24. CASE BackingUp
  BY <1>0, <1>24 DEF BackingUp, Reconnect, Opportunity, Detached, Control
<1>25. ASSUME NEW p \in {"b", "c"}, Arrive(p) PROVE Control'
  BY <1>0, <1>25 DEF Arrive, Control
<1>26. ASSUME NEW p \in {"me", "c"}, BReceives(p) PROVE Control'
  BY <1>0, <1>26 DEF BReceives, Control
<1> QED
  BY <1>1, <1>2, <1>3, <1>4, <1>5, <1>6, <1>7, <1>8, <1>9, <1>10, <1>11, <1>12, <1>13, <1>14,
     <1>15, <1>16, <1>17, <1>18, <1>19, <1>20, <1>21, <1>22, <1>23, <1>24, <1>25, <1>26
     DEF Next, Environment, Process

-----------------------------------------------------------------------------
(* What has been written *)

\* How much there is of each writer is a time.
LEMMA WrittenIsClock ==
  ASSUME Typed
  PROVE  Written \in Clock /\ \A p \in Writer : Written[p] = Len(log[p]) /\ Len(log[p]) \in Nat
<1>1. \A p \in Writer : Len(log[p]) \in Nat
  BY Elements DEF Typed
<1> QED
  BY <1>1 DEF Written, Clock

\* What the collaborator has is a time.
LEMMA BHasIsClock ==
  ASSUME Typed
  PROVE  BHas \in Clock /\ \A p \in Writer : BHas[p] \in Nat
<1>1. BHas \in Clock
  BY TimeIsOfLast DEF Typed, BHas
<1> QED
  BY <1>1 DEF Clock

\* One who writes appends to its own log; what an operation has seen does not change.
Writes(p, t) == log' = [log EXCEPT ![p] = Append(@, t)]

\* A writer that writes has one operation more, and what there was stays.
LEMMA WrittenGrows ==
  ASSUME Typed, NEW p \in Writer, NEW t \in Clock, Writes(p, t)
  PROVE  /\ Written' \in Clock /\ AtMost(Written, Written')
         /\ Written' = [Written EXCEPT ![p] = Written[p] + 1]
         /\ Covered(Written') = Covered(Written) \cup {[p |-> p, n |-> Written[p] + 1]}
         /\ [p |-> p, n |-> Written[p] + 1] \in Op
         /\ \A op \in Covered(Written) : SeenBy(op)' = SeenBy(op)
         /\ log'[p][Written[p] + 1] = t
         /\ \A q \in Writer : Len(log'[q]) = Written'[q]
<1>1. Written \in Clock /\ \A q \in Writer : Written[q] = Len(log[q]) /\ Len(log[q]) \in Nat
  BY WrittenIsClock
<1>2. /\ Len(Append(log[p], t)) = Len(log[p]) + 1
      /\ \A i \in 1 .. Len(log[p]) : Append(log[p], t)[i] = log[p][i]
      /\ Append(log[p], t)[Len(log[p]) + 1] = t
  BY ElementsAppended DEF Typed
<1>3. log'[p] = Append(log[p], t) /\ \A q \in Writer \ {p} : log'[q] = log[q]
  BY DEF Writes, Typed
<1>4. Written' = [Written EXCEPT ![p] = Written[p] + 1]
  <2>1. \A q \in Writer : Len(log'[q]) = IF q = p THEN Len(log[p]) + 1 ELSE Len(log[q])
    BY <1>2, <1>3
  <2> QED
    BY <2>1 DEF Written
<1>5. Written[p] + 1 \in Nat \ {0} /\ [p |-> p, n |-> Written[p] + 1] \in Op
  BY <1>1 DEF Op
<1>6. /\ Written' \in Clock /\ AtMost(Written, Written')
      /\ Covered(Written') = Covered(Written) \cup {[p |-> p, n |-> Written[p] + 1]}
  BY <1>1, <1>4, <1>5, CoveredNext, ZenonT(30)
<1>7. ASSUME NEW op \in Covered(Written) PROVE log'[op.p][op.n] = log[op.p][op.n]
  <2>1. op \in Op /\ op.n <= Len(log[op.p]) /\ op.p \in Writer /\ op.n \in Nat \ {0}
    BY <1>1, CoveredMembers DEF Op
  <2>2. op.n \in 1 .. Len(log[op.p])
    BY <1>1, <2>1
  <2> QED
    BY <1>2, <1>3, <2>1, <2>2
<1>8. \A q \in Writer : Len(log'[q]) = Written'[q]
  BY DEF Written
<1> QED
  BY <1>1, <1>2, <1>3, <1>4, <1>5, <1>6, <1>7, <1>8 DEF SeenBy

\* The writers, and what they have seen
LEMMA WritersWrite ==
  ASSUME Typed, Next
  PROVE  \/ log' = log
         \/ BWrites /\ Writes("b", BHas) /\ BHas \in Clock
         \/ CWrites /\ \E n \in 0 .. BHas["b"] :
              LET t == [Zero EXCEPT !["b"] = n, !["c"] = Len(log["c"])]
              IN  Writes("c", t) /\ t \in Clock
         \/ Write /\ Writes("me", time) /\ time \in Clock
<1>1. CASE BWrites
  BY <1>1, TimeIsOfLast DEF BWrites, Writes, Typed, BHas
<1>2. CASE CWrites
  <2>1. Len(log["c"]) \in Nat /\ log["c"] \in Seq(Clock) /\ BHas \in Clock
    <3>1. log["c"] \in Seq(Clock) /\ BHas \in Clock
      BY TimeIsOfLast, WritersAre DEF Typed, BHas
    <3> QED
      BY <3>1, Elements
  <2> DEFINE op == [p |-> "c", n |-> Len(log["c"]) + 1]
             had == IF op.n = 1 THEN 0 ELSE Last(log["c"])["b"]
  <2>2. had \in Nat
    <3>1. op.n # 1 => Last(log["c"]) \in Clock
      BY <2>1, Elements DEF Last
    <3> QED
      BY <3>1 DEF Clock, Writer
  <2>3. op.n - 1 = Len(log["c"])
    BY <2>1
  <2>4. PICK n \in had .. BHas["b"] :
          log' = [log EXCEPT !["c"] = Append(@, [Zero EXCEPT !["b"] = n, !["c"] = op.n - 1])]
    BY <1>2 DEF CWrites
  <2> HIDE DEF op, had
  <2>5. n \in 0 .. BHas["b"] /\ n \in Nat
    <3>1. BHas["b"] \in Nat
      BY <2>1 DEF Clock, Writer
    <3> QED
      BY <2>2, <3>1
  <2>6. [Zero EXCEPT !["b"] = n, !["c"] = Len(log["c"])] \in Clock
    BY <2>1, <2>5, ZeroIsClock DEF Clock
  <2>7. Writes("c", [Zero EXCEPT !["b"] = n, !["c"] = Len(log["c"])])
    BY <2>3, <2>4 DEF Writes
  <2> QED
    BY <1>2, <2>5, <2>6, <2>7
<1>3. CASE Write
  BY <1>3 DEF Write, Writes, Typed
<1>4. CASE ~(BWrites \/ CWrites \/ Write)
  <2> USE DEF Change, RevupsFail, SnapshotFails, Restart, Decide, Reply, Fail, Retry, Connect,
              Attach, Clear, Insert, Connected, SentAll, Revup, RevupsEnd, Take, Accept, Buffer,
              Disordered, BackingUp, Reconnect, Arrive, BReceives
  <2>1. Change \/ RevupsFail \/ SnapshotFails \/ Restart => log' = log
    OBVIOUS
  <2>2. Decide \/ Reply \/ Fail \/ Retry \/ Connect \/ Attach \/ Clear \/ Insert \/ Connected
          => log' = log
    OBVIOUS
  <2>3. SentAll \/ Revup \/ RevupsEnd \/ Take \/ Accept \/ Buffer \/ Disordered \/ BackingUp
          => log' = log
    OBVIOUS
  <2>4. (\E p \in {"b", "c"} : Arrive(p)) \/ (\E p \in {"me", "c"} : BReceives(p)) => log' = log
    OBVIOUS
  <2> QED
    BY <1>4, <2>1, <2>2, <2>3, <2>4 DEF Next, Environment, Process
<1> QED
  BY <1>1, <1>2, <1>3, <1>4

\* No step takes back what has been written, nor changes what its author had seen.
LEMMA WrittenStep ==
  ASSUME Typed, Next
  PROVE  /\ Written' \in Clock /\ AtMost(Written, Written')
         /\ Covered(Written) \subseteq Covered(Written')
         /\ \A op \in Covered(Written) : SeenBy(op)' = SeenBy(op)
         /\ log' = log => Written' = Written
<1>1. CASE log' = log
  <2>1. Written' = Written /\ Written \in Clock
    BY <1>1, WrittenIsClock DEF Written
  <2>2. AtMost(Written, Written)
    BY <2>1, CoveredOrder
  <2> QED
    BY <1>1, <2>1, <2>2 DEF SeenBy
<1>2. CASE log' # log
  <2>1. PICK p \in Writer, t \in Clock : Writes(p, t)
    BY <1>2, WritersWrite, WritersAre
  <2> QED
    BY <1>2, <2>1, WrittenGrows
<1> QED
  BY <1>1, <1>2

\* Every step keeps it that what an author had seen had been written.
LEMMA LogsStep ==
  ASSUME Whole, Next
  PROVE  Logs'
<1>1. CASE log' = log
  BY <1>1 DEF Whole, Logs, Written
<1>2. ASSUME NEW p \in Writer, NEW t \in Clock, Writes(p, t), CanWrite(p),
             t[p] = Len(log[p]), AtMost(t, Written)
      PROVE  Logs'
  <2>1. /\ Written' \in Clock /\ AtMost(Written, Written') /\ Written \in Clock
        /\ Written' = [Written EXCEPT ![p] = Written[p] + 1]
        /\ log'[p][Written[p] + 1] = t
        /\ (\A q \in Writer : Len(log'[q]) = Written'[q])
        /\ \A q \in Writer : Written[q] = Len(log[q]) /\ Len(log[q]) \in Nat
    BY <1>2, WrittenGrows, WrittenIsClock DEF Whole
  <2>2. log'[p] = Append(log[p], t) /\ \A q \in Writer \ {p} : log'[q] = log[q]
    BY <1>2 DEF Writes, Whole, Typed
  <2>3. ASSUME NEW q \in Writer PROVE Len(log'[q]) <= MaxOps[q]
    <3>1. CASE q = p
      BY <1>2, <2>1, <3>1, RecoveryAssumption DEF CanWrite
    <3>2. CASE q # p
      BY <2>1, <3>2 DEF Whole, Logs
    <3> QED
      BY <3>1, <3>2
  <2>4. ASSUME NEW q \in Writer, NEW n \in 1 .. Len(log'[q])
        PROVE  log'[q][n][q] = n - 1 /\ AtMost(log'[q][n], Written')
    <3>1. CASE n \in 1 .. Len(log[q])
      <4>1. log'[q][n] = log[q][n] /\ log[q][n] \in Clock
        <5>1. log[q] \in Seq(Clock) /\ log[p] \in Seq(Clock)
          BY DEF Whole, Typed
        <5>2. log[q][n] \in Clock
          BY <3>1, <5>1, Elements
        <5>3. q = p => log'[q][n] = log[q][n]
          BY <2>2, <3>1, <5>1, ElementsAppended
        <5> QED
          BY <2>2, <5>2, <5>3
      <4>2. log[q][n][q] = n - 1 /\ AtMost(log[q][n], Written)
        BY <3>1 DEF Whole, Logs
      <4> QED
        BY <2>1, <4>1, <4>2, AtMostTransitive
    <3>2. CASE n \notin 1 .. Len(log[q])
      <4>1. q = p /\ n = Written[p] + 1
        <5>1. q = p
          BY <2>2, <3>2
        <5> QED
          BY <2>1, <3>2, <5>1
      <4>2. log'[q][n] = t /\ n - 1 = Len(log[p])
        BY <2>1, <4>1
      <4> QED
        BY <1>2, <2>1, <4>1, <4>2, AtMostTransitive
    <3> QED
      BY <3>1, <3>2
  <2> QED
    BY <2>3, <2>4 DEF Logs
<1>3. CASE BWrites /\ Writes("b", BHas) /\ BHas \in Clock
  <2>1. CanWrite("b") /\ BHas["b"] = Len(log["b"]) /\ AtMost(BHas, Written)
    BY <1>3 DEF BWrites, Whole, Collaborator
  <2> QED
    BY <1>2, <1>3, <2>1, WritersAre
<1>4. ASSUME CWrites, NEW n \in 0 .. BHas["b"],
             Writes("c", [Zero EXCEPT !["b"] = n, !["c"] = Len(log["c"])]),
             [Zero EXCEPT !["b"] = n, !["c"] = Len(log["c"])] \in Clock
      PROVE  Logs'
  <2> DEFINE t == [Zero EXCEPT !["b"] = n, !["c"] = Len(log["c"])]
  <2>1. t["c"] = Len(log["c"]) /\ t["b"] = n /\ t["me"] = 0
    BY ZeroIsClock DEF Clock, Writer
  <2>2. AtMost(t, Written)
    <3>1. Written \in Clock /\ BHas["b"] <= Written["b"] /\ Written["c"] = Len(log["c"])
      BY WrittenIsClock, WritersAre DEF Whole, Collaborator, AtMost
    <3>2. Written["me"] \in Nat /\ Written["b"] \in Nat /\ Written["c"] \in Nat /\ BHas["b"] \in Nat
      BY <3>1, TimeIsOfLast, WritersAre DEF Clock, BHas, Whole, Typed
    <3> HIDE DEF t
    <3> QED
      BY <2>1, <3>1, <3>2, WritersAre DEF AtMost
  <2>3. CanWrite("c") /\ "c" \in Writer
    BY <1>4, WritersAre DEF CWrites
  <2>4. Writes("c", t) /\ t \in Clock
    BY <1>4
  <2> HIDE DEF t
  <2> QED
    BY <1>2, <2>1, <2>2, <2>3, <2>4
<1>5. CASE Write /\ Writes("me", time) /\ time \in Clock
  <2>1. CanWrite("me") /\ time["me"] = Len(log["me"]) /\ AtMost(time, Written)
    BY <1>5 DEF Write, Whole, Times
  <2> QED
    BY <1>2, <1>5, <2>1, WritersAre
<1> QED
  BY <1>1, <1>3, <1>4, <1>5, WritersWrite DEF Whole

-----------------------------------------------------------------------------
(* What comes of a message that is accepted *)

\* What comes of the message whose turn it is, when it is accepted
LEMMA AcceptFacts ==
  ASSUME Whole, Accept
  PROVE  \E a \in Seq(Op) :
           /\ time' \in Clock /\ AtMost(time, time')
           /\ Covered(time') = Covered(time) \cup ToSet(a)
           /\ ToSet(a) \cap Covered(time) = {} /\ IsInjective(a) /\ Gapless(time, a)
           /\ ToSet(a) \subseteq OpsOf(buffer) \cup OpsOf(taking)
           /\ a = <<>> => time' = time
           /\ disk' = (IF a = <<>> THEN disk ELSE time')
           /\ journal' = journal \o a /\ data' = data \cup ToSet(a)
           /\ OpsOf(buffer') \subseteq OpsOf(buffer) /\ taking' = <<>>
           /\ \A m \in ToSet(buffer') : m \in ToSet(buffer)
           /\ OpsOf(buffer) \cup OpsOf(taking) \subseteq OpsOf(buffer') \cup Covered(time')
           /\ taking # <<>> /\ taking[1] \in Msg /\ OpsOf(taking) = {taking[1].op}
           /\ taking[1].op \in Covered(time')
           /\ outdated /\ ~ outdated' => ~ NoMark(buffer, "due") \/ taking[1].mark = "due"
           /\ UNCHANGED <<log, collaborator, network, start, newClone, queue, source, revups, held,
                          deciding, out, events>>
<1> DEFINE msg == taking[1]
           r == Accepted(msg)
           msgs == ToSet(buffer) \cup {msg}
<1>1. /\ taking # <<>> /\ taking \in Seq(Msg) /\ Len(taking) <= 1 /\ buffer \in Seq(Msg)
      /\ time \in Clock
  BY DEF Accept, Whole, Typed, Control
<1>2. msg \in Msg /\ ToSet(taking) = {msg} /\ OpsOf(taking) = {msg.op}
  <2>1. /\ Len(taking) \in Nat /\ Len(taking) # 0 /\ DOMAIN taking = 1 .. Len(taking)
        /\ \A i \in DOMAIN taking : taking[i] \in Msg
    BY <1>1, Elements
  <2>2. DOMAIN taking = {1} /\ msg \in Msg
    BY <1>1, <2>1
  <2>3. ToSet(taking) = {msg}
    BY <2>2 DEF ToSet
  <2> QED
    BY <2>2, <2>3 DEF OpsOf
<1>3. /\ Sound(r, msgs, msgs, {msg.op})
      /\ ~ r.disordered => msg.op \in Covered(r.time)
  BY <1>2, AcceptedSound DEF Whole
<1>4. /\ ReadyFor(time, msg.op) /\ ~ r.disordered
      /\ time' = r.time /\ buffer' = r.buffer
      /\ disk' = (IF r.applied = <<>> THEN disk ELSE r.time)
      /\ journal' = journal \o r.applied
      /\ data' = data \cup ToSet(r.applied)
      /\ outdated' = (outdated /\ ~ r.due)
      /\ taking' = <<>>
      /\ UNCHANGED <<log, collaborator, network, start, newClone, queue, source, revups, held,
                     deciding, out, events>>
  BY DEF Accept
<1> HIDE DEF r, msg
<1>5. r.applied \in Seq(Op) /\ r.time \in Clock /\ r.buffer \in Seq(Msg)
  BY <1>3 DEF Sound, Delivery
<1>6. AtMost(time, r.time)
  BY <1>1, <1>3, <1>5, CoveredOrder DEF Sound
<1>7. r.applied = <<>> => r.time = time
  <2>1. r.applied = <<>> => Covered(r.time) = Covered(time)
    BY <1>3, NoElements DEF Sound
  <2> QED
    BY <1>1, <1>5, <2>1, CoveredOrder
<1>8. {m.op : m \in msgs} = OpsOf(buffer) \cup OpsOf(taking)
  BY <1>2 DEF OpsOf
<1>9. OpsOf(r.buffer) \subseteq OpsOf(buffer) /\ \A m \in ToSet(r.buffer) : m \in ToSet(buffer)
  BY <1>3 DEF Sound, OpsOf
<1>10. OpsOf(buffer) \cup OpsOf(taking) \subseteq OpsOf(r.buffer) \cup Covered(r.time)
  <2>1. \A m \in msgs : m.op \in OpsOf(r.buffer) \cup Covered(r.time)
    BY <1>3, <1>4 DEF Sound, OpsOf
  <2> QED
    BY <1>8, <2>1
<1>11. r.due => ~ NoMark(buffer, "due") \/ msg.mark = "due"
  <2>1. r.due => \E m \in msgs : m.mark = "due"
    BY <1>3 DEF Sound
  <2>2. (\E m \in ToSet(buffer) : m.mark = "due") => ~ NoMark(buffer, "due")
    BY DEF NoMark, ToSet
  <2> QED
    BY <2>1, <2>2
<1>12. outdated /\ ~ outdated' => ~ NoMark(buffer, "due") \/ msg.mark = "due"
  BY <1>4, <1>11
<1>13. taking # <<>> /\ msg \in Msg /\ OpsOf(taking) = {msg.op} /\ msg.op \in Covered(r.time)
  BY <1>1, <1>2, <1>3, <1>4
<1>14. /\ Covered(r.time) = Covered(time) \cup ToSet(r.applied)
       /\ ToSet(r.applied) \cap Covered(time) = {} /\ IsInjective(r.applied) /\ Gapless(time, r.applied)
       /\ ToSet(r.applied) \subseteq {m.op : m \in msgs}
  BY <1>3 DEF Sound
<1> DEFINE a == r.applied
<1> HIDE DEF a
<1>15. a \in Seq(Op)
  BY <1>5 DEF a
<1> WITNESS a \in Seq(Op)
<1>16. taking[1] = msg
  BY DEF msg
<1> QED
  BY <1>4, <1>5, <1>6, <1>7, <1>8, <1>9, <1>10, <1>12, <1>13, <1>14, <1>16 DEF a

-----------------------------------------------------------------------------
(* Operations that are known have been written *)

Streamed ==
  ToSet(journal) \cup ToSet(out) \cup ToSet(toB["me"]) \cup ToSet(held) \cup ToSet(revups)
    \cup ToSet(serving.forward) \cup ToSet(answer.updates)

\* What is sent, or dropped, when output goes on
LEMMA PublishedElements ==
  ASSUME Typed, NEW s \in Seq(Op), Published(s)
  PROVE  /\ ToSet(toB'["me"]) \subseteq ToSet(toB["me"]) \cup ToSet(s)
         /\ toB'["me"] = IF remote THEN toB["me"] \o s ELSE toB["me"]
         /\ toB'["c"] = toB["c"]
<1>1. toB["me"] \in Seq(Op) /\ ToSet(toB["me"] \o s) = ToSet(toB["me"]) \cup ToSet(s)
  BY ElementsJoined DEF Typed
<1> QED
  BY <1>1 DEF Published, Typed

\* When an attempt is over, no update of its answer is left.
LEMMA OverElements ==
  ASSUME Typed, Over
  PROVE  /\ ToSet(toB'["me"]) \cup ToSet(out') \subseteq ToSet(toB["me"]) \cup ToSet(out)
         /\ toB'["c"] = toB["c"] /\ answer' = NoAnswer /\ ToSet(answer'.updates) = {}
<1>1. CASE opps = 1
  BY <1>1, PublishedElements, NoElements DEF Over, NoAnswer, Typed
<1>2. CASE opps # 1
  BY <1>2, NoElements DEF Over, NoAnswer
<1> QED
  BY <1>1, <1>2

\* When the remotes are detached, nothing is left of the period.
LEMMA DetachedElements ==
  ASSUME Detached
  PROVE  ToSet(held') = {} /\ ToSet(revups') = {} /\ OpsOf(queue') = {}
  BY NoElements, NoOps DEF Detached

\* Every step keeps it that what is on its way, or waits, has been written.
LEMMA KnownStep ==
  ASSUME Whole, Next
  PROVE  Known'
<1> USE DEF collaborator, network, database, receiving, deciding
<1> DEFINE K == Covered(Written)
           L == Covered(Written')
           Msgs == Pending
           Mine(p) == {op \in K : op.p = p}
           Mine2(p) == {op \in L : op.p = p}
<1>0. /\ K \subseteq L /\ Typed /\ Streamed \subseteq K /\ Pending \subseteq K
      /\ \A p \in {"b", "c"} : ToSet(toMe[p]) \subseteq {op \in K : op.p = p}
      /\ Covered(BHas) \subseteq K
  <2>1. K \subseteq L /\ Typed /\ BHas \in Clock /\ Written \in Clock
    BY WrittenStep, WrittenIsClock, TimeIsOfLast DEF Whole, Typed, BHas
  <2>2. Covered(BHas) \subseteq K
    BY <2>1, CoveredOrder DEF Whole, Collaborator
  <2> QED
    BY <2>1, <2>2 DEF Whole, Known, Streamed, Pending
<1>30. ASSUME Streamed' \subseteq L, Pending' \subseteq L,
             \A p \in {"b", "c"} : ToSet(toMe'[p]) \subseteq {op \in L : op.p = p}
      PROVE  Known'
  BY <1>30 DEF Known, Streamed, Pending
<1> HIDE DEF K, L
<1>31. ASSUME UNCHANGED <<buffer, queue, taking>> PROVE Pending' \subseteq L
  BY <1>0, <1>31 DEF Pending
<1>32. ASSUME UNCHANGED toMe
      PROVE  \A p \in {"b", "c"} : ToSet(toMe'[p]) \subseteq {op \in L : op.p = p}
  BY <1>0, <1>32
<1>1. CASE BWrites
  <2> DEFINE op == [p |-> "b", n |-> Len(log["b"]) + 1]
  <2>1. Writes("b", BHas) /\ BHas \in Clock /\ "b" \in Writer
    BY <1>1, TimeIsOfLast, WritersAre DEF BWrites, Writes, Whole, Typed, BHas
  <2>2. op \in L /\ op \in Op
    BY <1>0, <2>1, WrittenGrows, WrittenIsClock DEF L
  <2>3. toMe["b"] \in Seq(Op) /\ ToSet(Append(toMe["b"], op)) = ToSet(toMe["b"]) \cup {op}
    BY <1>0, <2>2, ElementsAppended DEF Typed
  <2>4. \A p \in {"b", "c"} : ToSet(toMe'[p]) \subseteq {x \in L : x.p = p}
    <3>1. toMe' = IF remote THEN [toMe EXCEPT !.b = Append(@, op)] ELSE toMe
      BY <1>1 DEF BWrites
    <3>2. op.p = "b"
      OBVIOUS
    <3> HIDE DEF op
    <3>3. toMe'["c"] = toMe["c"] /\ (toMe'["b"] = toMe["b"] \/ toMe'["b"] = Append(toMe["b"], op))
      BY <1>0, <3>1 DEF Typed
    <3> QED
      BY <1>0, <2>2, <2>3, <3>2, <3>3
  <2>5. UNCHANGED <<journal, out, toB, held, revups, serving, answer, buffer, queue, taking>>
    BY <1>1 DEF BWrites
  <2>6. Streamed' \subseteq L
    BY <1>0, <2>5 DEF Streamed
  <2> QED
    BY <1>30, <1>31, <2>4, <2>5, <2>6
<1>2. CASE CWrites
  <2> DEFINE op == [p |-> "c", n |-> Len(log["c"]) + 1]
  <2>1. PICK t \in Clock : Writes("c", t)
    <3>1. PICK p \in Writer, t \in Clock : Writes(p, t) /\ p = "c"
      <4>1. log'["c"] # log["c"]
        <5>1. \E t : log'["c"] = Append(log["c"], t)
          BY <1>2, WritersAre DEF CWrites, Whole, Typed
        <5>2. PICK t : log'["c"] = Append(log["c"], t)
          BY <5>1
        <5>3. log["c"] \in Seq(Clock) /\ Len(log["c"]) \in Nat
          BY Elements, WritersAre DEF Whole, Typed
        <5>4. Len(Append(log["c"], t)) = Len(log["c"]) + 1
          BY <5>3
        <5> QED
          BY <5>2, <5>3, <5>4
      <4>2. log' # log
        BY <4>1
      <4>3. \A p \in Writer, t \in Clock : Writes(p, t) => p = "c"
        BY <4>1 DEF Writes, Whole, Typed
      <4>4. \E p \in Writer, t \in Clock : Writes(p, t)
        BY <4>2, WritersWrite, WritersAre DEF Whole
      <4> QED
        BY <4>3, <4>4
    <3> QED
      BY <3>1
  <2>2. op \in L /\ op \in Op
    BY <1>0, <2>1, WrittenGrows, WrittenIsClock, WritersAre DEF L
  <2>3. toMe["c"] \in Seq(Op) /\ ToSet(Append(toMe["c"], op)) = ToSet(toMe["c"]) \cup {op}
    BY <1>0, <2>2, ElementsAppended DEF Typed
  <2>4. \A p \in {"b", "c"} : ToSet(toMe'[p]) \subseteq {x \in L : x.p = p}
    <3>1. toMe' = IF remote THEN [toMe EXCEPT !.c = Append(@, op)] ELSE toMe
      BY <1>2 DEF CWrites
    <3>2. op.p = "c"
      OBVIOUS
    <3> HIDE DEF op
    <3>3. toMe'["b"] = toMe["b"] /\ (toMe'["c"] = toMe["c"] \/ toMe'["c"] = Append(toMe["c"], op))
      BY <1>0, <3>1 DEF Typed
    <3> QED
      BY <1>0, <2>2, <2>3, <3>2, <3>3
  <2>5. /\ toB'["me"] = toB["me"]
        /\ UNCHANGED <<journal, out, held, revups, serving, answer, buffer, queue, taking>>
    BY <1>0, <1>2 DEF CWrites, Typed
  <2>6. Streamed' \subseteq L
    BY <1>0, <2>5 DEF Streamed
  <2> QED
    BY <1>30, <1>31, <2>4, <2>5, <2>6
<1>3. CASE Change
  <2>1. /\ ToSet(out') \subseteq ToSet(out) /\ \A p \in {"b", "c"} : ToSet(toMe'[p]) = {}
        /\ UNCHANGED <<journal, toB, held, revups, serving, answer, buffer, queue, taking>>
    BY <1>3, NoElements DEF Change, Opportunity
  <2>2. Streamed' \subseteq L
    BY <1>0, <2>1 DEF Streamed
  <2> QED
    BY <1>30, <1>31, <2>1, <2>2
<1>4. CASE Write
  <2> DEFINE op == [p |-> "me", n |-> Len(log["me"]) + 1]
  <2>1. Writes("me", time) /\ time \in Clock /\ "me" \in Writer
    BY <1>4, WritersAre DEF Write, Writes, Whole, Typed
  <2>2. op \in L /\ op \in Op
    BY <1>0, <2>1, WrittenGrows, WrittenIsClock DEF L
  <2>3. /\ ToSet(Append(journal, op)) = ToSet(journal) \cup {op}
        /\ ToSet(Append(out, op)) = ToSet(out) \cup {op}
    BY <1>0, <2>2, ElementsAppended, SMTT(30) DEF Typed
  <2>4. <<op>> \in Seq(Op) /\ ToSet(<<op>>) = {op}
    <3> HIDE DEF op
    <3>1. <<op>> \in Seq(Op) /\ DOMAIN <<op>> = {1} /\ <<op>>[1] = op
      BY <2>2
    <3> QED
      BY <3>1 DEF ToSet
  <2>5. /\ journal' = Append(journal, op)
        /\ (IF Paused THEN out' = Append(out, op) /\ UNCHANGED toB
                      ELSE Published(<<op>>) /\ UNCHANGED out)
        /\ UNCHANGED <<held, revups, serving, answer, buffer, queue, taking, toMe>>
    BY <1>4 DEF Write
  <2> HIDE DEF op
  <2>6. ToSet(out') \cup ToSet(toB'["me"]) \subseteq ToSet(out) \cup ToSet(toB["me"]) \cup {op}
    <3>1. CASE Paused
      BY <2>3, <2>5, <3>1
    <3>2. CASE ~Paused
      BY <1>0, <2>4, <2>5, <3>2, PublishedElements
    <3> QED
      BY <3>1, <3>2
  <2>7. Streamed' \subseteq L
    BY <1>0, <2>2, <2>3, <2>5, <2>6 DEF Streamed
  <2> QED
    BY <1>30, <1>31, <1>32, <2>5, <2>7
<1>5. CASE RevupsFail
  <2>1. /\ ToSet(held') = {} /\ ToSet(revups') = {} /\ OpsOf(queue') = {}
        /\ UNCHANGED <<journal, out, toB, serving, answer, buffer, taking, toMe>>
    BY <1>5, DetachedElements DEF RevupsFail
  <2>2. Streamed' \subseteq L /\ Pending' \subseteq L
    BY <1>0, <2>1 DEF Streamed, Pending
  <2> QED
    BY <1>30, <1>32, <2>1, <2>2
<1>6. CASE SnapshotFails
  <2>1. /\ ToSet(held') = {} /\ ToSet(revups') = {} /\ OpsOf(queue') = {}
        /\ UNCHANGED <<journal, serving, buffer, taking, toMe>>
        /\ ToSet(toB'["me"]) \cup ToSet(out') \subseteq ToSet(toB["me"]) \cup ToSet(out)
        /\ ToSet(answer'.updates) = {}
    BY <1>0, <1>6, DetachedElements, OverElements DEF SnapshotFails
  <2>2. Streamed' \subseteq L /\ Pending' \subseteq L
    BY <1>0, <2>1 DEF Streamed, Pending
  <2> QED
    BY <1>30, <1>32, <2>1, <2>2
<1>7. CASE Restart
  <2>1. /\ ToSet(held') = {} /\ ToSet(revups') = {} /\ OpsOf(queue') = {} /\ OpsOf(buffer') = {}
        /\ OpsOf(taking') = {} /\ ToSet(out') = {} /\ ToSet(answer'.updates) = {}
        /\ UNCHANGED <<journal, serving, toB>>
        /\ \A p \in {"b", "c"} : ToSet(toMe'[p]) = {}
    BY <1>7, DetachedElements, NoElements, NoOps DEF Restart, NoAnswer
  <2>2. Streamed' \subseteq L /\ Pending' \subseteq L
    BY <1>0, <2>1 DEF Streamed, Pending
  <2> QED
    BY <1>30, <2>1, <2>2
<1>8. CASE Decide
  <2>1. /\ ToSet(out') \cup ToSet(toB'["me"]) \subseteq ToSet(out) \cup ToSet(toB["me"])
        /\ ToSet(held') \subseteq ToSet(held) /\ ToSet(revups') \subseteq ToSet(revups)
        /\ OpsOf(queue') \subseteq OpsOf(queue)
        /\ UNCHANGED <<journal, serving, answer, buffer, taking, toMe>>
    <3>1. CASE remote
      BY <1>8, <3>1 DEF Decide
    <3>2. CASE ~remote
      <4>1. ToSet(held') = {} /\ ToSet(revups') = {} /\ OpsOf(queue') = {}
            /\ UNCHANGED <<journal, serving, answer, buffer, taking, toMe>>
            /\ IF opps = 1 THEN Published(out) /\ out' = <<>> ELSE UNCHANGED <<toB, out>>
        BY <1>8, <3>2, DetachedElements DEF Decide
      <4>2. CASE opps = 1
        BY <1>0, <4>1, <4>2, PublishedElements, NoElements DEF Typed
      <4>3. CASE opps # 1
        BY <4>1, <4>3
      <4> QED
        BY <4>2, <4>3
    <3> QED
      BY <3>1, <3>2
  <2>2. Streamed' \subseteq L /\ Pending' \subseteq L
    BY <1>0, <2>1 DEF Streamed, Pending
  <2> QED
    BY <1>30, <1>32, <2>1, <2>2
<1>9. CASE Reply
  <2>1. ToSet(Since(bJournal, time)) \subseteq ToSet(bJournal)
    <3>1. Picked(Since(bJournal, time), bJournal, time, Len(bJournal))
      BY <1>0, SincePicks DEF Typed
    <3>2. {bJournal[i] : i \in 1 .. Len(bJournal)} = ToSet(bJournal)
      BY <1>0, Elements DEF Typed, ToSet
    <3> QED
      BY <3>1, <3>2 DEF Picked
  <2>2. ToSet(bJournal) \subseteq K
    BY <1>0 DEF Whole, Collaborator
  <2>3. ToSet(answer'.updates) \subseteq K /\ ToSet(serving'.forward) = {}
    <3>1. \E kind \in {"revup", "snapshot"} :
            answer'.updates = IF kind = "revup" THEN Since(bJournal, time) ELSE <<>>
      BY <1>9 DEF Reply
    <3>2. serving'.forward = <<>>
      BY <1>9 DEF Reply
    <3> QED
      BY <2>1, <2>2, <3>1, <3>2, NoElements
  <2>4. UNCHANGED <<journal, out, toB, held, revups, buffer, queue, taking, toMe>>
    BY <1>9 DEF Reply
  <2>5. Streamed' \subseteq L
    BY <1>0, <2>3, <2>4 DEF Streamed
  <2> QED
    BY <1>30, <1>31, <1>32, <2>4, <2>5
<1>10. CASE Fail
  <2>1. /\ ToSet(toB'["me"]) \cup ToSet(out') \subseteq ToSet(toB["me"]) \cup ToSet(out)
        /\ ToSet(answer'.updates) = {}
        /\ UNCHANGED <<journal, held, revups, serving, buffer, queue, taking, toMe>>
    BY <1>0, <1>10, OverElements DEF Fail
  <2>2. Streamed' \subseteq L
    BY <1>0, <2>1 DEF Streamed
  <2> QED
    BY <1>30, <1>31, <1>32, <2>1, <2>2
<1>11. CASE Retry
  <2>1. /\ ToSet(out') \subseteq ToSet(out)
        /\ UNCHANGED <<journal, toB, held, revups, serving, answer, buffer, queue, taking, toMe>>
    BY <1>11, NoElements DEF Retry, Opportunity
  <2>2. Streamed' \subseteq L
    BY <1>0, <2>1 DEF Streamed
  <2> QED
    BY <1>30, <1>31, <1>32, <2>1, <2>2
<1>12. CASE Connect
  <2>1. Emitted \in Seq(Op) /\ ToSet(Emitted) \subseteq ToSet(journal)
    <3>1. Picked(Since(journal, answer.gwc), journal, answer.gwc, Len(journal))
      BY <1>0, SincePicks DEF Typed, Answer
    <3>2. {journal[i] : i \in 1 .. Len(journal)} = ToSet(journal)
      BY <1>0, Elements DEF Typed, ToSet
    <3> QED
      BY <3>1, <3>2, NoElements DEF Picked, Emitted
  <2>2. /\ ToSet(out') \subseteq ToSet(out) \cup ToSet(journal)
        /\ ToSet(answer'.updates) \subseteq ToSet(answer.updates) \cup ToSet(journal)
    <3>1. ToSet(out \o Emitted) = ToSet(out) \cup ToSet(Emitted)
      BY <1>0, <2>1, ElementsJoined DEF Typed
    <3>2. ToSet(answer.updates \o Emitted) = ToSet(answer.updates) \cup ToSet(Emitted)
      BY <1>0, <2>1, ElementsJoined DEF Typed, Answer
    <3>3. out' = out \o Emitted
          /\ (answer'.updates = answer.updates \/ answer'.updates = answer.updates \o Emitted)
      BY <1>0, <1>12 DEF Connect, Typed, Answer
    <3> QED
      BY <2>1, <3>1, <3>2, <3>3
  <2>3. UNCHANGED <<journal, toB, held, revups, serving, buffer, queue, taking, toMe>>
    BY <1>12 DEF Connect
  <2>4. Streamed' \subseteq L
    BY <1>0, <2>2, <2>3 DEF Streamed
  <2> QED
    BY <1>30, <1>31, <1>32, <2>3, <2>4
<1>13. CASE Attach
  <2>1. /\ ToSet(revups') = ToSet(answer.updates) /\ ToSet(held') = {} /\ OpsOf(queue') = {}
        /\ OpsOf(taking') = OpsOf(taking) /\ OpsOf(buffer') = OpsOf(buffer)
        /\ UNCHANGED <<journal, out, toB, serving, answer, toMe>>
    BY <1>0, <1>13, NoElements, NoOps, RemarkKeeps DEF Attach, Typed, Marks
  <2>2. Streamed' \subseteq L /\ Pending' \subseteq L
    BY <1>0, <2>1 DEF Streamed, Pending
  <2> QED
    BY <1>30, <1>32, <2>1, <2>2
<1>14. CASE Clear
  <2>1. /\ ToSet(journal') = {}
        /\ UNCHANGED <<out, toB, held, revups, serving, answer, buffer, queue, taking, toMe>>
    BY <1>14, NoElements DEF Clear
  <2>2. Streamed' \subseteq L
    BY <1>0, <2>1 DEF Streamed
  <2> QED
    BY <1>30, <1>31, <1>32, <2>1, <2>2
<1>15. CASE Insert
  <2>1. UNCHANGED <<journal, out, toB, held, revups, serving, answer, buffer, queue, taking, toMe>>
    BY <1>15 DEF Insert
  <2>2. Streamed' \subseteq L
    BY <1>0, <2>1 DEF Streamed
  <2> QED
    BY <1>30, <1>31, <1>32, <2>1, <2>2
<1>16. CASE Connected
  <2>1. /\ ToSet(toB'["me"]) \cup ToSet(out') \subseteq ToSet(toB["me"]) \cup ToSet(out)
        /\ ToSet(answer'.updates) = {}
        /\ UNCHANGED <<journal, held, revups, serving, buffer, queue, taking, toMe>>
    BY <1>0, <1>16, OverElements DEF Connected
  <2>2. Streamed' \subseteq L
    BY <1>0, <2>1 DEF Streamed
  <2> QED
    BY <1>30, <1>31, <1>32, <2>1, <2>2
<1>17. CASE SentAll
  <2>1. /\ ToSet(answer.updates \o serving.forward) = ToSet(answer.updates) \cup ToSet(serving.forward)
        /\ ToSet(revups \o serving.forward) = ToSet(revups) \cup ToSet(serving.forward)
    BY <1>0, ElementsJoined DEF Typed, Answer
  <2>2. /\ ToSet(revups') \subseteq ToSet(revups) \cup ToSet(serving.forward)
        /\ ToSet(answer'.updates) \subseteq ToSet(answer.updates) \cup ToSet(serving.forward)
    <3>1. CASE attempt \in {"answered", "connected"}
      <4>1. revups' = revups /\ answer'.updates = answer.updates \o serving.forward
        BY <1>0, <1>17, <3>1 DEF SentAll, Typed, Answer
      <4> QED
        BY <2>1, <4>1
    <3>2. CASE ~(attempt \in {"answered", "connected"})
      <4>1. answer' = answer /\ (revups' = revups \/ revups' = revups \o serving.forward)
        BY <1>17, <3>2 DEF SentAll
      <4> QED
        BY <2>1, <4>1
    <3> QED
      BY <3>1, <3>2
  <2>3. /\ ToSet(serving'.forward) = {}
        /\ UNCHANGED <<journal, out, toB, held, buffer, queue, taking, toMe>>
    BY <1>17, NoElements DEF SentAll, NotServing
  <2>4. Streamed' \subseteq L
    BY <1>0, <2>2, <2>3 DEF Streamed
  <2> QED
    BY <1>30, <1>31, <1>32, <2>3, <2>4
<1>18. CASE Revup
  <2>1. /\ Head(revups) \in Op /\ Tail(revups) \in Seq(Op)
        /\ ToSet(revups) = ToSet(Tail(revups)) \cup {Head(revups)}
    BY <1>0, <1>18, ElementsTaken DEF Revup, Typed
  <2>2. Message(Head(revups), "last") \in Msg /\ Message(Head(revups), "last").op = Head(revups)
    BY <2>1 DEF Message, Msg, Marks
  <2>3. Remark(queue, "last", "none") \in Seq(Msg)
        /\ OpsOf(Remark(queue, "last", "none")) = OpsOf(queue)
        /\ OpsOf(Remark(taking, "last", "none")) = OpsOf(taking)
        /\ OpsOf(Remark(buffer, "last", "none")) = OpsOf(buffer)
    BY <1>0, RemarkKeeps DEF Typed, Marks
  <2>4. /\ OpsOf(queue') = OpsOf(queue) \cup {Head(revups)} /\ OpsOf(taking') = OpsOf(taking)
        /\ OpsOf(buffer') = OpsOf(buffer) /\ revups' = Tail(revups)
        /\ UNCHANGED <<journal, out, toB, held, serving, answer, toMe>>
    BY <1>18, <2>2, <2>3, OpsOfAppended DEF Revup
  <2>5. Streamed' \subseteq L
    BY <1>0, <2>1, <2>4 DEF Streamed
  <2>6. Head(revups) \in K
    BY <1>0, <2>1 DEF Streamed
  <2>7. Pending' \subseteq L
    BY <1>0, <2>4, <2>6 DEF Pending
  <2> QED
    BY <1>30, <1>32, <2>4, <2>5, <2>7
<1>19. CASE RevupsEnd
  <2>1. /\ OpsOf(Remark(taking, "last", "due")) = OpsOf(taking)
        /\ OpsOf(Remark(buffer, "last", "due")) = OpsOf(buffer)
        /\ OpsOf(Remark(queue, "last", "due")) = OpsOf(queue)
        /\ Remark(queue, "last", "due") \in Seq(Msg)
        /\ Live(held) \in Seq(Msg) /\ OpsOf(Live(held)) = ToSet(held)
    BY <1>0, RemarkKeeps, LiveMessages DEF Typed, Marks
  <2>2. /\ OpsOf(queue') = OpsOf(queue) \cup ToSet(held) /\ OpsOf(taking') = OpsOf(taking)
        /\ OpsOf(buffer') = OpsOf(buffer) /\ ToSet(held') = {}
        /\ UNCHANGED <<journal, out, toB, revups, serving, answer, toMe>>
    BY <1>19, <2>1, OpsOfJoined, NoElements DEF RevupsEnd
  <2>3. Streamed' \subseteq L
    BY <1>0, <2>2 DEF Streamed
  <2>4. Pending' \subseteq L
    BY <1>0, <2>2 DEF Pending, Streamed
  <2> QED
    BY <1>30, <1>32, <2>2, <2>3, <2>4
<1>20. CASE Take
  <2>1. /\ OpsOf(queue) = OpsOf(Tail(queue)) \cup {Head(queue).op}
        /\ OpsOf(<<Head(queue)>>) = {Head(queue).op}
    BY <1>0, <1>20, OpsOfTaken DEF Take, Typed
  <2>2. /\ OpsOf(queue') \cup OpsOf(taking') \subseteq OpsOf(queue)
        /\ UNCHANGED <<journal, out, toB, held, revups, serving, answer, buffer, toMe>>
    BY <1>20, <2>1 DEF Take
  <2>3. Streamed' \subseteq L /\ Pending' \subseteq L
    BY <1>0, <2>2 DEF Streamed, Pending
  <2> QED
    BY <1>30, <1>32, <2>2, <2>3
<1>21. CASE Accept
  <2>1. PICK a \in Seq(Op) :
           /\ ToSet(a) \subseteq OpsOf(buffer) \cup OpsOf(taking)
           /\ journal' = journal \o a
           /\ OpsOf(buffer') \subseteq OpsOf(buffer) /\ taking' = <<>>
           /\ UNCHANGED <<queue, held, revups, serving, out, answer, toMe, toB>>
    BY <1>21, AcceptFacts
  <2>2. ToSet(journal') = ToSet(journal) \cup ToSet(a)
    BY <1>0, <2>1, ElementsJoined DEF Typed
  <2>3. Streamed' \subseteq L /\ Pending' \subseteq L
    BY <1>0, <2>1, <2>2, NoOps DEF Streamed, Pending
  <2> QED
    BY <1>30, <1>32, <2>1, <2>3
<1>22. CASE Buffer
  <2>1. taking[1] \in Msg /\ taking[1].op \in OpsOf(taking)
    BY <1>0, <1>22, OpsOfMessages DEF Buffer, Typed
  <2>2. /\ OpsOf(buffer') = OpsOf(buffer) \cup {taking[1].op} /\ OpsOf(taking') = {}
        /\ UNCHANGED <<journal, out, toB, held, revups, serving, answer, queue, toMe>>
    BY <1>0, <1>22, <2>1, OpsOfAppended, NoOps DEF Buffer, Typed
  <2>3. Streamed' \subseteq L /\ Pending' \subseteq L
    BY <1>0, <2>1, <2>2 DEF Streamed, Pending
  <2> QED
    BY <1>30, <1>32, <2>2, <2>3
<1>23. CASE Disordered \/ BackingUp
  <2>1. /\ ToSet(held') = {} /\ ToSet(revups') = {} /\ OpsOf(queue') = {} /\ OpsOf(buffer') = {}
        /\ OpsOf(taking') \subseteq OpsOf(taking) /\ ToSet(out') \subseteq ToSet(out)
        /\ UNCHANGED <<journal, toB, serving, answer, toMe>>
    BY <1>23, DetachedElements, NoElements, NoOps
       DEF Disordered, BackingUp, Reconnect, Opportunity
  <2>2. Streamed' \subseteq L /\ Pending' \subseteq L
    BY <1>0, <2>1 DEF Streamed, Pending
  <2> QED
    BY <1>30, <1>32, <2>1, <2>2
<1>25. ASSUME NEW p \in {"b", "c"}, Arrive(p) PROVE Known'
  <2>1. toMe[p] \in Seq(Op) /\ toMe[p] # <<>>
    BY <1>0, <1>25 DEF Arrive, Typed
  <2>2. Head(toMe[p]) \in Op /\ Tail(toMe[p]) \in Seq(Op)
        /\ ToSet(toMe[p]) = ToSet(Tail(toMe[p])) \cup {Head(toMe[p])}
    BY <2>1, ElementsTaken
  <2>3. ToSet(Append(held, Head(toMe[p]))) = ToSet(held) \cup {Head(toMe[p])}
    BY <1>0, <2>2, ElementsAppended DEF Typed
  <2>4. Message(Head(toMe[p]), "none") \in Msg /\ Message(Head(toMe[p]), "none").op = Head(toMe[p])
    BY <2>2 DEF Message, Msg, Marks
  <2>5. OpsOf(Append(queue, Message(Head(toMe[p]), "none"))) = OpsOf(queue) \cup {Head(toMe[p])}
    BY <1>0, <2>4, OpsOfAppended DEF Typed
  <2>6. Head(toMe[p]) \in K
    BY <1>0, <2>2
  <2>7. /\ ToSet(held') \subseteq ToSet(held) \cup {Head(toMe[p])}
        /\ OpsOf(queue') \subseteq OpsOf(queue) \cup {Head(toMe[p])}
        /\ UNCHANGED <<journal, out, toB, revups, serving, answer, buffer, taking>>
    BY <1>25, <2>3, <2>5 DEF Arrive
  <2>8. \A q \in {"b", "c"} : ToSet(toMe'[q]) \subseteq ToSet(toMe[q])
    <3>1. toMe' = [toMe EXCEPT ![p] = Tail(@)]
      BY <1>25 DEF Arrive
    <3> QED
      BY <1>0, <2>2, <3>1 DEF Typed
  <2>9. Streamed' \subseteq L /\ Pending' \subseteq L
    BY <1>0, <2>6, <2>7 DEF Streamed, Pending
  <2> QED
    BY <1>0, <1>30, <2>8, <2>9
<1>26. ASSUME NEW p \in {"me", "c"}, BReceives(p) PROVE Known'
  <2> DEFINE op == Head(toB[p])
  <2>1. toB[p] \in Seq(Op) /\ toB[p] # <<>>
    BY <1>0, <1>26 DEF BReceives, Typed
  <2>2. op \in Op /\ Tail(toB[p]) \in Seq(Op) /\ ToSet(toB[p]) = ToSet(Tail(toB[p])) \cup {op}
        /\ op = toB[p][1] /\ 1 \in DOMAIN toB[p]
    BY <2>1, ElementsTaken
  <2>3. op \in K
    <3>1. CASE p = "me"
      BY <1>0, <2>2, <3>1 DEF Streamed
    <3>2. CASE p = "c"
      <4>1. op = [p |-> "c", n |-> BHas["c"] + 1]
        BY <2>2, <3>2 DEF Whole, Collaborator
      <4>2. /\ BHas["c"] + Len(toB["c"]) = Len(log["c"]) /\ Len(toB["c"]) > 0 /\ Len(toB["c"]) \in Nat
            /\ BHas["c"] \in Nat
        <5>1. BHas["c"] \in Nat
          BY <1>0, BHasIsClock, WritersAre
        <5>2. Len(toB["c"]) > 0 /\ Len(toB["c"]) \in Nat
          BY <2>1, <3>2, ElementsTaken
        <5> QED
          BY <5>1, <5>2 DEF Whole, Collaborator
      <4>3. BHas["c"] + 1 <= Written["c"] /\ BHas["c"] + 1 \in Nat \ {0}
        BY <1>0, <4>2, WrittenIsClock, WritersAre
      <4> QED
        BY <1>0, <4>1, <4>3, CoveredMembers, WrittenIsClock, WritersAre DEF K
    <3> QED
      BY <3>1, <3>2
  <2>4. ToSet(Append(serving.forward, op)) = ToSet(serving.forward) \cup {op}
    BY <1>0, <2>2, ElementsAppended DEF Typed
  <2>5. /\ toB' = [toB EXCEPT ![p] = Tail(@)]
        /\ IF op.n = BHas[op.p] + 1 THEN BHas1(op) ELSE UNCHANGED <<bJournal, bTicked, serving>>
        /\ UNCHANGED <<journal, out, held, revups, answer, buffer, queue, taking, toMe>>
    BY <1>26 DEF BReceives
  <2> HIDE DEF op
  <2>6. serving' = serving \/ serving' = [serving EXCEPT !.forward = Append(@, op)]
    BY <2>5 DEF BHas1
  <2>7. ToSet(serving'.forward) \subseteq ToSet(serving.forward) \cup {op}
    BY <1>0, <2>4, <2>6 DEF Typed
  <2>8. ToSet(toB'["me"]) \subseteq ToSet(toB["me"])
    BY <1>0, <2>2, <2>5 DEF Typed
  <2>9. Streamed' \subseteq L
    BY <1>0, <2>3, <2>5, <2>7, <2>8 DEF Streamed
  <2> QED
    BY <1>30, <1>31, <1>32, <2>5, <2>9
<1> QED
  BY <1>1, <1>2, <1>3, <1>4, <1>5, <1>6, <1>7, <1>8, <1>9, <1>10, <1>11, <1>12, <1>13, <1>14,
     <1>15, <1>16, <1>17, <1>18, <1>19, <1>20, <1>21, <1>22, <1>23, <1>25, <1>26
     DEF Next, Environment, Process

-----------------------------------------------------------------------------
(* The collaborator, and what is emitted to it *)

\* A journal that one more operation is appended to has one more.
LEMMA JournalGrows ==
  ASSUME Typed, Collaborator, NEW op \in Op, op.n = BHas[op.p] + 1,
         bJournal' = Append(bJournal, op)
  PROVE  /\ BHas' = [BHas EXCEPT ![op.p] = op.n] /\ BHas' \in Clock
         /\ ToSet(bJournal') = Covered(BHas') /\ AtMost(BHas, BHas')
         /\ ToSet(bJournal') = ToSet(bJournal) \cup {op}
<1> DEFINE t == [BHas EXCEPT ![op.p] = op.n]
<1>1. BHas \in Clock /\ op.p \in Writer /\ op.n \in Nat \ {0} /\ op = [p |-> op.p, n |-> op.n]
  BY BHasIsClock DEF Op
<1>2. t \in Clock /\ Covered(t) = Covered(BHas) \cup {op} /\ AtMost(BHas, t)
  <2>1. /\ t \in Clock /\ AtMost(BHas, t)
        /\ Covered(t) = Covered(BHas) \cup {[p |-> op.p, n |-> op.n]}
    <3> DEFINE p == op.p
               n == op.n
    <3>1. p \in Writer /\ n \in Nat \ {0} /\ n = BHas[p] + 1
      BY <1>1
    <3> HIDE DEF p, n
    <3>2. /\ [BHas EXCEPT ![p] = n] \in Clock /\ AtMost(BHas, [BHas EXCEPT ![p] = n])
          /\ Covered([BHas EXCEPT ![p] = n]) = Covered(BHas) \cup {[p |-> p, n |-> n]}
      BY <1>1, <3>1, CoveredNext
    <3> QED
      BY <3>2 DEF p, n
  <2> QED
    BY <1>1, <2>1
<1> HIDE DEF t
<1>3. bJournal' \in Seq(Op) /\ ToSet(bJournal') = ToSet(bJournal) \cup {op}
  BY ElementsAppended, SMTT(30) DEF Typed
<1>4. ToSet(bJournal') = Covered(t)
  BY <1>2, <1>3 DEF Collaborator
<1>5. TimeOf(bJournal') = t
  BY <1>2, <1>3, <1>4, TimeIsCovered
<1>6. BHas' = t
  BY <1>5 DEF BHas
<1> QED
  BY <1>2, <1>3, <1>4, <1>6 DEF t

\* Every step keeps it that the collaborator has what its journal shows.
LEMMA CollaboratorStep ==
  ASSUME Whole, Next
  PROVE  Collaborator'
<1> USE DEF collaborator, network, database, receiving, deciding
<1>0. /\ Typed /\ Collaborator /\ BHas \in Clock /\ (\A p \in Writer : BHas[p] \in Nat)
      /\ Written \in Clock /\ (\A p \in Writer : Written[p] = Len(log[p]) /\ Len(log[p]) \in Nat)
      /\ "me" \in Writer /\ "b" \in Writer /\ "c" \in Writer
      /\ Written' \in Clock /\ AtMost(Written, Written') /\ (log' = log => Written' = Written)
      /\ toB["c"] \in Seq(Op) /\ toB["me"] \in Seq(Op)
      /\ BHas["c"] \in Nat /\ BHas["b"] \in Nat /\ Len(log["c"]) \in Nat
  BY BHasIsClock, WrittenIsClock, WrittenStep, WritersAre DEF Whole, Typed
<1>1. CASE BWrites
  <2> DEFINE op == [p |-> "b", n |-> Len(log["b"]) + 1]
  <2>1. /\ Writes("b", BHas) /\ bJournal' = Append(bJournal, op) /\ toB' = toB
    BY <1>1 DEF BWrites, Writes
  <2>2. /\ Written' = [Written EXCEPT !["b"] = Written["b"] + 1]
        /\ \A q \in Writer : Len(log'[q]) = Written'[q]
    BY <1>0, <2>1, WrittenGrows
  <2>3. op \in Op /\ op.n = BHas[op.p] + 1 /\ op.p = "b" /\ op.n = Written["b"] + 1
    BY <1>0 DEF Op, Collaborator
  <2> HIDE DEF op
  <2>4. /\ BHas' = [BHas EXCEPT !["b"] = op.n] /\ BHas' \in Clock /\ ToSet(bJournal') = Covered(BHas')
    BY <1>0, <2>1, <2>3, JournalGrows
  <2>5. BHas'["b"] = Written'["b"] /\ BHas'["c"] = BHas["c"] /\ BHas'["me"] = BHas["me"]
        /\ Written'["c"] = Written["c"] /\ Written'["me"] = Written["me"]
    BY <1>0, <2>2, <2>3, <2>4 DEF Clock
  <2>6. AtMost(BHas', Written')
    <3>1. BHas["c"] <= Written["c"] /\ BHas["me"] <= Written["me"]
      BY <1>0 DEF Collaborator, AtMost
    <3>2. BHas'["b"] <= Written'["b"]
      BY <1>0, <2>5 DEF Clock
    <3> QED
      BY <2>5, <3>1, <3>2, WritersAre DEF AtMost
  <2>7. BHas'["b"] = Len(log'["b"]) /\ Len(log'["c"]) = Len(log["c"])
    BY <1>0, <2>2, <2>5
  <2> QED
    BY <1>0, <2>1, <2>4, <2>5, <2>6, <2>7 DEF Collaborator
<1>2. CASE CWrites
  <2> DEFINE op == [p |-> "c", n |-> Len(log["c"]) + 1]
             s == toB["c"]
  <2>1. log'["c"] # log["c"]
    <3>1. PICK t : log'["c"] = Append(log["c"], t)
      BY <1>0, <1>2 DEF CWrites, Typed
    <3>2. log["c"] \in Seq(Clock)
      BY <1>0 DEF Typed
    <3>3. Len(Append(log["c"], t)) = Len(log["c"]) + 1
      BY <3>2
    <3> QED
      BY <1>0, <3>1, <3>3
  <2>2. ~BWrites /\ ~Write
    BY <1>0, <2>1 DEF BWrites, Write, Typed
  <2>3. PICK t \in Clock : Writes("c", t)
    BY <1>0, <2>1, <2>2, WritersWrite
  <2>4. /\ Written' = [Written EXCEPT !["c"] = Written["c"] + 1]
        /\ \A q \in Writer : Len(log'[q]) = Written'[q]
    BY <1>0, <2>3, WrittenGrows
  <2>5. /\ toB' = [toB EXCEPT !.c = Append(@, op)] /\ bJournal' = bJournal
    BY <1>2 DEF CWrites
  <2>6. BHas' = BHas
    BY <2>5 DEF BHas
  <2>7. op \in Op
    BY <1>0 DEF Op
  <2>8. /\ Len(Append(s, op)) = Len(s) + 1 /\ Len(s) \in Nat /\ DOMAIN s = 1 .. Len(s)
        /\ DOMAIN Append(s, op) = 1 .. Len(s) + 1
        /\ (\A i \in 1 .. Len(s) : Append(s, op)[i] = s[i]) /\ Append(s, op)[Len(s) + 1] = op
    BY <1>0, <2>7, ElementsAppended, Elements
  <2>9. toB'["c"] = Append(s, op)
    BY <1>0, <2>5 DEF Typed
  <2>10. BHas["c"] + Len(s) = Len(log["c"]) /\ \A i \in 1 .. Len(s) : s[i] = [p |-> "c", n |-> BHas["c"] + i]
    BY <1>0, <2>8 DEF Collaborator
  <2>11. op = [p |-> "c", n |-> BHas["c"] + (Len(s) + 1)]
    <3>1. /\ BHas["c"] \in Nat /\ Len(s) \in Nat /\ Len(log["c"]) \in Nat
          /\ BHas["c"] + Len(s) = Len(log["c"])
      BY <1>0, <2>8, <2>10
    <3> HIDE DEF s
    <3>2. Len(log["c"]) + 1 = BHas["c"] + (Len(s) + 1)
      BY <3>1
    <3> QED
      BY <3>2
  <2>12. Len(log'["c"]) = Len(log["c"]) + 1 /\ Len(log'["b"]) = Len(log["b"])
    BY <1>0, <2>4 DEF Clock
  <2> HIDE DEF op, s
  <2>13. BHas'["c"] + Len(toB'["c"]) = Len(log'["c"])
    <3>1. /\ BHas["c"] \in Nat /\ BHas' = BHas /\ Len(s) \in Nat /\ Len(log["c"]) \in Nat
          /\ Len(toB'["c"]) = Len(s) + 1 /\ Len(log'["c"]) = Len(log["c"]) + 1
          /\ BHas["c"] + Len(s) = Len(log["c"])
      BY <1>0, <2>6, <2>8, <2>9, <2>10, <2>12
    <3> QED
      BY <3>1
  <2>14. \A i \in DOMAIN toB'["c"] : toB'["c"][i] = [p |-> "c", n |-> BHas'["c"] + i]
    <3> TAKE i \in DOMAIN toB'["c"]
    <3>1. i \in 1 .. Len(s) + 1
      BY <2>8, <2>9
    <3>2. CASE i \in 1 .. Len(s)
      BY <2>6, <2>8, <2>9, <2>10, <3>2
    <3>3. CASE i = Len(s) + 1
      BY <2>6, <2>8, <2>9, <2>11, <3>3
    <3> QED
      BY <2>8, <3>1, <3>2, <3>3
  <2>15. AtMost(BHas', Written')
    BY <1>0, <2>6, AtMostTransitive DEF Collaborator
  <2>16. ToSet(bJournal') = Covered(BHas') /\ BHas'["b"] = Len(log'["b"])
    BY <1>0, <2>5, <2>6, <2>12 DEF Collaborator
  <2> QED
    BY <2>13, <2>14, <2>15, <2>16 DEF Collaborator
<1>3. ASSUME NEW p \in {"me", "c"}, BReceives(p) PROVE Collaborator'
  <2> DEFINE op == Head(toB[p])
             s == toB["c"]
  <2>1. /\ toB[p] # <<>> /\ toB' = [toB EXCEPT ![p] = Tail(@)] /\ log' = log
        /\ IF op.n = BHas[op.p] + 1 THEN BHas1(op) ELSE UNCHANGED <<bJournal, bTicked, serving>>
    BY <1>3 DEF BReceives
  <2>2. op \in Op /\ op = toB[p][1] /\ op \in ToSet(toB[p]) /\ 1 \in DOMAIN toB[p]
    BY <1>0, <2>1, ElementsTaken
  <2>3. op.p = p
    <3>1. CASE p = "me"
      BY <2>2, <3>1 DEF Whole, Own
    <3>2. CASE p = "c"
      <4>1. toB["c"][1] = [p |-> "c", n |-> BHas["c"] + 1]
        BY <1>0, <2>2, <3>2 DEF Collaborator
      <4> QED
        BY <2>2, <3>2, <4>1
    <3> QED
      BY <3>1, <3>2
  <2>4. Written' = Written
    BY <1>0, <2>1
  <2>5. op \in Covered(Written)
    <3>1. CASE p = "me"
      BY <2>2, <3>1 DEF Whole, Known
    <3>2. CASE p = "c"
      <4>1. op = [p |-> "c", n |-> BHas["c"] + 1]
        BY <2>2, <3>2 DEF Whole, Collaborator
      <4>2. Len(toB["c"]) > 0 /\ Len(toB["c"]) \in Nat
        BY <1>0, <2>1, <3>2, ElementsTaken
      <4>3. BHas["c"] + 1 <= Written["c"] /\ BHas["c"] + 1 \in Nat \ {0}
        BY <1>0, <4>2 DEF Collaborator
      <4> QED
        BY <1>0, <4>1, <4>3, CoveredMembers
    <3> QED
      BY <3>1, <3>2
  <2>6. op.n <= Written[p] /\ op.n \in Nat
    BY <1>0, <2>2, <2>3, <2>5, CoveredMembers DEF Op
  <2> HIDE DEF op
  <2>7. CASE p = "me"
    <3>1. toB'["c"] = toB["c"]
      BY <1>0, <2>1, <2>7 DEF Typed
    <3>2. CASE op.n = BHas[op.p] + 1
      <4>1. bJournal' = Append(bJournal, op)
        BY <2>1, <3>2 DEF BHas1
      <4>2. BHas' = [BHas EXCEPT !["me"] = op.n] /\ BHas' \in Clock /\ ToSet(bJournal') = Covered(BHas')
        BY <1>0, <2>2, <2>3, <2>7, <3>2, <4>1, JournalGrows
      <4>3. BHas'["b"] = BHas["b"] /\ BHas'["c"] = BHas["c"] /\ BHas'["me"] = op.n
        BY <1>0, <4>2 DEF Clock
      <4>4. BHas["b"] <= Written["b"] /\ BHas["c"] <= Written["c"]
        BY <1>0 DEF Collaborator, AtMost
      <4>5. AtMost(BHas', Written')
        BY <2>4, <2>6, <2>7, <4>3, <4>4, WritersAre DEF AtMost
      <4> QED
        BY <1>0, <2>1, <3>1, <4>2, <4>3, <4>5 DEF Collaborator
    <3>3. CASE op.n # BHas[op.p] + 1
      <4>1. bJournal' = bJournal
        BY <2>1, <3>3
      <4>2. BHas' = BHas
        BY <4>1 DEF BHas
      <4> QED
        BY <1>0, <2>1, <2>4, <3>1, <4>1, <4>2 DEF Collaborator
    <3> QED
      BY <3>2, <3>3
  <2>8. CASE p = "c"
    <3>1. op.n = BHas[op.p] + 1
      <4>1. toB["c"][1] = [p |-> "c", n |-> BHas["c"] + 1]
        BY <1>0, <2>2, <2>8 DEF Collaborator
      <4> QED
        BY <2>2, <2>8, <4>1
    <3>2. bJournal' = Append(bJournal, op)
      BY <2>1, <3>1 DEF BHas1
    <3>3. BHas' = [BHas EXCEPT !["c"] = op.n] /\ BHas' \in Clock /\ ToSet(bJournal') = Covered(BHas')
      BY <1>0, <2>2, <2>3, <2>8, <3>1, <3>2, JournalGrows
    <3>4. BHas'["b"] = BHas["b"] /\ BHas'["me"] = BHas["me"] /\ BHas'["c"] = BHas["c"] + 1
      BY <1>0, <2>3, <2>8, <3>1, <3>3 DEF Clock
    <3>5. BHas["b"] <= Written["b"] /\ BHas["me"] <= Written["me"]
      BY <1>0 DEF Collaborator, AtMost
    <3>6. AtMost(BHas', Written')
      <4>1. BHas'["c"] <= Written["c"]
        BY <2>3, <2>6, <2>8, <3>1, <3>4
      <4> QED
        BY <2>4, <3>4, <3>5, <4>1, WritersAre DEF AtMost
    <3>7. /\ Tail(s) \in Seq(Op) /\ Len(s) > 0 /\ Len(s) \in Nat /\ Len(Tail(s)) = Len(s) - 1
          /\ (\A i \in 1 .. Len(s) - 1 : Tail(s)[i] = s[i + 1])
          /\ DOMAIN s = 1 .. Len(s) /\ DOMAIN Tail(s) = 1 .. Len(s) - 1
      BY <1>0, <2>1, <2>8, ElementsTaken, Elements
    <3>8. toB'["c"] = Tail(s)
      BY <1>0, <2>1, <2>8 DEF Typed
    <3>9. BHas["c"] + Len(s) = Len(log["c"]) /\ \A i \in 1 .. Len(s) : s[i] = [p |-> "c", n |-> BHas["c"] + i]
      BY <1>0, <3>7 DEF Collaborator
    <3> HIDE DEF s
    <3>10. BHas'["c"] + Len(toB'["c"]) = Len(log'["c"])
      <4>1. /\ BHas["c"] \in Nat /\ BHas'["c"] = BHas["c"] + 1 /\ Len(s) \in Nat
            /\ Len(toB'["c"]) = Len(s) - 1 /\ log' = log /\ BHas["c"] + Len(s) = Len(log["c"])
        BY <1>0, <2>1, <3>4, <3>7, <3>8, <3>9
      <4> QED
        BY <4>1, SMTT(30)
    <3>11. \A i \in DOMAIN toB'["c"] : toB'["c"][i] = [p |-> "c", n |-> BHas'["c"] + i]
      <4> TAKE i \in DOMAIN toB'["c"]
      <4>1. i \in 1 .. Len(s) - 1 /\ i + 1 \in 1 .. Len(s)
        BY <3>7, <3>8
      <4>2. toB'["c"][i] = [p |-> "c", n |-> BHas["c"] + (i + 1)]
        BY <3>7, <3>8, <3>9, <4>1
      <4>3. BHas["c"] + (i + 1) = BHas'["c"] + i
        <5>1. BHas["c"] \in Nat /\ BHas'["c"] = BHas["c"] + 1 /\ i \in Nat
          BY <1>0, <3>4, <4>1
        <5> QED
          BY <5>1
      <4> QED
        BY <4>2, <4>3
    <3> QED
      BY <1>0, <2>1, <3>3, <3>4, <3>6, <3>10, <3>11 DEF Collaborator
  <2> QED
    BY <2>7, <2>8
<1>4. ASSUME UNCHANGED <<log, bJournal>>, toB'["c"] = toB["c"] PROVE Collaborator'
  <2>1. BHas' = BHas /\ Written' = Written
    BY <1>0, <1>4 DEF BHas
  <2> QED
    BY <1>0, <1>4, <2>1 DEF Collaborator
<1>5. CASE Change \/ RevupsFail \/ Restart \/ Reply \/ Retry \/ Connect \/ Attach \/ Clear \/ Insert
           \/ SentAll \/ Revup \/ RevupsEnd \/ Take \/ Accept \/ Buffer \/ Disordered \/ BackingUp
  <2>1. Change \/ RevupsFail \/ Restart \/ Reply \/ Retry \/ Connect => UNCHANGED <<log, bJournal, toB>>
    BY DEF Change, RevupsFail, Restart, Reply, Retry, Connect
  <2>2. Attach \/ Clear \/ Insert \/ SentAll \/ Revup \/ RevupsEnd => UNCHANGED <<log, bJournal, toB>>
    BY DEF Attach, Clear, Insert, SentAll, Revup, RevupsEnd
  <2>3. Take \/ Accept \/ Buffer \/ Disordered \/ BackingUp => UNCHANGED <<log, bJournal, toB>>
    BY DEF Take, Accept, Buffer, Disordered, BackingUp, Reconnect
  <2> QED
    BY <1>4, <1>5, <2>1, <2>2, <2>3
<1>6. CASE SnapshotFails \/ Fail \/ Connected
  <2>1. Over /\ UNCHANGED <<log, bJournal>>
    BY <1>6 DEF SnapshotFails, Fail, Connected
  <2> QED
    BY <1>0, <1>4, <2>1, OverElements
<1>7. CASE Decide
  <2>1. UNCHANGED <<log, bJournal>> /\ (UNCHANGED toB \/ Published(out))
    BY <1>7 DEF Decide
  <2>2. toB'["c"] = toB["c"]
    BY <1>0, <2>1, PublishedElements DEF Typed
  <2> QED
    BY <1>4, <2>1, <2>2
<1>8. CASE Write
  <2> DEFINE op == [p |-> "me", n |-> Len(log["me"]) + 1]
  <2>1. Writes("me", time) /\ time \in Clock /\ bJournal' = bJournal
    BY <1>0, <1>8 DEF Write, Writes, Typed
  <2>2. \/ UNCHANGED toB
        \/ Published(<<op>>)
    BY <1>8 DEF Write
  <2>3. op \in Op
    BY <1>0 DEF Op
  <2>4. <<op>> \in Seq(Op)
    BY <2>3
  <2> HIDE DEF op
  <2>5. toB'["c"] = toB["c"]
    BY <1>0, <2>2, <2>4, PublishedElements
  <2>6. Len(log'["b"]) = Len(log["b"]) /\ Len(log'["c"]) = Len(log["c"])
    BY <1>0, <2>1 DEF Writes, Typed
  <2>7. BHas' = BHas
    BY <2>1 DEF BHas
  <2>8. AtMost(BHas', Written')
    BY <1>0, <2>7, AtMostTransitive DEF Collaborator
  <2> QED
    BY <1>0, <2>1, <2>5, <2>6, <2>7, <2>8 DEF Collaborator
<1>9. CASE \E p \in {"b", "c"} : Arrive(p)
  BY <1>4, <1>9 DEF Arrive
<1> QED
  BY <1>1, <1>2, <1>3, <1>5, <1>6, <1>7, <1>8, <1>9 DEF Next, Environment, Process

\* Every step keeps it that all that is emitted is one's own.
LEMMA OwnStep ==
  ASSUME Whole, Next
  PROVE  Own'
<1> USE DEF collaborator, network, database, receiving, deciding
<1> DEFINE Emits == ToSet(out) \cup ToSet(toB["me"])
<1>0. Typed /\ Own /\ "me" \in Writer /\ "b" \in Writer /\ "c" \in Writer /\ toB["me"] \in Seq(Op)
  BY WritersAre DEF Whole, Typed
<1>1. ASSUME ToSet(out') \cup ToSet(toB'["me"]) \subseteq Emits PROVE Own'
  BY <1>0, <1>1 DEF Own
<1>2. CASE Change \/ Restart \/ Retry \/ Disordered \/ BackingUp
  <2>1. ToSet(out') \subseteq ToSet(out) /\ toB' = toB
    <3>1. (out' = out \/ out' = <<>>) /\ toB' = toB
      <4>1. Change \/ Restart \/ Retry => (out' = out \/ out' = <<>>) /\ toB' = toB
        BY DEF Change, Restart, Retry, Opportunity
      <4>2. Disordered \/ BackingUp => (out' = out \/ out' = <<>>) /\ toB' = toB
        BY DEF Disordered, BackingUp, Reconnect, Opportunity
      <4> QED
        BY <1>2, <4>1, <4>2
    <3> QED
      BY <3>1, NoElements
  <2> QED
    BY <1>1, <2>1
<1>3. CASE BWrites \/ RevupsFail \/ Reply \/ Attach \/ Clear \/ Insert \/ SentAll \/ Revup \/ RevupsEnd
           \/ Take \/ Accept \/ Buffer \/ \E p \in {"b", "c"} : Arrive(p)
  <2>1. BWrites \/ RevupsFail \/ Reply \/ Attach \/ Clear \/ Insert \/ SentAll => UNCHANGED <<out, toB>>
    BY DEF BWrites, RevupsFail, Reply, Attach, Clear, Insert, SentAll
  <2>2. Revup \/ RevupsEnd \/ Take \/ Accept \/ Buffer \/ (\E p \in {"b", "c"} : Arrive(p))
          => UNCHANGED <<out, toB>>
    BY DEF Revup, RevupsEnd, Take, Accept, Buffer, Arrive
  <2> QED
    BY <1>1, <1>3, <2>1, <2>2
<1>4. CASE CWrites
  BY <1>0, <1>1, <1>4 DEF CWrites, Typed
<1>5. CASE SnapshotFails \/ Fail \/ Connected
  BY <1>0, <1>1, <1>5, OverElements DEF SnapshotFails, Fail, Connected
<1>6. CASE Decide
  <2>1. UNCHANGED <<out, toB>> \/ (Published(out) /\ out' = <<>>)
    BY <1>6 DEF Decide
  <2> QED
    BY <1>0, <1>1, <2>1, PublishedElements, NoElements DEF Typed
<1>7. CASE Write
  <2> DEFINE op == [p |-> "me", n |-> Len(log["me"]) + 1]
  <2>1. \/ out' = Append(out, op) /\ UNCHANGED toB
        \/ Published(<<op>>) /\ UNCHANGED out
    BY <1>7 DEF Write
  <2>2. op \in Op /\ op.p = "me"
    BY <1>0, WrittenIsClock DEF Op
  <2> HIDE DEF op
  <2>3. <<op>> \in Seq(Op) /\ ToSet(<<op>>) = {op} /\ ToSet(Append(out, op)) = ToSet(out) \cup {op}
    <3>1. <<op>> \in Seq(Op) /\ DOMAIN <<op>> = {1} /\ <<op>>[1] = op
      BY <2>2
    <3>2. ToSet(<<op>>) = {op}
      BY <3>1 DEF ToSet
    <3>3. ToSet(Append(out, op)) = ToSet(out) \cup {op}
      BY <1>0, <2>2, ElementsAppended DEF Typed
    <3> QED
      BY <3>1, <3>2, <3>3
  <2>4. ToSet(out') \cup ToSet(toB'["me"]) \subseteq Emits \cup {op}
    BY <1>0, <2>1, <2>3, PublishedElements
  <2> QED
    BY <1>0, <2>2, <2>4 DEF Own
<1>8. CASE Connect
  <2>1. Emitted \in Seq(Op) /\ \A op \in ToSet(Emitted) : op.p = "me"
    <3>1. CASE newClone
      BY <3>1, NoElements DEF Emitted
    <3>2. CASE ~newClone
      <4>1. Picked(Since(journal, answer.gwc), journal, answer.gwc, Len(journal))
            /\ answer.gwc \in Clock
        BY <1>0, SincePicks DEF Typed, Answer
      <4>2. {journal[i] : i \in 1 .. Len(journal)} = ToSet(journal)
        BY <1>0, Elements DEF Typed, ToSet
      <4>3. Emitted = Since(journal, answer.gwc)
        BY <3>2 DEF Emitted
      <4>4. ASSUME NEW op \in ToSet(Emitted) PROVE op.p = "me"
        <5>1. op \in ToSet(journal) /\ op.n > answer.gwc[op.p]
          BY <4>1, <4>2, <4>3 DEF Picked
        <5>2. op \in Covered(disk) /\ disk \in Clock /\ time \in Clock
          BY <1>0, <5>1 DEF Whole, Journalled, Typed
        <5>3. op \in Op /\ op.n <= disk[op.p] /\ op.p \in Writer /\ op.n \in Nat
          BY <5>2, CoveredMembers DEF Op
        <5>4. disk[op.p] <= time[op.p] /\ disk[op.p] \in Nat /\ time[op.p] \in Nat /\ answer.gwc[op.p] \in Nat
          BY <4>1, <5>2, <5>3 DEF Whole, Times, AtMost, Clock
        <5>5. attempt = "answered"
          BY <1>8 DEF Connect
        <5>6. op.p \in {"b", "c"} => time[op.p] <= answer.gwc[op.p]
          BY <5>5 DEF Whole, Times
        <5> QED
          BY <5>1, <5>3, <5>4, <5>6, WritersAre
      <4> QED
        BY <4>1, <4>3, <4>4 DEF Picked
    <3> QED
      BY <3>1, <3>2
  <2>2. out' = out \o Emitted /\ toB' = toB
    BY <1>8 DEF Connect
  <2>3. ToSet(out') = ToSet(out) \cup ToSet(Emitted)
    BY <1>0, <2>1, <2>2, ElementsJoined DEF Typed
  <2> QED
    BY <1>0, <2>1, <2>2, <2>3 DEF Own
<1>9. ASSUME NEW p \in {"me", "c"}, BReceives(p) PROVE Own'
  <2>1. toB[p] \in Seq(Op) /\ toB[p] # <<>> /\ toB' = [toB EXCEPT ![p] = Tail(@)] /\ out' = out
    BY <1>0, <1>9 DEF BReceives, Typed
  <2>2. ToSet(Tail(toB[p])) \subseteq ToSet(toB[p])
    BY <2>1, ElementsTaken
  <2>3. ToSet(toB'["me"]) \subseteq ToSet(toB["me"])
    BY <1>0, <2>1, <2>2 DEF Typed
  <2> QED
    BY <1>1, <2>1, <2>3
<1> QED
  BY <1>2, <1>3, <1>4, <1>5, <1>6, <1>7, <1>8, <1>9 DEF Next, Environment, Process

-----------------------------------------------------------------------------
(* Times *)

\* The order of times is reflexive, and Zero is the first.
LEMMA AtMostItself ==
  ASSUME NEW t \in Clock
  PROVE  AtMost(t, t) /\ AtMost(Zero, t)
  BY ZeroIsClock DEF AtMost, Clock

\* The times of the state are times.
LEMMA ClockTypes ==
  ASSUME Whole
  PROVE  /\ Typed /\ Control /\ Times /\ time \in Clock /\ disk \in Clock /\ answer \in Answer
         /\ answer.gwc \in Clock /\ BHas \in Clock /\ Written \in Clock
         /\ \A p \in Writer : /\ time[p] \in Nat /\ disk[p] \in Nat /\ answer.gwc[p] \in Nat
                              /\ BHas[p] \in Nat /\ Written[p] = Len(log[p]) /\ Len(log[p]) \in Nat
<1>1. Typed /\ Control /\ Times
  BY DEF Whole
<1>2. time \in Clock /\ disk \in Clock /\ answer \in Answer /\ answer.gwc \in Clock
  BY <1>1 DEF Typed, Answer
<1>3. /\ BHas \in Clock /\ Written \in Clock
      /\ \A p \in Writer : Written[p] = Len(log[p]) /\ Len(log[p]) \in Nat
  BY <1>1, BHasIsClock, WrittenIsClock
<1> QED
  BY <1>1, <1>2, <1>3 DEF Clock

\* The collaborator never has less.
LEMMA BHasGrows ==
  ASSUME Whole, Next
  PROVE  BHas' \in Clock /\ AtMost(BHas, BHas') /\ (bJournal' = bJournal => BHas' = BHas)
<1> USE DEF collaborator, network, database, receiving, deciding
<1>0. BHas \in Clock /\ Typed /\ Collaborator
  BY ClockTypes DEF Whole
<1>1. ASSUME bJournal' = bJournal
      PROVE  BHas' \in Clock /\ AtMost(BHas, BHas') /\ BHas' = BHas
  <2>1. BHas' = BHas
    BY <1>1 DEF BHas
  <2> QED
    BY <1>0, <2>1, AtMostItself
<1>2. ASSUME NEW op \in Op, op.n = BHas[op.p] + 1, bJournal' = Append(bJournal, op)
      PROVE  BHas' \in Clock /\ AtMost(BHas, BHas') /\ bJournal' # bJournal
  <2>1. bJournal' # bJournal
    <3>1. Len(Append(bJournal, op)) = Len(bJournal) + 1 /\ Len(bJournal) \in Nat
      BY <1>0, ElementsAppended, Elements DEF Typed
    <3> QED
      BY <1>2, <3>1
  <2> QED
    BY <1>0, <1>2, <2>1, JournalGrows
<1>3. CASE BWrites
  <2> DEFINE op == [p |-> "b", n |-> Len(log["b"]) + 1]
  <2>1. bJournal' = Append(bJournal, op)
    BY <1>3 DEF BWrites
  <2>2. op \in Op /\ op.n = BHas[op.p] + 1
    <3>1. Len(log["b"]) \in Nat /\ BHas["b"] = Len(log["b"])
      BY ClockTypes, WritersAre DEF Whole, Collaborator
    <3> QED
      BY <3>1, WritersAre DEF Op
  <2> HIDE DEF op
  <2> QED
    BY <1>2, <2>1, <2>2
<1>4. ASSUME NEW p \in {"me", "c"}, BReceives(p)
      PROVE  BHas' \in Clock /\ AtMost(BHas, BHas') /\ (bJournal' = bJournal => BHas' = BHas)
  <2> DEFINE op == Head(toB[p])
  <2>1. /\ toB[p] # <<>> /\ toB[p] \in Seq(Op)
        /\ IF op.n = BHas[op.p] + 1 THEN BHas1(op) ELSE UNCHANGED <<bJournal, bTicked, serving>>
    BY <1>0, <1>4 DEF BReceives, Typed
  <2>2. op \in Op
    BY <2>1, ElementsTaken
  <2> HIDE DEF op
  <2>3. bJournal' = bJournal \/ (op.n = BHas[op.p] + 1 /\ bJournal' = Append(bJournal, op))
    BY <2>1 DEF BHas1
  <2> QED
    BY <1>1, <1>2, <2>2, <2>3
<1>5. CASE ~BWrites /\ ~\E p \in {"me", "c"} : BReceives(p)
  <2>1. CWrites \/ Change \/ Write \/ RevupsFail \/ SnapshotFails \/ Restart => bJournal' = bJournal
    BY DEF CWrites, Change, Write, RevupsFail, SnapshotFails, Restart
  <2>2. Decide \/ Reply \/ Fail \/ Retry \/ Connect \/ Attach \/ Clear \/ Insert \/ Connected
          => bJournal' = bJournal
    BY DEF Decide, Reply, Fail, Retry, Connect, Attach, Clear, Insert, Connected
  <2>3. SentAll \/ Revup \/ RevupsEnd \/ Take \/ Accept \/ Buffer \/ Disordered \/ BackingUp
          => bJournal' = bJournal
    BY DEF SentAll, Revup, RevupsEnd, Take, Accept, Buffer, Disordered, BackingUp, Reconnect
  <2>4. (\E p \in {"b", "c"} : Arrive(p)) => bJournal' = bJournal
    BY DEF Arrive
  <2> QED
    BY <1>1, <1>5, <2>1, <2>2, <2>3, <2>4 DEF Next, Environment, Process
<1> QED
  BY <1>3, <1>2, <1>4, <1>5, <1>1

\* What is applied while the time is that of a snapshot to come is nothing.
LEMMA AcceptTimes ==
  ASSUME Whole, Accept
  PROVE  /\ time' \in Clock /\ AtMost(time, time') /\ AtMost(time', Written)
         /\ time'["me"] = time["me"] /\ disk'["me"] = disk["me"]
         /\ Joined => time' = time /\ disk' = disk
         /\ ~Joined => disk' = time'
         /\ disk' = disk \/ disk' = time'
         /\ attempt \notin {"asking", "answered"}
<1>0. /\ Typed /\ time \in Clock /\ Written \in Clock
      /\ (\A p \in Writer : time[p] \in Nat /\ Written[p] = Len(log[p]))
  BY ClockTypes
<1>1. PICK a \in Seq(Op) :
        /\ time' \in Clock /\ AtMost(time, time')
        /\ Covered(time') = Covered(time) \cup ToSet(a)
        /\ ToSet(a) \cap Covered(time) = {}
        /\ ToSet(a) \subseteq OpsOf(buffer) \cup OpsOf(taking)
        /\ (a = <<>> => time' = time)
        /\ disk' = (IF a = <<>> THEN disk ELSE time')
  BY AcceptFacts
<1>2. AtMost(time', Written)
  <2>1. ToSet(a) \subseteq Covered(Written) /\ Covered(time) \subseteq Covered(Written)
    BY <1>0, <1>1, CoveredOrder DEF Whole, Known, Times
  <2> QED
    BY <1>0, <1>1, <2>1, CoveredOrder
<1>3. time'["me"] = time["me"]
  <2>1. /\ time["me"] = Len(log["me"]) /\ "me" \in Writer /\ time'["me"] \in Nat
        /\ time["me"] <= time'["me"] /\ time'["me"] <= Written["me"]
    BY <1>1, <1>2, WritersAre DEF Whole, Times, AtMost, Clock
  <2> QED
    BY <1>0, <2>1
<1>4. disk'["me"] = disk["me"]
  BY <1>1, <1>3 DEF Whole, Times
<1>5. ASSUME Joined PROVE time' = time /\ disk' = disk
  <2>1. time = answer.gwc /\ Pending \subseteq Covered(answer.gwc)
    BY <1>5 DEF Whole, Times, Stale
  <2>2. ToSet(a) = {}
    BY <1>1, <2>1 DEF Pending
  <2>3. a = <<>>
    BY <2>2, Elements
  <2> QED
    BY <1>1, <2>3
<1>6. ~Joined => disk' = time'
  BY <1>1 DEF Whole, Times
<1>7. attempt \notin {"asking", "answered"}
  BY DEF Accept, StateFree
<1> QED
  BY <1>1, <1>2, <1>3, <1>4, <1>5, <1>6, <1>7

\* Every step keeps the order of the times of the clone, its disk, an answer, and all.
LEMMA TimesStep ==
  ASSUME Whole, Next, Adverse \subseteq {"write-unconnected", "late-delivery"}
  PROVE  Times'
<1> USE DEF collaborator, network, database, receiving, deciding
<1>0. /\ Typed /\ Control /\ Times /\ time \in Clock /\ disk \in Clock /\ answer \in Answer
      /\ answer.gwc \in Clock /\ BHas \in Clock /\ Written \in Clock /\ BHas' \in Clock
      /\ Written' \in Clock /\ AtMost(Written, Written') /\ (log' = log => Written' = Written)
      /\ AtMost(BHas, BHas') /\ (bJournal' = bJournal => BHas' = BHas)
      /\ "me" \in Writer /\ "b" \in Writer /\ "c" \in Writer
  BY ClockTypes, BHasGrows, WrittenStep, WritersAre
<1>30. NoAnswer.kind = "none" /\ NoAnswer.gwc = Zero /\ AtMost(Zero, BHas')
  BY <1>0, NoAnswerIs, AtMostItself
<1>31. AtMost(time, Written') /\ AtMost(answer.gwc, BHas')
  BY <1>0, AtMostTransitive DEF Times
\* Actions that leave times alone
<1>1. ASSUME UNCHANGED <<time, disk, newClone, answer, attempt>>, log'["me"] = log["me"]
      PROVE  Times'
  BY <1>0, <1>1, <1>31 DEF Times, Joined
<1>2. CASE BWrites \/ CWrites
  <2>1. UNCHANGED <<time, disk, newClone, answer, attempt>> /\ log'["me"] = log["me"]
    BY <1>0, <1>2 DEF BWrites, CWrites, Typed
  <2> QED
    BY <1>1, <2>1
<1>3. CASE Change \/ RevupsFail \/ Retry \/ Revup \/ Take \/ Buffer \/ Disordered \/ BackingUp
  <2>1. Change \/ RevupsFail \/ Retry \/ Revup => UNCHANGED <<time, disk, newClone, answer, attempt, log>>
    BY DEF Change, RevupsFail, Retry, Revup
  <2>2. Take \/ Buffer \/ Disordered \/ BackingUp => UNCHANGED <<time, disk, newClone, answer, attempt, log>>
    BY DEF Take, Buffer, Disordered, BackingUp, Reconnect
  <2> QED
    BY <1>1, <1>3, <2>1, <2>2
<1>4. CASE \/ \E p \in {"b", "c"} : Arrive(p)
           \/ \E p \in {"me", "c"} : BReceives(p)
  BY <1>1, <1>4 DEF Arrive, BReceives
<1>5. ASSUME UNCHANGED <<time, disk, log, newClone>>, attempt' \in {"idle", "asking"},
             answer' = NoAnswer, ~Joined \/ disk = time
      PROVE  Times'
  BY <1>0, <1>5, <1>30 DEF Times, Joined
<1>6. CASE SnapshotFails \/ Fail \/ Connected
  <2>1. Over /\ UNCHANGED <<time, disk, log, newClone>>
    BY <1>6 DEF SnapshotFails, Fail, Connected
  <2>2. ~Joined \/ disk = time
    <3>1. SnapshotFails => disk = time
      BY <1>0 DEF SnapshotFails, Times
    <3>2. Fail => ~Joined
      BY DEF Fail, Joined
    <3>3. Connected => ~Joined
      BY DEF Connected, Joined
    <3> QED
      BY <1>6, <3>1, <3>2, <3>3
  <2> QED
    BY <1>5, <2>1, <2>2 DEF Over
<1>7. CASE Decide
  <2>1. /\ UNCHANGED <<time, disk, log, newClone, answer>> /\ attempt = "idle"
        /\ attempt' \in {"idle", "asking"}
    BY <1>7 DEF Decide
  <2>2. answer' = NoAnswer
    BY <1>0, <2>1 DEF Control
  <2> QED
    BY <1>5, <2>1, <2>2 DEF Joined
<1>8. CASE Restart
  <2>1. /\ time' = disk /\ newClone' = FALSE /\ attempt' = "idle" /\ answer' = NoAnswer
        /\ UNCHANGED <<disk, log>>
    BY <1>8 DEF Restart
  <2>2. AtMost(disk, Written) /\ AtMost(disk, disk)
    BY <1>0, AtMostTransitive, AtMostItself DEF Times
  <2> QED
    BY <1>0, <1>30, <2>1, <2>2 DEF Times, Joined
<1>9. CASE Write
  <2> DEFINE n == Len(log["me"]) + 1
  <2>1. /\ time' = [time EXCEPT !["me"] = n] /\ disk' = time' /\ UNCHANGED <<newClone, attempt, answer>>
        /\ attempt = "idle" /\ ~newClone
    BY <1>9 DEF Write
  <2>2. Writes("me", time)
    BY <1>0, <1>9 DEF Write, Writes, Typed
  <2>3. /\ Written' = [Written EXCEPT !["me"] = Written["me"] + 1]
        /\ (\A q \in Writer : Len(log'[q]) = Written'[q])
    BY <1>0, <2>2, WrittenGrows
  <2>4. n = Written["me"] + 1 /\ n = time["me"] + 1 /\ n \in Nat /\ n # 0
    BY <1>0, ClockTypes DEF Times
  <2> HIDE DEF n
  <2>5. time' \in Clock
    BY <1>0, <2>1, <2>4 DEF Clock
  <2>6. AtMost(time', Written') /\ AtMost(time', time')
    <3>1. \A p \in Writer : time'[p] <= Written'[p]
      <4> TAKE p \in Writer
      <4>1. time[p] <= Written[p] /\ n <= n
        BY <1>0, <2>4 DEF Times, AtMost
      <4> QED
        BY <1>0, <2>1, <2>3, <2>4, <4>1 DEF Clock
    <3> QED
      BY <2>5, <3>1, AtMostItself DEF AtMost
  <2>7. time'["me"] = Len(log'["me"])
    BY <1>0, <2>1, <2>3, <2>4 DEF Clock
  <2>8. answer' = NoAnswer
    BY <1>0, <2>1 DEF Control
  <2> QED
    BY <1>30, <2>1, <2>6, <2>7, <2>8 DEF Times, Joined
<1>10. CASE Reply
  <2>1. /\ attempt = "asking" /\ attempt' = "answered" /\ answer'.gwc = BHas
        /\ (answer'.kind = "snapshot" => AtMost(time, BHas)) /\ toB["c"] = <<>>
        /\ UNCHANGED <<time, disk, log, newClone, bJournal>>
    BY <1>10 DEF Reply
  <2>2. time["b"] <= BHas["b"] /\ time["c"] <= BHas["c"]
    <3>1. /\ BHas["b"] = Written["b"] /\ BHas["c"] + 0 = Written["c"] /\ BHas["c"] \in Nat
          /\ time["b"] <= Written["b"] /\ time["c"] <= Written["c"]
      <4>1. Len(toB["c"]) = 0
        BY <2>1
      <4> QED
        BY <1>0, <2>1, <4>1, ClockTypes DEF Whole, Collaborator, Times, AtMost
    <3> QED
      BY <3>1
  <2>3. AtMost(BHas, BHas') /\ ~Joined /\ ~Joined'
    BY <1>0, <2>1 DEF Joined
  <2> QED
    BY <1>0, <2>1, <2>2, <2>3 DEF Times, Joined
<1>11. CASE Connect
  <2>1. /\ attempt = "answered" /\ attempt' = "connected" /\ answer'.kind = answer.kind
        /\ answer'.gwc = answer.gwc /\ UNCHANGED <<disk, log, newClone, bJournal>>
        /\ (answer.kind = "revup" => time' = time)
        /\ (answer.kind # "revup" => time' = Join(time, answer.gwc))
    BY <1>0, <1>11 DEF Connect, Answer
  <2>2. disk = time
    BY <1>0, <2>1 DEF Times, Joined
  <2>3. answer.kind \in {"revup", "snapshot"}
    BY <1>0, <2>1 DEF Control, Answer
  <2>4. CASE answer.kind = "revup"
    BY <1>0, <1>31, <2>1, <2>2, <2>4 DEF Times, Joined
  <2>5. CASE answer.kind = "snapshot"
    <3>1. time' = answer.gwc /\ AtMost(time, answer.gwc)
      BY <1>0, <2>1, <2>5, JoinIsLater DEF Times
    <3>2. AtMost(answer.gwc, Written)
      BY <1>0, AtMostTransitive DEF Whole, Collaborator, Times
    <3>3. answer.gwc["me"] = Len(log["me"])
      <4>1. /\ time["me"] = Len(log["me"]) /\ answer.gwc["me"] <= Written["me"]
            /\ time["me"] <= answer.gwc["me"]
        BY <1>0, <3>1, <3>2 DEF AtMost, Times
      <4>2. answer.gwc["me"] \in Nat /\ Written["me"] = Len(log["me"]) /\ Len(log["me"]) \in Nat
        BY <1>0, ClockTypes
      <4> QED
        BY <4>1, <4>2
    <3> QED
      BY <1>0, <1>31, <2>1, <2>2, <2>5, <3>1, <3>2, <3>3 DEF Times, Joined
  <2> QED
    BY <2>3, <2>4, <2>5
<1>12. CASE Attach
  <2>1. attempt = "connected" /\ attempt' = "attached" /\ UNCHANGED <<time, disk, log, newClone, answer>>
    BY <1>12 DEF Attach
  <2> QED
    BY <1>0, <1>31, <2>1 DEF Times, Joined
<1>13. CASE Clear
  <2>1. /\ attempt = "attached" /\ answer.kind = "snapshot" /\ attempt' = "cleared" /\ disk' = time
        /\ UNCHANGED <<time, log, newClone, answer>>
    BY <1>13 DEF Clear
  <2>2. AtMost(time, time)
    BY <1>0, AtMostItself
  <2> QED
    BY <1>0, <1>31, <2>1, <2>2 DEF Times, Joined
<1>14. CASE Insert
  <2>1. attempt = "cleared" /\ attempt' = "inserted" /\ UNCHANGED <<time, disk, log, newClone, answer>>
    BY <1>14 DEF Insert
  <2> QED
    BY <1>0, <1>31, <2>1 DEF Times, Joined
<1>15. CASE SentAll
  <2>1. /\ answer'.kind = answer.kind /\ answer'.gwc = answer.gwc
        /\ UNCHANGED <<time, disk, log, newClone, attempt>>
    BY <1>0, <1>15 DEF SentAll, Answer
  <2> QED
    BY <1>0, <1>31, <2>1 DEF Times, Joined
<1>16. CASE RevupsEnd
  <2>1. UNCHANGED <<time, disk, log, answer, attempt>> /\ newClone' = FALSE
    BY <1>16 DEF RevupsEnd
  <2> QED
    BY <1>0, <1>31, <2>1 DEF Times, Joined
<1>17. CASE Accept
  <2>1. /\ time' \in Clock /\ AtMost(time, time') /\ AtMost(time', Written)
        /\ time'["me"] = time["me"] /\ disk'["me"] = disk["me"]
        /\ (Joined => time' = time /\ disk' = disk)
        /\ (~Joined => disk' = time')
        /\ (disk' = disk \/ disk' = time')
        /\ attempt \notin {"asking", "answered"}
    BY <1>17, AcceptTimes
  <2>2. UNCHANGED <<log, newClone, answer, attempt>>
    BY <1>17 DEF Accept
  <2>3. AtMost(disk', time')
    BY <1>0, <2>1, AtMostItself, AtMostTransitive DEF Times
  <2>4. attempt = "cleared" => Joined
    BY <1>0 DEF Joined, Control
  <2> QED
    BY <1>0, <1>31, <2>1, <2>2, <2>3, <2>4 DEF Times, Joined
<1> QED
  BY <1>2, <1>3, <1>4, <1>6, <1>7, <1>8, <1>9, <1>10, <1>11, <1>12, <1>13, <1>14, <1>15, <1>16, <1>17
     DEF Next, Environment, Process

-----------------------------------------------------------------------------
(* What is pending *)

\* A message whose turn comes, or that is put in the buffer, stays pending.
LEMMA TurnsKeep ==
  ASSUME Whole, Take \/ Buffer
  PROVE  Pending' \subseteq Pending
<1>0. Typed
  BY DEF Whole
<1>1. CASE Take
  <2>1. /\ OpsOf(queue) = OpsOf(Tail(queue)) \cup {Head(queue).op}
        /\ OpsOf(<<Head(queue)>>) = {Head(queue).op}
    BY <1>0, <1>1, OpsOfTaken DEF Take, Typed
  <2>2. OpsOf(queue') \cup OpsOf(taking') \subseteq OpsOf(queue) /\ buffer' = buffer
    BY <1>1, <2>1 DEF Take
  <2> QED
    BY <2>2 DEF Pending
<1>2. CASE Buffer
  <2>1. taking[1] \in Msg /\ taking[1].op \in OpsOf(taking)
    BY <1>0, <1>2, OpsOfMessages DEF Buffer, Typed
  <2>2. OpsOf(buffer') = OpsOf(buffer) \cup {taking[1].op} /\ OpsOf(taking') = {} /\ queue' = queue
    BY <1>0, <1>2, <2>1, OpsOfAppended, NoOps DEF Buffer, Typed
  <2> QED
    BY <2>1, <2>2 DEF Pending
<1> QED
  BY <1>1, <1>2

\* The messages that are pending come from the queue, from what is received, or from
\* the updates of a recovery.
LEMMA PendingFrom ==
  ASSUME Whole, Next
  PROVE  \/ Pending' \subseteq Pending
         \/ Revup /\ Pending' \subseteq Pending \cup ToSet(revups)
         \/ RevupsEnd /\ Pending' \subseteq Pending \cup ToSet(held)
         \/ \E p \in {"b", "c"} : /\ Arrive(p) /\ source = "live"
                                  /\ toMe[p] # <<>> /\ Head(toMe[p]) \in Op /\ Head(toMe[p]).p = p
                                  /\ Pending' \subseteq Pending \cup {Head(toMe[p])}
<1> USE DEF collaborator, network, database, receiving, deciding
<1>0. Typed /\ Known
  BY DEF Whole
<1>1. CASE BWrites \/ CWrites \/ Change \/ Write
  BY <1>1 DEF BWrites, CWrites, Change, Write, Pending
<1>2. CASE RevupsFail \/ SnapshotFails \/ Restart
  <2>1. OpsOf(queue') = {}
    BY <1>2, DetachedElements DEF RevupsFail, SnapshotFails, Restart
  <2>2. buffer' = buffer \/ OpsOf(buffer') = {}
    BY <1>2, NoOps DEF RevupsFail, SnapshotFails, Restart
  <2>3. taking' = taking \/ OpsOf(taking') = {}
    BY <1>2, NoOps DEF RevupsFail, SnapshotFails, Restart
  <2> QED
    BY <2>1, <2>2, <2>3 DEF Pending
<1>3. CASE Decide
  <2>1. OpsOf(queue') = {} \/ queue' = queue
    BY <1>3, DetachedElements DEF Decide
  <2>2. UNCHANGED <<buffer, taking>>
    BY <1>3 DEF Decide
  <2> QED
    BY <2>1, <2>2 DEF Pending
<1>4. CASE Reply \/ Fail \/ Retry \/ Connect \/ Clear \/ Insert \/ Connected \/ SentAll
  <2>1. Reply \/ Fail \/ Retry \/ Connect => UNCHANGED <<buffer, queue, taking>>
    BY DEF Reply, Fail, Retry, Connect
  <2>2. Clear \/ Insert \/ Connected \/ SentAll => UNCHANGED <<buffer, queue, taking>>
    BY DEF Clear, Insert, Connected, SentAll
  <2> QED
    BY <1>4, <2>1, <2>2 DEF Pending
<1>5. CASE Attach
  <2>1. /\ OpsOf(Remark(taking, "last", "none")) = OpsOf(taking)
        /\ OpsOf(Remark(buffer, "last", "none")) = OpsOf(buffer)
    BY <1>0, RemarkKeeps DEF Typed, Marks
  <2>2. OpsOf(taking') = OpsOf(taking) /\ OpsOf(buffer') = OpsOf(buffer) /\ OpsOf(queue') = {}
    BY <1>5, <2>1, NoOps DEF Attach
  <2> QED
    BY <2>2 DEF Pending
<1>6. CASE Revup
  <2> DEFINE m == Message(Head(revups), "last")
             q == Remark(queue, "last", "none")
  <2>1. Head(revups) \in Op /\ Head(revups) \in ToSet(revups)
    BY <1>0, <1>6, ElementsTaken DEF Revup, Typed
  <2>2. m \in Msg /\ m.op = Head(revups)
    BY <2>1 DEF Message, Msg, Marks
  <2>3. /\ OpsOf(Remark(taking, "last", "none")) = OpsOf(taking)
        /\ OpsOf(Remark(buffer, "last", "none")) = OpsOf(buffer)
        /\ OpsOf(q) = OpsOf(queue) /\ q \in Seq(Msg)
    BY <1>0, RemarkKeeps DEF Typed, Marks
  <2>4. queue' = Append(q, m) /\ taking' = Remark(taking, "last", "none")
        /\ buffer' = Remark(buffer, "last", "none")
    BY <1>6 DEF Revup
  <2> HIDE DEF m, q
  <2>5. OpsOf(queue') = OpsOf(queue) \cup {Head(revups)}
    BY <2>2, <2>3, <2>4, OpsOfAppended
  <2>6. Pending' \subseteq Pending \cup ToSet(revups)
    BY <2>1, <2>3, <2>4, <2>5 DEF Pending
  <2> QED
    BY <1>6, <2>6
<1>7. CASE RevupsEnd
  <2>1. /\ OpsOf(Remark(taking, "last", "due")) = OpsOf(taking)
        /\ OpsOf(Remark(buffer, "last", "due")) = OpsOf(buffer)
        /\ OpsOf(Remark(queue, "last", "due")) = OpsOf(queue)
        /\ Remark(queue, "last", "due") \in Seq(Msg)
        /\ Live(held) \in Seq(Msg) /\ OpsOf(Live(held)) = ToSet(held)
    BY <1>0, RemarkKeeps, LiveMessages DEF Typed, Marks
  <2>2. /\ OpsOf(queue') = OpsOf(queue) \cup ToSet(held) /\ OpsOf(taking') = OpsOf(taking)
        /\ OpsOf(buffer') = OpsOf(buffer)
    BY <1>7, <2>1, OpsOfJoined DEF RevupsEnd
  <2>3. Pending' \subseteq Pending \cup ToSet(held)
    BY <2>2 DEF Pending
  <2> QED
    BY <1>7, <2>3
<1>8. CASE Take \/ Buffer
  BY <1>8, TurnsKeep
<1>9. CASE Accept
  <2>1. OpsOf(buffer') \subseteq OpsOf(buffer) /\ taking' = <<>> /\ queue' = queue
    BY <1>9, AcceptFacts
  <2> QED
    BY <2>1, NoOps DEF Pending
<1>10. CASE Disordered \/ BackingUp
  <2>1. OpsOf(queue') = {} /\ OpsOf(buffer') = {} /\ OpsOf(taking') \subseteq OpsOf(taking)
    BY <1>10, DetachedElements, NoOps DEF Disordered, BackingUp, Reconnect
  <2> QED
    BY <2>1 DEF Pending
<1>11. ASSUME NEW p \in {"b", "c"}, Arrive(p)
       PROVE  \/ Pending' \subseteq Pending
              \/ /\ source = "live" /\ toMe[p] # <<>> /\ Head(toMe[p]) \in Op /\ Head(toMe[p]).p = p
                 /\ Pending' \subseteq Pending \cup {Head(toMe[p])}
  <2>1. toMe[p] \in Seq(Op) /\ toMe[p] # <<>>
    BY <1>0, <1>11 DEF Arrive, Typed
  <2>2. Head(toMe[p]) \in Op /\ Head(toMe[p]) \in ToSet(toMe[p])
    BY <2>1, ElementsTaken
  <2>3. Head(toMe[p]).p = p
    BY <1>0, <2>2 DEF Known
  <2>4. Message(Head(toMe[p]), "none") \in Msg /\ Message(Head(toMe[p]), "none").op = Head(toMe[p])
    BY <2>2 DEF Message, Msg, Marks
  <2>5. OpsOf(Append(queue, Message(Head(toMe[p]), "none"))) = OpsOf(queue) \cup {Head(toMe[p])}
    BY <1>0, <2>4, OpsOfAppended DEF Typed
  <2>6. /\ UNCHANGED <<buffer, taking>>
        /\ queue' = IF source = "live" THEN Append(queue, Message(Head(toMe[p]), "none")) ELSE queue
    BY <1>11 DEF Arrive
  <2> QED
    BY <2>1, <2>2, <2>3, <2>5, <2>6 DEF Pending
<1>12. CASE \E p \in {"me", "c"} : BReceives(p)
  BY <1>12 DEF BReceives, Pending
<1> QED
  BY <1>1, <1>2, <1>3, <1>4, <1>5, <1>6, <1>7, <1>8, <1>9, <1>10, <1>11, <1>12
     DEF Next, Environment, Process

\* The updates that are still to come are only added to by b, and with another period.
LEMMA RevupsFrom ==
  ASSUME Whole, Next
  PROVE  \/ ToSet(revups') \subseteq ToSet(revups)
         \/ Attach
         \/ SentAll /\ attempt \notin {"answered", "connected"}
<1> USE DEF collaborator, network, database, receiving, deciding
<1>1. CASE BWrites \/ CWrites \/ Change \/ Write \/ RevupsFail \/ SnapshotFails \/ Restart
  <2>1. BWrites \/ CWrites \/ Change \/ Write => revups' = revups
    BY DEF BWrites, CWrites, Change, Write
  <2>2. RevupsFail \/ SnapshotFails \/ Restart => ToSet(revups') = {}
    BY DetachedElements DEF RevupsFail, SnapshotFails, Restart
  <2> QED
    BY <1>1, <2>1, <2>2
<1>2. CASE Decide
  <2>1. revups' = revups \/ ToSet(revups') = {}
    BY <1>2, DetachedElements DEF Decide
  <2> QED
    BY <2>1
<1>3. CASE Reply \/ Fail \/ Retry \/ Connect \/ Clear \/ Insert \/ Connected
  <2>1. Reply \/ Fail \/ Retry \/ Connect => revups' = revups
    BY DEF Reply, Fail, Retry, Connect
  <2>2. Clear \/ Insert \/ Connected => revups' = revups
    BY DEF Clear, Insert, Connected
  <2> QED
    BY <1>3, <2>1, <2>2
<1>4. CASE SentAll
  <2>1. attempt \in {"answered", "connected"} => revups' = revups
    BY <1>4 DEF SentAll
  <2> QED
    BY <1>4, <2>1
<1>5. CASE Revup
  BY <1>5, ElementsTaken DEF Revup, Whole, Typed
<1>6. CASE RevupsEnd \/ Take \/ Accept \/ Buffer
  BY <1>6 DEF RevupsEnd, Take, Accept, Buffer
<1>7. CASE Disordered \/ BackingUp
  BY <1>7, DetachedElements DEF Disordered, BackingUp, Reconnect
<1>8. CASE \/ \E p \in {"b", "c"} : Arrive(p)
           \/ \E p \in {"me", "c"} : BReceives(p)
  BY <1>8 DEF Arrive, BReceives
<1> QED
  BY <1>1, <1>2, <1>3, <1>4, <1>5, <1>6, <1>7, <1>8 DEF Next, Environment, Process

\* What is held back until the rev-ups end is what is received meanwhile.
LEMMA HeldFrom ==
  ASSUME Whole, Next
  PROVE  \/ ToSet(held') \subseteq ToSet(held)
         \/ \E p \in {"b", "c"} : /\ Arrive(p) /\ toMe[p] # <<>> /\ Head(toMe[p]) \in Op /\ Head(toMe[p]).p = p
                                  /\ ToSet(held') \subseteq ToSet(held) \cup {Head(toMe[p])}
<1> USE DEF collaborator, network, database, receiving, deciding
<1>1. CASE BWrites \/ CWrites \/ Change \/ Write \/ RevupsFail \/ SnapshotFails \/ Restart
  <2>1. BWrites \/ CWrites \/ Change \/ Write => held' = held
    BY DEF BWrites, CWrites, Change, Write
  <2>2. RevupsFail \/ SnapshotFails \/ Restart => ToSet(held') = {}
    BY DetachedElements DEF RevupsFail, SnapshotFails, Restart
  <2> QED
    BY <1>1, <2>1, <2>2
<1>2. CASE Decide \/ Attach \/ RevupsEnd
  <2>1. Decide => held' = held \/ ToSet(held') = {}
    BY DetachedElements DEF Decide
  <2>2. Attach \/ RevupsEnd => ToSet(held') = {}
    BY NoElements DEF Attach, RevupsEnd
  <2> QED
    BY <1>2, <2>1, <2>2
<1>3. CASE Reply \/ Fail \/ Retry \/ Connect \/ Clear \/ Insert \/ Connected
  <2>1. Reply \/ Fail \/ Retry \/ Connect => held' = held
    BY DEF Reply, Fail, Retry, Connect
  <2>2. Clear \/ Insert \/ Connected => held' = held
    BY DEF Clear, Insert, Connected
  <2> QED
    BY <1>3, <2>1, <2>2
<1>4. CASE SentAll \/ Revup \/ Take \/ Accept \/ Buffer
  BY <1>4 DEF SentAll, Revup, Take, Accept, Buffer
<1>5. CASE Disordered \/ BackingUp
  BY <1>5, DetachedElements DEF Disordered, BackingUp, Reconnect
<1>6. CASE \E p \in {"me", "c"} : BReceives(p)
  BY <1>6 DEF BReceives
<1>7. ASSUME NEW p \in {"b", "c"}, Arrive(p)
      PROVE  /\ toMe[p] # <<>> /\ Head(toMe[p]) \in Op /\ Head(toMe[p]).p = p
             /\ ToSet(held') \subseteq ToSet(held) \cup {Head(toMe[p])}
  <2>1. toMe[p] \in Seq(Op) /\ toMe[p] # <<>> /\ held \in Seq(Op)
    BY <1>7 DEF Arrive, Whole, Typed
  <2>2. Head(toMe[p]) \in Op /\ Head(toMe[p]) \in ToSet(toMe[p])
    BY <2>1, ElementsTaken
  <2>3. Head(toMe[p]).p = p
    BY <2>2 DEF Whole, Known
  <2>4. held' = held \/ held' = Append(held, Head(toMe[p]))
    BY <1>7 DEF Arrive
  <2>5. ToSet(Append(held, Head(toMe[p]))) = ToSet(held) \cup {Head(toMe[p])}
    BY <2>1, <2>2, ElementsAppended
  <2> QED
    BY <2>1, <2>2, <2>3, <2>4, <2>5
<1> QED
  BY <1>1, <1>2, <1>3, <1>4, <1>5, <1>6, <1>7 DEF Next, Environment, Process

\* Messages are let through when rev-ups end, and only then does what is live begin.
LEMMA LiveFrom ==
  ASSUME Next, source' = "live", source # "live"
  PROVE  RevupsEnd
<1> USE DEF collaborator, network, database, receiving, deciding
<1>1. BWrites \/ CWrites \/ Change \/ Write \/ RevupsFail \/ SnapshotFails \/ Restart => source' # "live"
  BY DEF BWrites, CWrites, Change, Write, RevupsFail, SnapshotFails, Restart, Detached
<1>2. Decide \/ Reply \/ Fail \/ Retry \/ Connect \/ Attach \/ Clear \/ Insert \/ Connected
        => source' # "live"
  BY DEF Decide, Reply, Fail, Retry, Connect, Attach, Clear, Insert, Connected, Detached
<1>3. SentAll \/ Revup \/ Take \/ Accept \/ Buffer \/ Disordered \/ BackingUp => source' # "live"
  BY DEF SentAll, Revup, Take, Accept, Buffer, Disordered, BackingUp, Reconnect, Detached
<1>4. (\E p \in {"b", "c"} : Arrive(p)) \/ (\E p \in {"me", "c"} : BReceives(p)) => source' # "live"
  BY DEF Arrive, BReceives
<1> QED
  BY <1>1, <1>2, <1>3, <1>4 DEF Next, Environment, Process

\* Every step keeps it that what is pending before an answer is attached is no news.
LEMMA StaleStep ==
  ASSUME Whole, Next, Adverse \subseteq {"write-unconnected", "late-delivery"}
  PROVE  Stale'
<1> USE DEF collaborator, network, database, receiving, deciding
<1>0. /\ Typed /\ Control /\ Times /\ Stale /\ Known /\ answer \in Answer /\ answer.gwc \in Clock
      /\ BHas \in Clock /\ Written \in Clock /\ time \in Clock
  BY ClockTypes DEF Whole
<1>1. ASSUME attempt' \in {"idle", "asking", "inserted"} PROVE Stale'
  BY <1>1 DEF Stale, Joined, Applying
<1>2. ASSUME attempt' = attempt, answer'.gwc = answer.gwc, answer'.kind = answer.kind,
             Covered(time) \subseteq Covered(time'), ~ Attach, attempt \notin {"idle", "asking", "inserted"}
      PROVE  Stale'
  <2> DEFINE C == Covered(answer.gwc)
             D == Covered(time)
             D2 == Covered(time')
             Joining == attempt \in {"connected", "attached", "cleared"} /\ answer.kind = "snapshot"
             Early == attempt \in {"answered", "connected"}
  <2>1. /\ Early => Pending \cup ToSet(revups) \cup ToSet(held) \subseteq C \cup D
        /\ Joining => Pending \subseteq C /\ C = D
        /\ Applying => source # "live"
        /\ Joining => Early \/ Applying
        /\ Applying' = Applying
    <3>1. Joined = Joining
      BY DEF Joined
    <3>2. Joining => time = answer.gwc
      BY <1>0, <3>1 DEF Times
    <3>3. Joining => Early \/ Applying
      BY DEF Applying
    <3>4. Applying' = Applying
      BY <1>2 DEF Applying
    <3> QED
      BY <1>0, <3>1, <3>2, <3>3, <3>4 DEF Stale
  <2>2. D \subseteq D2
    BY <1>2
  <2>3. Early => ToSet(revups') \subseteq C \cup D2
    BY <1>2, <2>1, <2>2, RevupsFrom
  <2>4. ASSUME Early \/ Joining PROVE Pending' \subseteq C \cup D /\ (Joining => Pending' \subseteq C)
    <3>1. CASE Pending' \subseteq Pending
      BY <2>1, <2>4, <3>1
    <3>2. CASE Revup /\ Pending' \subseteq Pending \cup ToSet(revups)
      <4>1. ~Applying
        BY <3>2 DEF Revup
      <4> QED
        BY <2>1, <2>4, <3>2, <4>1
    <3>3. CASE RevupsEnd /\ Pending' \subseteq Pending \cup ToSet(held)
      <4>1. ~ Applying
        BY <3>3 DEF RevupsEnd
      <4> QED
        BY <2>1, <2>4, <3>3, <4>1
    <3>4. ASSUME NEW p \in {"b", "c"}, Arrive(p), source = "live", toMe[p] # <<>>,
                 Head(toMe[p]) \in Op, Head(toMe[p]).p = p,
                 Pending' \subseteq Pending \cup {Head(toMe[p])}
          PROVE  Pending' \subseteq C \cup D /\ (Joining => Pending' \subseteq C)
      <4>1. Early
        BY <2>1, <2>4, <3>4
      <4>2. Head(toMe[p]).n <= answer.gwc[p]
        BY <3>4, <4>1 DEF Arrive
      <4>3. Head(toMe[p]) \in C
        BY <1>0, <3>4, <4>2, CoveredMembers
      <4> QED
        BY <2>1, <3>4, <4>1, <4>3
    <3> QED
      BY <3>1, <3>2, <3>3, <3>4, PendingFrom
  <2>5. ASSUME Early PROVE ToSet(held') \subseteq C \cup D
    <3>1. CASE ToSet(held') \subseteq ToSet(held)
      BY <2>1, <2>5, <3>1
    <3>2. ASSUME NEW p \in {"b", "c"}, Arrive(p), Head(toMe[p]) \in Op, Head(toMe[p]).p = p,
                 ToSet(held') \subseteq ToSet(held) \cup {Head(toMe[p])}
          PROVE  ToSet(held') \subseteq C \cup D
      <4>1. Head(toMe[p]).n <= answer.gwc[p]
        BY <2>5, <3>2 DEF Arrive
      <4>2. Head(toMe[p]) \in C
        BY <1>0, <3>2, <4>1, CoveredMembers
      <4> QED
        BY <2>1, <2>5, <3>2, <4>2
    <3> QED
      BY <3>1, <3>2, HeldFrom
  <2>6. Applying => source' # "live"
    BY <2>1, LiveFrom DEF RevupsEnd
  <2>7. /\ Joined' => Joining
        /\ (attempt' \in {"answered", "connected"}) => Early
        /\ answer'.gwc = answer.gwc
    BY <1>2 DEF Joined
  <2> HIDE DEF C, D, D2, Joining, Early
  <2>8. (attempt' \in {"answered", "connected"}) => Pending' \cup ToSet(revups') \cup ToSet(held') \subseteq C \cup D2
    BY <2>2, <2>3, <2>4, <2>7, <2>5
  <2>9. Joined' => Pending' \subseteq C
    BY <2>4, <2>7
  <2> QED
    BY <2>1, <2>6, <2>7, <2>8, <2>9 DEF Stale, C, D2
<1>3. ASSUME attempt' = attempt, UNCHANGED <<answer, time>>, ~ Attach PROVE Stale'
  <2>1. CASE attempt \in {"idle", "asking", "inserted"}
    BY <1>1, <1>3, <2>1
  <2> QED
    BY <1>2, <1>3, <2>1
<1>4. CASE BWrites \/ CWrites \/ Change
  BY <1>3, <1>4 DEF BWrites, CWrites, Change, Attach
<1>5. CASE Write
  BY <1>1, <1>5 DEF Write
<1>6. CASE SnapshotFails \/ Fail \/ Connected
  BY <1>1, <1>6 DEF SnapshotFails, Fail, Connected, Over
<1>7. CASE Restart \/ Decide
  BY <1>1, <1>7 DEF Restart, Decide
<1>8. CASE RevupsFail \/ Retry \/ Revup \/ RevupsEnd
  BY <1>3, <1>8 DEF RevupsFail, Retry, Revup, RevupsEnd, Attach
<1>9. CASE Take \/ Buffer \/ Disordered \/ BackingUp
  BY <1>3, <1>9 DEF Take, Buffer, Disordered, BackingUp, Reconnect, Attach
<1>10. CASE \/ \E p \in {"b", "c"} : Arrive(p)
            \/ \E p \in {"me", "c"} : BReceives(p)
  BY <1>3, <1>10 DEF Arrive, BReceives, Attach
<1>11. CASE Reply
  <2>1. /\ attempt' = "answered" /\ answer'.gwc = BHas /\ toB["c"] = <<>>
        /\ UNCHANGED <<time, log, buffer, queue, taking, revups, held>>
    BY <1>0, <1>11 DEF Reply
  <2>2. Pending' \cup ToSet(revups') \cup ToSet(held') \subseteq Covered(Written)
    BY <1>0, <2>1 DEF Known, Pending
  <2>3. Covered(Written) \subseteq Covered(BHas) \cup Covered(time)
    <3> SUFFICES ASSUME NEW op \in Covered(Written) PROVE op \in Covered(BHas) \cup Covered(time)
      OBVIOUS
    <3>1. op \in Op /\ op.n <= Written[op.p] /\ op.p \in {"me", "b", "c"}
      BY <1>0, CoveredMembers, WritersAre DEF Op
    <3>2. Written["b"] = BHas["b"] /\ Written["c"] = BHas["c"] /\ Written["me"] = time["me"]
      <4>1. BHas["c"] + 0 = Written["c"] /\ BHas["c"] \in Nat
        <5>1. Len(toB["c"]) = 0
          BY <2>1
        <5> QED
          BY <5>1, ClockTypes, WritersAre DEF Whole, Collaborator
      <4> QED
        BY <1>0, <4>1, ClockTypes, WritersAre DEF Whole, Collaborator, Times
    <3> QED
      BY <1>0, <3>1, <3>2, CoveredMembers
  <2> QED
    BY <2>1, <2>2, <2>3 DEF Stale, Joined, Applying
<1>12. CASE Connect
  <2>1. /\ attempt = "answered" /\ attempt' = "connected" /\ answer'.gwc = answer.gwc
        /\ answer'.kind = answer.kind
        /\ UNCHANGED <<buffer, queue, taking, revups, held>>
        /\ (answer.kind = "revup" => time' = time)
        /\ (answer.kind # "revup" => time' = Join(time, answer.gwc))
    BY <1>0, <1>12 DEF Connect, Answer
  <2>2. Pending \cup ToSet(revups) \cup ToSet(held) \subseteq Covered(answer.gwc) \cup Covered(time)
    BY <1>0, <2>1 DEF Stale
  <2>3. answer.kind \in {"revup", "snapshot"}
    BY <1>0, <2>1 DEF Control, Answer
  <2>4. Pending' = Pending /\ revups' = revups /\ held' = held
    BY <2>1 DEF Pending
  <2>5. CASE answer.kind = "revup"
    BY <2>1, <2>2, <2>4, <2>5 DEF Stale, Joined, Applying
  <2>6. CASE answer.kind = "snapshot"
    <3>1. time' = answer.gwc /\ Covered(time) \subseteq Covered(answer.gwc)
      BY <1>0, <2>1, <2>6, JoinIsLater, CoveredOrder DEF Times
    <3> QED
      BY <2>1, <2>2, <2>4, <3>1 DEF Stale, Applying
  <2> QED
    BY <2>3, <2>5, <2>6
<1>13. CASE Attach \/ Clear
  <2>1. CASE Attach
    <3>1. /\ attempt = "connected" /\ attempt' = "attached" /\ source' = "revups" /\ answer' = answer
          /\ ~ Revup /\ ~ RevupsEnd /\ ~ \E p \in {"b", "c"} : Arrive(p)
      BY <1>0, <2>1 DEF Attach, Revup, RevupsEnd, Arrive
    <3>2. Pending' \subseteq Pending
      BY <3>1, PendingFrom
    <3>3. Joined' = Joined
      BY <3>1 DEF Joined
    <3> QED
      BY <1>0, <3>1, <3>2, <3>3 DEF Stale
  <2>2. CASE Clear
    <3>1. /\ attempt = "attached" /\ attempt' = "cleared" /\ answer' = answer
          /\ UNCHANGED <<buffer, queue, taking, source>>
      BY <2>2 DEF Clear
    <3> QED
      BY <1>0, <3>1 DEF Stale, Joined, Applying, Pending
  <2> QED
    BY <1>13, <2>1, <2>2
<1>14. CASE Insert
  BY <1>1, <1>14 DEF Insert
<1>15. CASE SentAll
  <2>1. /\ answer'.kind = answer.kind /\ answer'.gwc = answer.gwc
        /\ UNCHANGED <<time, attempt>> /\ ~ Attach
    BY <1>0, <1>15 DEF SentAll, Answer, Attach
  <2>2. CASE attempt \in {"idle", "asking", "inserted"}
    BY <1>1, <2>1, <2>2
  <2> QED
    BY <1>2, <2>1, <2>2
<1>16. CASE Accept
  <2>1. AtMost(time, time') /\ time' \in Clock /\ UNCHANGED <<attempt, answer>> /\ taking # <<>>
    BY <1>16, AcceptTimes DEF Accept
  <2>2. Covered(time) \subseteq Covered(time')
    BY <1>0, <2>1, CoveredOrder
  <2>3. ~ Attach
    BY <1>16 DEF Accept, Attach
  <2>4. CASE attempt \in {"idle", "asking", "inserted"}
    BY <1>1, <2>1, <2>4
  <2> QED
    BY <1>2, <2>1, <2>2, <2>3, <2>4
<1> QED
  BY <1>4, <1>5, <1>6, <1>7, <1>8, <1>9, <1>10, <1>11, <1>12, <1>13, <1>14, <1>15, <1>16
     DEF Next, Environment, Process

-----------------------------------------------------------------------------
(* The journal, and what the data shows *)

\* One's own next operation, and only that, is newly covered.
LEMMA OneMore ==
  ASSUME NEW t \in Clock, NEW n \in Nat \ {0}, n = t["me"] + 1
  PROVE  Covered([t EXCEPT !["me"] = n]) = Covered(t) \cup {[p |-> "me", n |-> n]}
<1> DEFINE p == "me"
<1>1. p \in Writer /\ n = t[p] + 1
  BY WritersAre
<1> HIDE DEF p
<1>2. Covered([t EXCEPT ![p] = n]) = Covered(t) \cup {[p |-> p, n |-> n]}
  BY <1>1, CoveredNext
<1> QED
  BY <1>2 DEF p

\* Every step keeps it that the journal has what the collaborator lacks.
LEMMA JournalledStep ==
  ASSUME Whole, Next, Adverse \subseteq {"write-unconnected", "late-delivery"}
  PROVE  Journalled'
<1> USE DEF collaborator, network, database, receiving, deciding
<1>0. /\ Typed /\ Control /\ Times /\ Journalled /\ time \in Clock /\ disk \in Clock
      /\ BHas \in Clock /\ BHas' \in Clock /\ Covered(BHas) \subseteq Covered(BHas')
      /\ journal \in Seq(Op)
  BY ClockTypes, BHasGrows, CoveredOrder DEF Whole, Typed
<1>1. ASSUME UNCHANGED <<journal, disk>> PROVE Journalled'
  BY <1>0, <1>1 DEF Journalled
<1>2. ASSUME NEW a \in Seq(Op), journal' = journal \o a, IsInjective(a),
             ToSet(a) \cap Covered(disk) = {}, Covered(disk') = Covered(disk) \cup ToSet(a)
      PROVE  Journalled'
  <2>1. ToSet(journal') = ToSet(journal) \cup ToSet(a)
    BY <1>0, <1>2, ElementsJoined
  <2>2. IsInjective(journal')
    <3> DEFINE j == journal
               k == journal'
    <3>1. /\ Len(j) \in Nat /\ DOMAIN j = 1 .. Len(j) /\ Len(a) \in Nat /\ DOMAIN a = 1 .. Len(a)
          /\ DOMAIN k = 1 .. Len(j) + Len(a)
          /\ \A i \in 1 .. Len(j) : k[i] = j[i]
          /\ \A i \in 1 .. Len(a) : k[Len(j) + i] = a[i]
      BY <1>0, <1>2, Elements, ElementsJoined
    <3>2. /\ \A i, h \in 1 .. Len(j) : j[i] = j[h] => i = h
          /\ \A i, h \in 1 .. Len(a) : a[i] = a[h] => i = h
      BY <1>0, <1>2, <3>1 DEF Journalled, IsInjective
    <3>3. \A i \in 1 .. Len(j), h \in 1 .. Len(a) : j[i] # a[h]
      <4>1. \A i \in 1 .. Len(j) : j[i] \in Covered(disk)
        BY <1>0, <3>1, Elements DEF Journalled
      <4>2. \A h \in 1 .. Len(a) : a[h] \in ToSet(a)
        BY <3>1, Elements, <1>2
      <4> QED
        BY <1>2, <4>1, <4>2
    <3> HIDE DEF j, k
    <3>4. \A i \in DOMAIN k : i \in 1 .. Len(j) \/ (i - Len(j) \in 1 .. Len(a) /\ i = Len(j) + (i - Len(j)))
      BY <3>1
    <3>5. ASSUME NEW i \in DOMAIN k, NEW h \in DOMAIN k, k[i] = k[h] PROVE i = h
      <4>1. CASE i \in 1 .. Len(j) /\ h \in 1 .. Len(j)
        BY <3>1, <3>2, <3>5, <4>1
      <4>2. CASE i \in 1 .. Len(j) /\ h \notin 1 .. Len(j)
        BY <3>1, <3>3, <3>4, <3>5, <4>2
      <4>3. CASE i \notin 1 .. Len(j) /\ h \in 1 .. Len(j)
        BY <3>1, <3>3, <3>4, <3>5, <4>3
      <4>4. CASE i \notin 1 .. Len(j) /\ h \notin 1 .. Len(j)
        <5>1. i - Len(j) \in 1 .. Len(a) /\ h - Len(j) \in 1 .. Len(a)
              /\ k[i] = a[i - Len(j)] /\ k[h] = a[h - Len(j)]
          BY <3>1, <3>4, <4>4
        <5>2. i - Len(j) = h - Len(j)
          BY <3>2, <3>5, <5>1
        <5> QED
          BY <3>1, <5>2
      <4> QED
        BY <4>1, <4>2, <4>3, <4>4
    <3> QED
      BY <3>5 DEF IsInjective, k
  <2> QED
    BY <1>0, <1>2, <2>1, <2>2 DEF Journalled
<1>3. CASE BWrites \/ CWrites \/ Change \/ RevupsFail \/ SnapshotFails \/ Restart
  BY <1>1, <1>3 DEF BWrites, CWrites, Change, RevupsFail, SnapshotFails, Restart
<1>4. CASE Decide \/ Reply \/ Fail \/ Retry \/ Connect \/ Attach \/ Insert \/ Connected
  BY <1>1, <1>4 DEF Decide, Reply, Fail, Retry, Connect, Attach, Insert, Connected
<1>5. CASE SentAll \/ Revup \/ RevupsEnd \/ Take \/ Buffer \/ Disordered \/ BackingUp
  BY <1>1, <1>5 DEF SentAll, Revup, RevupsEnd, Take, Buffer, Disordered, BackingUp, Reconnect
<1>6. CASE \/ \E p \in {"b", "c"} : Arrive(p)
           \/ \E p \in {"me", "c"} : BReceives(p)
  BY <1>1, <1>6 DEF Arrive, BReceives
<1>7. CASE Write
  <2> DEFINE n == Len(log["me"]) + 1
             op == [p |-> "me", n |-> n]
  <2>1. /\ attempt = "idle" /\ journal' = Append(journal, op)
        /\ time' = [time EXCEPT !["me"] = n] /\ disk' = time'
    BY <1>7 DEF Write
  <2>2. disk = time /\ n = time["me"] + 1 /\ n \in Nat \ {0} /\ "me" \in Writer
    BY <1>0, <2>1, ClockTypes, WritersAre DEF Times, Joined
  <2>3. op.n = n /\ op.p = "me" /\ op \in Op
    BY <2>2 DEF Op
  <2> HIDE DEF n
  <2>4. Covered(disk') = Covered(disk) \cup {op}
    BY <1>0, <2>1, <2>2, OneMore
  <2>5. op \notin Covered(disk)
    <3>1. time["me"] \in Nat
      BY <1>0, <2>2 DEF Clock
    <3>2. ~(n <= time["me"])
      BY <2>2, <3>1
    <3> QED
      BY <1>0, <2>2, <2>3, <3>2, CoveredMembers
  <2> HIDE DEF op
  <2>6. /\ <<op>> \in Seq(Op) /\ ToSet(<<op>>) = {op} /\ IsInjective(<<op>>)
        /\ Append(journal, op) = journal \o <<op>>
    <3>1. <<op>> \in Seq(Op) /\ DOMAIN <<op>> = {1} /\ <<op>>[1] = op
      BY <2>3
    <3>2. Append(journal, op) = journal \o <<op>>
      BY <1>0, <2>3, AppendIsConcat
    <3> QED
      BY <3>1, <3>2 DEF ToSet, IsInjective
  <2>7. journal' = journal \o <<op>>
    BY <2>1, <2>6
  <2> QED
    BY <1>2, <2>4, <2>5, <2>6, <2>7
<1>8. CASE Clear
  <2>1. /\ attempt = "attached" /\ answer.kind = "snapshot" /\ journal' = <<>> /\ disk' = time
    BY <1>8 DEF Clear
  <2>2. Covered(time) \subseteq Covered(BHas)
    BY <1>0, <2>1, CoveredOrder DEF Times, Joined
  <2>3. ToSet(<<>>) = {} /\ IsInjective(<<>>)
    BY NoElements DEF IsInjective
  <2> QED
    BY <1>0, <2>1, <2>2, <2>3 DEF Journalled
<1>9. CASE Accept
  <2>1. PICK a \in Seq(Op) :
           /\ Covered(time') = Covered(time) \cup ToSet(a)
           /\ ToSet(a) \cap Covered(time) = {} /\ IsInjective(a)
           /\ (a = <<>> => time' = time)
           /\ disk' = (IF a = <<>> THEN disk ELSE time')
           /\ journal' = journal \o a
    BY <1>9, AcceptFacts
  <2>2. CASE a = <<>>
    <3>1. journal \o <<>> = journal
      BY <1>0
    <3> QED
      BY <1>1, <2>1, <2>2, <3>1
  <2>3. CASE a # <<>>
    <3>1. ~Joined
      <4>1. ASSUME Joined PROVE FALSE
        <5>1. ToSet(a) # {}
          BY <2>3, Elements
        <5>2. time' = time
          BY <1>9, <4>1, AcceptTimes
        <5> QED
          BY <2>1, <5>1, <5>2
      <4> QED
        BY <4>1
    <3>2. disk = time
      BY <1>0, <3>1 DEF Times
    <3> QED
      BY <1>2, <2>1, <2>3, <3>2
  <2> QED
    BY <2>2, <2>3
<1> QED
  BY <1>3, <1>4, <1>5, <1>6, <1>7, <1>8, <1>9 DEF Next, Environment, Process

\* The data follows the saved time, but for a snapshot that is being applied, and for
\* a new clone that has not had its first.
LEMMA ShownStep ==
  ASSUME Whole, Next, Adverse \subseteq {"write-unconnected", "late-delivery"}
  PROVE  Shown'
<1> USE DEF collaborator, network, database, receiving, deciding
<1>0. /\ Typed /\ Control /\ Times /\ Shown /\ Stale /\ time \in Clock /\ disk \in Clock
      /\ BHas \in Clock /\ answer \in Answer /\ answer.gwc \in Clock
  BY ClockTypes DEF Whole
<1> DEFINE A == attempt
           Told == answer.kind = "snapshot" => answer.data = Covered(answer.gwc)
<1>1. Told /\ (attempt = "cleared" => data = {})
      /\ (attempt # "cleared" => data = Covered(disk) \/ Unfilled)
  BY <1>0 DEF Shown
<1>2. NoAnswer.kind # "snapshot"
  BY NoAnswerIs
\* The answer
<1>3. ASSUME answer' = answer \/ answer' = NoAnswer \/
             (answer'.kind = answer.kind /\ answer'.data = answer.data /\ answer'.gwc = answer.gwc)
      PROVE  Told'
  BY <1>1, <1>2, <1>3
\* What a new clone has not got stays so until it applies a snapshot.
<1>4. ASSUME Unfilled, newClone' = newClone, data' = data, Covered(time) \subseteq Covered(time'),
             Pending' \subseteq Pending, source' = "never" \/ Applying' \/ (source' = source /\ ~ Applying)
      PROVE  Unfilled'
  BY <1>4 DEF Unfilled
<1>5. ASSUME UNCHANGED <<data, disk, newClone, attempt, source, time>>, Pending' \subseteq Pending,
             Told', Applying' = Applying
      PROVE  Shown'
  <2>1. Unfilled => Unfilled'
    BY <1>5 DEF Unfilled
  <2> QED
    BY <1>1, <1>5, <2>1 DEF Shown
<1>6. CASE BWrites \/ CWrites \/ Change \/ Retry
  <2>1. UNCHANGED <<data, disk, newClone, attempt, source, time, answer, buffer, queue, taking>>
    BY <1>6 DEF BWrites, CWrites, Change, Retry
  <2> QED
    BY <1>3, <1>5, <2>1 DEF Pending, Applying
<1>7. CASE (\E p \in {"me", "c"} : BReceives(p)) \/ SentAll
  <2>1. UNCHANGED <<data, disk, newClone, attempt, source, time, buffer, queue, taking>>
    BY <1>7 DEF BReceives, SentAll
  <2>2. answer'.kind = answer.kind /\ answer'.data = answer.data /\ answer'.gwc = answer.gwc
    BY <1>0, <1>7 DEF BReceives, SentAll, Answer
  <2> QED
    BY <1>3, <1>5, <2>1, <2>2 DEF Pending, Applying
<1>8. CASE Take \/ Buffer
  <2>1. UNCHANGED <<data, disk, newClone, attempt, source, time, answer>>
    BY <1>8 DEF Take, Buffer
  <2>3. Pending' \subseteq Pending
    BY <1>8, TurnsKeep
  <2> QED
    BY <1>3, <1>5, <2>1, <2>3 DEF Applying
<1>9. ASSUME NEW p \in {"b", "c"}, Arrive(p) PROVE Shown'
  <2>1. UNCHANGED <<data, disk, newClone, attempt, source, time, answer, buffer, taking>>
        /\ (source # "live" => queue' = queue)
    BY <1>9 DEF Arrive
  <2>2. Unfilled => source # "live"
    BY <1>0 DEF Unfilled, Stale
  <2>3. Unfilled => Unfilled'
    BY <2>1, <2>2 DEF Unfilled, Pending, Applying
  <2> QED
    BY <1>1, <1>3, <2>1, <2>3 DEF Shown
<1>10. CASE Revup \/ RevupsEnd
  <2>1. source = "revups" /\ ~ Applying /\ UNCHANGED <<data, disk, attempt, answer>>
    BY <1>10 DEF Revup, RevupsEnd
  <2>2. ~ Unfilled
    BY <2>1 DEF Unfilled
  <2> QED
    BY <1>1, <1>3, <2>1, <2>2 DEF Shown
<1>11. ASSUME Detached, OpsOf(taking') \subseteq OpsOf(taking), OpsOf(buffer') \subseteq OpsOf(buffer),
              UNCHANGED <<data, disk, newClone, time>>, Told', attempt # "cleared" /\ attempt' # "cleared"
       PROVE  Shown'
  <2>1. Pending' \subseteq Pending /\ source' = "never"
    BY <1>11, DetachedElements DEF Pending, Detached
  <2>2. Unfilled => Unfilled'
    BY <1>4, <1>11, <2>1
  <2> QED
    BY <1>1, <1>11, <2>2 DEF Shown
<1>12. ASSUME Detached, OpsOf(taking') \subseteq OpsOf(taking), OpsOf(buffer') \subseteq OpsOf(buffer),
              UNCHANGED <<data, disk, newClone, time, answer, attempt>>
       PROVE  Shown'
  <2>1. CASE attempt = "cleared"
    BY <1>1, <1>3, <1>12, <2>1 DEF Shown
  <2> QED
    BY <1>3, <1>11, <1>12, <2>1
<1>13. CASE RevupsFail \/ Disordered \/ BackingUp
  <2>1. OpsOf(<<>>) = {}
    BY NoOps
  <2> QED
    BY <1>12, <1>13, <2>1 DEF RevupsFail, Disordered, BackingUp, Reconnect
<1>14. CASE Decide
  <2>1. CASE remote
    BY <1>1, <1>3, <1>14, <2>1 DEF Decide, Shown, Unfilled, Applying, Pending
  <2>2. CASE ~ remote
    <3>1. Detached /\ UNCHANGED <<data, disk, newClone, time, answer, attempt, taking, buffer>>
      BY <1>14, <2>2 DEF Decide
    <3> QED
      BY <1>12, <3>1
  <2> QED
    BY <2>1, <2>2
<1>15. CASE SnapshotFails
  <2>1. /\ attempt = "cleared" /\ attempt' = "idle" /\ newClone /\ Detached /\ answer' = NoAnswer
        /\ UNCHANGED <<data, disk, newClone, time, buffer, taking>>
    BY <1>15 DEF SnapshotFails, Over
  <2>2. Joined
    BY <1>0, <2>1 DEF Joined, Control
  <2>3. Pending \subseteq Covered(time) /\ data = {}
    BY <1>0, <1>1, <2>1, <2>2 DEF Stale, Times
  <2>4. Pending' \subseteq Pending /\ source' = "never"
    BY <2>1, DetachedElements DEF Pending, Detached
  <2>5. Unfilled'
    BY <2>1, <2>3, <2>4 DEF Unfilled
  <2> QED
    BY <1>3, <2>1, <2>5 DEF Shown
<1>16. CASE Fail \/ Connected
  <2>1. /\ Over /\ attempt # "cleared" /\ ~ Applying
        /\ UNCHANGED <<data, disk, newClone, time, buffer, queue, taking, source>>
    BY <1>0, <1>16 DEF Fail, Connected, Applying
  <2>2. answer' = NoAnswer /\ attempt' = "idle"
    BY <2>1 DEF Over
  <2>3. Unfilled => Unfilled'
    BY <2>1 DEF Unfilled, Pending
  <2> QED
    BY <1>1, <1>3, <2>1, <2>2, <2>3 DEF Shown
<1>17. CASE Restart
  <2>1. /\ ~(newClone /\ data = {}) /\ attempt # "cleared" /\ attempt' = "idle"
        /\ answer' = NoAnswer /\ UNCHANGED <<data, disk>>
    BY <1>17 DEF Restart
  <2> QED
    BY <1>1, <1>3, <2>1 DEF Shown, Unfilled
<1>18. CASE Write
  <2> DEFINE n == Len(log["me"]) + 1
             op == [p |-> "me", n |-> n]
  <2>1. /\ attempt = "idle" /\ ~ newClone /\ data' = data \cup {op}
        /\ time' = [time EXCEPT !["me"] = n] /\ disk' = time' /\ UNCHANGED <<attempt, answer>>
    BY <1>18 DEF Write
  <2>2. disk = time /\ n = time["me"] + 1 /\ n \in Nat \ {0} /\ "me" \in Writer
    BY <1>0, <2>1, ClockTypes, WritersAre DEF Times, Joined
  <2>3. Covered(disk') = Covered(disk) \cup {op}
    <3> HIDE DEF n
    <3> QED
      BY <1>0, <2>1, <2>2, OneMore
  <2>4. data = Covered(disk)
    BY <1>1, <2>1 DEF Unfilled
  <2> HIDE DEF op
  <2>5. data' = Covered(disk') /\ attempt' # "cleared"
    BY <2>1, <2>3, <2>4
  <2>6. Told'
    BY <1>3, <2>1
  <2> QED
    BY <2>5, <2>6 DEF Shown
<1>19. CASE Reply
  <2>1. /\ attempt = "asking" /\ attempt' = "answered" /\ answer'.gwc = BHas
        /\ (answer'.kind = "snapshot" => answer'.data = ToSet(bJournal))
        /\ UNCHANGED <<data, disk, newClone, time, buffer, queue, taking, source>>
    BY <1>19 DEF Reply
  <2>2. Unfilled => Unfilled'
    BY <2>1 DEF Unfilled, Applying, Pending
  <2>3. Told'
    BY <2>1 DEF Whole, Collaborator
  <2> QED
    BY <1>1, <2>1, <2>2, <2>3 DEF Shown
<1>20. CASE Connect
  <2>1. /\ attempt = "answered" /\ attempt' = "connected"
        /\ UNCHANGED <<data, disk, newClone, buffer, queue, taking, source>>
        /\ answer'.kind = answer.kind /\ answer'.data = answer.data /\ answer'.gwc = answer.gwc
        /\ (time' = time \/ (time' = Join(time, answer.gwc) /\ answer.kind # "revup"))
    BY <1>0, <1>20 DEF Connect, Answer
  <2>2. Covered(time) \subseteq Covered(time')
    <3>1. CASE answer.kind # "revup"
      <4>1. answer.kind = "snapshot"
        BY <1>0, <2>1, <3>1 DEF Control, Answer
      <4> QED
        BY <1>0, <2>1, <4>1, JoinIsLater, CoveredOrder DEF Times
    <3> QED
      BY <2>1, <3>1
  <2>3. Unfilled => Unfilled'
    BY <2>1, <2>2 DEF Unfilled, Applying, Pending
  <2> QED
    BY <1>1, <1>3, <2>1, <2>3 DEF Shown
<1>21. CASE Attach
  <2>1. /\ attempt = "connected" /\ attempt' = "attached" /\ answer' = answer
        /\ UNCHANGED <<data, disk, newClone, time>>
        /\ ~ Revup /\ ~ RevupsEnd /\ ~ \E p \in {"b", "c"} : Arrive(p)
    BY <1>0, <1>21 DEF Attach, Revup, RevupsEnd, Arrive
  <2>2. Pending' \subseteq Pending
    BY <2>1, PendingFrom
  <2>3. newClone => Applying'
    BY <1>0, <2>1 DEF Control, Applying
  <2>4. Unfilled => Unfilled'
    BY <2>1, <2>2, <2>3 DEF Unfilled
  <2> QED
    BY <1>1, <1>3, <2>1, <2>4 DEF Shown
<1>22. CASE Clear
  BY <1>3, <1>22 DEF Clear, Shown
<1>23. CASE Insert
  <2>1. /\ attempt = "cleared" /\ attempt' = "inserted" /\ answer' = answer /\ disk' = disk
        /\ data' = data \cup answer.data
    BY <1>23 DEF Insert
  <2>2. answer.kind = "snapshot" /\ Joined /\ disk = time
    BY <1>0, <2>1 DEF Control, Joined, Times
  <2>3. time = answer.gwc
    BY <1>0, <2>2 DEF Times
  <2>4. data' = Covered(disk')
    BY <1>1, <2>1, <2>2, <2>3
  <2> QED
    BY <1>3, <2>1, <2>4 DEF Shown
<1>24. CASE Accept
  <2>1. PICK a \in Seq(Op) :
           /\ Covered(time') = Covered(time) \cup ToSet(a)
           /\ ToSet(a) \cap Covered(time) = {}
           /\ ToSet(a) \subseteq Pending
           /\ (a = <<>> => time' = time)
           /\ disk' = (IF a = <<>> THEN disk ELSE time')
           /\ data' = data \cup ToSet(a)
           /\ OpsOf(buffer') \subseteq OpsOf(buffer) /\ taking' = <<>>
           /\ UNCHANGED <<newClone, queue, source, attempt, answer>>
    BY <1>24, AcceptFacts DEF Pending
  <2>2. Told' /\ Pending' \subseteq Pending
    BY <1>3, <2>1, NoOps DEF Pending
  <2>3. CASE a = <<>>
    <3>1. data' = data /\ disk' = disk /\ time' = time
      BY <2>1, <2>3, NoElements
    <3> QED
      BY <1>5, <2>1, <2>2, <3>1 DEF Applying
  <2>4. CASE a # <<>>
    <3>1. ToSet(a) # {}
      BY <2>4, Elements
    <3>2. ~ Joined
      <4>1. ASSUME Joined PROVE FALSE
        <5>1. time' = time
          BY <1>24, <4>1, AcceptTimes
        <5> QED
          BY <2>1, <3>1, <5>1
      <4> QED
        BY <4>1
    <3>3. disk = time /\ attempt # "cleared"
      BY <1>0, <3>2 DEF Times, Control, Joined
    <3>4. ~ Unfilled
      BY <2>1, <3>1 DEF Unfilled
    <3>5. data' = Covered(disk')
      BY <1>1, <2>1, <2>4, <3>3, <3>4
    <3> QED
      BY <2>1, <2>2, <3>3, <3>5 DEF Shown
  <2> QED
    BY <2>3, <2>4
<1> QED
  BY <1>6, <1>7, <1>8, <1>9, <1>10, <1>13, <1>14, <1>15, <1>16, <1>17, <1>18, <1>19, <1>20, <1>21,
     <1>22, <1>23, <1>24 DEF Next, Environment, Process

-----------------------------------------------------------------------------
(* No operation is lost to the clone *)

\* At first there is one operation, which all that matters follows from.
LEMMA FirstOperation ==
  ASSUME Init
  PROVE  /\ bJournal \in Seq(Op) /\ ToSet(bJournal) = {[p |-> "b", n |-> 1]} /\ Len(bJournal) = 1
         /\ bJournal[1] = [p |-> "b", n |-> 1] /\ DOMAIN bJournal = {1}
         /\ BHas = [Zero EXCEPT !["b"] = 1] /\ Written = BHas /\ BHas \in Clock
         /\ Covered(BHas) = {[p |-> "b", n |-> 1]} /\ ToSet(bJournal) = Covered(BHas)
         /\ time = BHas /\ disk = BHas
         /\ log["b"] = <<Zero>> /\ log["me"] = <<>> /\ log["c"] = <<>>
         /\ log \in [Writer -> Seq(Clock)]
<1> DEFINE op == [p |-> "b", n |-> 1]
           t == [Zero EXCEPT !["b"] = 1]
<1>1. bJournal = <<op>> /\ op \in Op /\ op.p = "b" /\ op.n = 1 /\ "b" \in Writer
  BY WritersAre DEF Init, Op
<1> HIDE DEF op
<1>2. /\ bJournal \in Seq(Op) /\ DOMAIN bJournal = {1} /\ bJournal[1] = op /\ Len(bJournal) = 1
      /\ ToSet(bJournal) = {op}
  <2>1. /\ bJournal \in Seq(Op) /\ DOMAIN bJournal = {1} /\ bJournal[1] = op /\ Len(bJournal) = 1
    BY <1>1
  <2> QED
    BY <2>1 DEF ToSet
<1>3. t \in Clock /\ Covered(t) = {op}
  <2> DEFINE p == "b"
             n == 1
  <2>1. p \in Writer /\ n \in Nat \ {0} /\ n = Zero[p] + 1
    BY ZeroIsClock, WritersAre
  <2>2. Covered(Zero) = {}
    <3> SUFFICES ASSUME NEW x \in Covered(Zero) PROVE FALSE
      OBVIOUS
    <3>1. x \in Op /\ x.n <= Zero[x.p]
      BY ZeroIsClock, CoveredMembers
    <3> QED
      BY <3>1, ZeroIsClock DEF Op
  <2> HIDE DEF p, n
  <2>3. /\ [Zero EXCEPT ![p] = n] \in Clock
        /\ Covered([Zero EXCEPT ![p] = n]) = Covered(Zero) \cup {[p |-> p, n |-> n]}
    BY <2>1, CoveredNext, ZeroIsClock
  <2> QED
    BY <2>2, <2>3 DEF p, n, op
<1> HIDE DEF t
<1>4. BHas = t
  BY <1>2, <1>3, TimeIsCovered DEF BHas
<1>5. time = BHas /\ disk = BHas
  BY DEF Init, BHas
<1>6. log["b"] = <<Zero>> /\ log["me"] = <<>> /\ log["c"] = <<>>
  BY WritersAre DEF Init
<1>7. log \in [Writer -> Seq(Clock)]
  <2>1. <<Zero>> \in Seq(Clock) /\ <<>> \in Seq(Clock)
    BY ZeroIsClock
  <2> QED
    BY <2>1 DEF Init
<1>8. Written = t
  <2>1. Len(log["b"]) = 1 /\ Len(log["me"]) = 0 /\ Len(log["c"]) = 0
    BY <1>6
  <2>2. \A p \in Writer : Len(log[p]) = t[p]
    BY <2>1, WritersAre, ZeroIsClock DEF t, Clock
  <2>3. t = [p \in Writer |-> t[p]]
    BY <1>3 DEF Clock
  <2> QED
    BY <2>2, <2>3 DEF Written
<1> QED
  BY <1>2, <1>3, <1>4, <1>5, <1>6, <1>7, <1>8 DEF t, op

\* Init satisfies the ten parts of the invariant.
LEMMA WholeInit == Init => Whole
<1> SUFFICES ASSUME Init PROVE Whole
  OBVIOUS
<1> DEFINE op == [p |-> "b", n |-> 1]
<1>1. /\ bJournal \in Seq(Op) /\ ToSet(bJournal) = {op} /\ bJournal[1] = op
      /\ BHas = [Zero EXCEPT !["b"] = 1] /\ Written = BHas /\ BHas \in Clock
      /\ Covered(BHas) = {op}
      /\ time = BHas /\ disk = BHas
      /\ log["b"] = <<Zero>> /\ log["me"] = <<>> /\ log["c"] = <<>>
      /\ log \in [Writer -> Seq(Clock)]
  BY FirstOperation
<1>2. op \in Op
  BY WritersAre DEF Op
<1>3. BHas["b"] = 1 /\ BHas["me"] = 0 /\ BHas["c"] = 0
  BY <1>1, ZeroIsClock, WritersAre DEF Clock
<1> HIDE DEF op
<1>4. NoAnswer \in Answer /\ Zero \in Clock /\ <<>> \in Seq(Op) /\ <<>> \in Seq(Msg) /\ ToSet(<<>>) = {}
  BY ZeroIsClock, NoElements DEF NoAnswer, Answer
<1>5. (journal = <<>> /\ data = {}) \/ (~ newClone /\ journal = bJournal /\ data = {op})
  <2>1. newClone \in BOOLEAN /\ journal = (IF newClone THEN <<>> ELSE bJournal)
        /\ data = (IF newClone THEN {} ELSE {bJournal[1]})
    BY DEF Init
  <2>2. CASE newClone
    BY <2>1, <2>2
  <2>3. CASE ~ newClone
    BY <1>1, <2>1, <2>3
  <2> QED
    BY <2>2, <2>3
<1>6. Typed
  <2>1. NotServing \in [open : BOOLEAN, at : Clock, ticked : BOOLEAN, forward : Seq(Op)]
    BY <1>4 DEF NotServing
  <2>2. journal \in Seq(Op) /\ data \in SUBSET Op
    BY <1>1, <1>2, <1>4, <1>5
  <2>3. /\ toMe \in [{"b", "c"} -> Seq(Op)] /\ toB \in [{"me", "c"} -> Seq(Op)]
        /\ serving = NotServing /\ bTicked \in BOOLEAN /\ bMissed \in BOOLEAN /\ remote \in BOOLEAN
        /\ start \in Nat /\ newClone \in BOOLEAN
    BY <1>4 DEF Init
  <2>4. /\ buffer \in Seq(Msg) /\ queue \in Seq(Msg) /\ taking \in Seq(Msg) /\ revups \in Seq(Op)
        /\ held \in Seq(Op) /\ out \in Seq(Op) /\ answer \in Answer /\ told \in Clock
    BY <1>4 DEF Init
  <2>5. /\ source \in {"never", "revups", "live"} /\ outdated \in BOOLEAN
        /\ opps \in Nat /\ retries \in Nat /\ events \in Nat
        /\ attempt \in {"idle", "asking", "answered", "connected", "attached", "cleared", "inserted"}
    BY DEF Init
  <2> QED
    BY <1>1, <2>1, <2>2, <2>3, <2>4, <2>5 DEF Typed
<1>7. Logs
  <2>1. ASSUME NEW p \in Writer PROVE Len(log[p]) <= MaxOps[p]
    <3>1. Len(log["b"]) = 1 /\ Len(log["me"]) = 0 /\ Len(log["c"]) = 0
      BY <1>1
    <3>2. \A q \in Writer : MaxOps[q] \in Nat
      BY RecoveryAssumption
    <3>3. MaxOps["b"] > 0 /\ MaxOps["b"] \in Nat
      BY <3>2, RecoveryAssumption, WritersAre
    <3>4. CASE p = "b"
      <4>1. Len(log[p]) = 1 /\ MaxOps[p] > 0 /\ MaxOps[p] \in Nat
        BY <3>1, <3>3, <3>4
      <4> QED
        BY <4>1
    <3>5. CASE p # "b"
      <4>1. Len(log[p]) = 0
        BY <3>1, <3>5, WritersAre
      <4> QED
        BY <3>2, <4>1
    <3> QED
      BY <3>4, <3>5
  <2>2. ASSUME NEW p \in Writer, NEW n \in 1 .. Len(log[p])
        PROVE  log[p][n][p] = n - 1 /\ AtMost(log[p][n], Written)
    <3>1. p = "b" /\ n = 1
      <4>1. Len(log["b"]) = 1 /\ Len(log["me"]) = 0 /\ Len(log["c"]) = 0
        BY <1>1
      <4>2. p = "b"
        BY <4>1, WritersAre
      <4>3. Len(log[p]) = 1
        BY <4>1, <4>2
      <4>4. n = 1
        BY <4>3
      <4> QED
        BY <4>2, <4>4
    <3>2. log[p][n] = Zero
      BY <1>1, <3>1
    <3> QED
      BY <1>1, <3>1, <3>2, ZeroIsClock, AtMostItself, WritersAre
  <2> QED
    BY <2>1, <2>2 DEF Logs
<1>8. /\ ToSet(journal) \subseteq {op} /\ ToSet(out) = {} /\ ToSet(toB["me"]) = {} /\ ToSet(held) = {}
      /\ ToSet(revups) = {} /\ ToSet(serving.forward) = {} /\ ToSet(answer.updates) = {}
      /\ OpsOf(buffer) = {} /\ OpsOf(queue) = {} /\ OpsOf(taking) = {}
      /\ toB["c"] = <<>> /\ toMe["b"] = <<>> /\ toMe["c"] = <<>>
  BY <1>1, <1>4, <1>5, NoOps DEF Init, NotServing, NoAnswer
<1>9. Known /\ Own
  BY <1>1, <1>4, <1>8 DEF Known, Own
<1>10. Collaborator
  <2>1. BHas["b"] = Len(log["b"]) /\ BHas["c"] + Len(toB["c"]) = Len(log["c"]) /\ DOMAIN toB["c"] = {}
    BY <1>1, <1>3, <1>8
  <2> QED
    BY <1>1, <2>1, AtMostItself DEF Collaborator
<1>11. Control
  BY DEF Init, Control
<1>12. Times
  <2>1. time["me"] = Len(log["me"]) /\ disk["me"] = Len(log["me"]) /\ Len(log["me"]) = 0
    BY <1>1, <1>3
  <2>2. answer.gwc = Zero /\ attempt = "idle"
    BY NoAnswerIs DEF Init
  <2> QED
    BY <1>1, <2>1, <2>2, AtMostItself DEF Times, Joined
<1>13. Stale
  BY DEF Init, Stale, Joined, Applying
<1>14. Shown
  <2>1. attempt = "idle" /\ answer.kind # "snapshot" /\ source = "never"
    BY NoAnswerIs DEF Init
  <2>2. CASE newClone
    <3>1. data = {} /\ Pending = {}
      BY <1>8, <2>2 DEF Init, Pending
    <3> QED
      BY <2>1, <2>2, <3>1 DEF Shown, Unfilled
  <2>3. CASE ~ newClone
    <3>1. data = {bJournal[1]}
      BY <2>3 DEF Init
    <3>2. data = {op}
      BY <1>1, <3>1
    <3> QED
      BY <1>1, <2>1, <3>2 DEF Shown
  <2> QED
    BY <2>2, <2>3
<1>15. Journalled
  <2>1. IsInjective(journal)
    <3>1. CASE journal = <<>>
      BY <3>1 DEF IsInjective
    <3>2. CASE journal = bJournal
      BY <3>2, FirstOperation DEF IsInjective
    <3> QED
      BY <1>5, <3>1, <3>2
  <2> QED
    BY <1>1, <1>8, <2>1 DEF Journalled
<1> QED
  BY <1>6, <1>7, <1>9, <1>10, <1>11, <1>12, <1>13, <1>14, <1>15 DEF Whole

\* Every step keeps the ten parts of the invariant together.
LEMMA WholeStep ==
  ASSUME Whole, [Next]_vars, Adverse \subseteq {"write-unconnected", "late-delivery"}
  PROVE  Whole'
<1>1. CASE Next
  <2>1. Typed' /\ Logs' /\ Known' /\ Own' /\ Collaborator'
    BY <1>1, TypedStep, LogsStep, KnownStep, OwnStep, CollaboratorStep DEF Whole
  <2>2. Control' /\ Times' /\ Stale' /\ Shown' /\ Journalled'
    BY <1>1, ControlStep, TimesStep, StaleStep, ShownStep, JournalledStep DEF Whole
  <2> QED
    BY <2>1, <2>2 DEF Whole
<1>2. CASE UNCHANGED vars
  <2> USE <1>2 DEF vars, collaborator, network, database, receiving, deciding
  <2>1. Typed' = Typed /\ Logs' = Logs /\ Known' = Known /\ Own' = Own /\ Collaborator' = Collaborator
    BY DEF Typed, Logs, Known, Own, Collaborator, Written, BHas
  <2>2. Control' = Control /\ Times' = Times /\ Stale' = Stale
    BY DEF Control, Times, Stale, Written, BHas, Joined, Applying, Pending
  <2>3. Shown' = Shown /\ Journalled' = Journalled
    BY DEF Shown, Journalled, Unfilled, BHas, Applying, Pending
  <2> QED
    BY <2>1, <2>2, <2>3 DEF Whole
<1> QED
  BY <1>1, <1>2

\* The invariant says that no operation is lost.
LEMMA WholeKeepsOperations ==
  ASSUME Whole
  PROVE  OperationsKept
<1>0. /\ Typed /\ Logs /\ Known /\ Collaborator /\ Control /\ Times /\ Shown /\ Journalled
      /\ time \in Clock /\ disk \in Clock /\ BHas \in Clock /\ Written \in Clock
      /\ \A p \in Writer : /\ time[p] \in Nat /\ disk[p] \in Nat /\ BHas[p] \in Nat
                           /\ Written[p] = Len(log[p]) /\ Len(log[p]) \in Nat
  BY ClockTypes DEF Whole
<1>1. TypeOK
  <2>1. Covered(Written) \subseteq Covered(MaxOps)
    <3>1. MaxOps \in Clock /\ AtMost(Written, MaxOps)
      BY <1>0, RecoveryAssumption DEF Logs, AtMost, Clock
    <3> QED
      BY <1>0, <3>1, CoveredOrder
  <2>2. ASSUME NEW s \in Seq(Msg), OpsOf(s) \subseteq Covered(Written) PROVE IsMessages(s)
    <3> SUFFICES ASSUME NEW m \in ToSet(s) PROVE m.op \in Covered(MaxOps) /\ m.mark \in Marks
      BY DEF IsMessages
    <3>1. m \in Msg
      BY Elements
    <3>2. m.op \in OpsOf(s)
      BY DEF OpsOf
    <3> QED
      BY <2>1, <2>2, <3>1, <3>2 DEF Msg
  <2>3. IsMessages(buffer) /\ IsMessages(queue) /\ IsMessages(taking) /\ Len(taking) <= 1
    BY <1>0, <2>2 DEF Typed, Known, Control
  <2>4. \A p \in Writer : time[p] \in 0 .. Len(log[p]) /\ disk[p] <= time[p]
    <3> TAKE p \in Writer
    <3>1. time[p] <= Written[p] /\ disk[p] <= time[p]
      BY <1>0 DEF Times, AtMost
    <3> QED
      BY <1>0, <3>1
  <2>5. AtMost(BHas, [p \in Writer |-> Len(log[p])])
    BY <1>0 DEF Collaborator, Written
  <2>6. data \subseteq Covered(MaxOps) /\ IsInjective(journal)
    <3>1. AtMost(disk, Written)
      BY <1>0, AtMostTransitive DEF Times
    <3>2. data \subseteq Covered(disk)
      BY <1>0 DEF Shown, Unfilled
    <3> QED
      BY <1>0, <2>1, <3>1, <3>2, CoveredOrder DEF Journalled
  <2>7. /\ source \in {"never", "revups", "live"} /\ remote \in BOOLEAN /\ outdated \in BOOLEAN
        /\ attempt \in {"idle", "asking", "answered", "connected", "attached", "cleared", "inserted"}
        /\ ((attempt \in {"idle", "asking"}) <=> (answer = NoAnswer))
        /\ opps \in Nat /\ retries \in Nat /\ (attempt # "idle" => opps > 0)
    BY <1>0 DEF Typed, Control
  <2> QED
    BY <2>3, <2>4, <2>5, <2>6, <2>7 DEF TypeOK
<1>2. OwnKept
  <2> SUFFICES ASSUME NEW n \in (BHas["me"] + 1) .. disk["me"]
               PROVE  [p |-> "me", n |-> n] \in ToSet(journal)
    BY DEF OwnKept
  <2>1. "me" \in Writer /\ n \in Nat \ {0} /\ n <= disk["me"] /\ ~(n <= BHas["me"])
    BY <1>0, WritersAre
  <2> DEFINE p == "me"
  <2>2. p \in Writer /\ n <= disk[p] /\ ~(n <= BHas[p])
    BY <2>1
  <2> HIDE DEF p
  <2>3. [p |-> p, n |-> n] \in Covered(disk) /\ [p |-> p, n |-> n] \notin Covered(BHas)
    BY <1>0, <2>1, <2>2, CoveredMembers
  <2>4. [p |-> p, n |-> n] \in ToSet(journal)
    BY <1>0, <2>3 DEF Journalled
  <2> QED
    BY <2>4 DEF p
<1>3. NothingLost
  <2> SUFFICES ASSUME ~ newClone, ~ Joined PROVE data = Covered(time)
    BY DEF NothingLost, Joined
  <2>1. attempt # "cleared" /\ disk = time /\ ~ Unfilled
    BY <1>0 DEF Control, Times, Joined, Unfilled
  <2> QED
    BY <1>0, <2>1 DEF Shown
<1> QED
  BY <1>1, <1>2, <1>3 DEF OperationsKept

\* In at most two of the circumstances, which only mislead about what is sent and said,
\* the whole of the invariant holds: types, the phases of an attempt, the order of
\* times, and what is pending, shown and in the journal at each.
THEOREM InvariantHolds ==
  ASSUME Adverse \subseteq {"write-unconnected", "late-delivery"}
  PROVE  Spec => []Whole
<1>1. Whole /\ [Next]_vars => Whole'
  BY WholeStep
<1> QED
  BY <1>1, WholeInit, PTL DEF Spec

\* Unless a snapshot is of a clone that lacks own operations, or is cut short, and
\* unless the process stops while it applies one or before a new clone has its first
\* (or one of the other circumstances comes about that are not admitted here; all of
\* them can), a clone loses no operation that it has seen or made: its data shows what
\* its time covers (DatasetEngine.acceptRemoteOperation, SuSetDataset.applySnapshot),
\* and its journal has what the collaborator lacks (DatasetEngine.emitOpsSince).
THEOREM OperationsKeptOtherwise ==
  ASSUME Adverse \subseteq {"write-unconnected", "late-delivery"}
  PROVE  Spec => []OperationsKept
<1>1. Whole => OperationsKept
  BY WholeKeepsOperations
<1> QED
  BY <1>1, InvariantHolds, PTL

-----------------------------------------------------------------------------
(* Operations are published in order *)

\* What has no gaps for a time has none for a later one.
LEMMA GaplessLater ==
  ASSUME NEW t \in Clock, NEW u \in Clock, AtMost(t, u), NEW s \in Seq(Op), Gapless(t, s)
  PROVE  Gapless(u, s)
<1> SUFFICES ASSUME NEW i \in DOMAIN s, s[i].n <= t[s[i].p] + 1
             PROVE  s[i].n <= u[s[i].p] + 1
  BY DEF Gapless
<1>1. s[i].p \in Writer /\ s[i].n \in Nat
  <2>1. s[i] \in Op
    BY Elements
  <2> QED
    BY <2>1 DEF Op
<1>2. t[s[i].p] \in Nat /\ u[s[i].p] \in Nat /\ t[s[i].p] <= u[s[i].p]
  BY <1>1 DEF AtMost, Clock
<1> QED
  BY <1>1, <1>2

\* What follows a sequence without gaps may follow it without gaps.
LEMMA GaplessJoined ==
  ASSUME NEW t \in Clock, NEW s \in Seq(Op), Gapless(t, s), NEW a \in Seq(Op),
         \A i \in DOMAIN a : \/ a[i].n <= t[a[i].p] + 1
                             \/ [p |-> a[i].p, n |-> a[i].n - 1] \in ToSet(s)
                             \/ \E k \in 1 .. i - 1 : a[k] = [p |-> a[i].p, n |-> a[i].n - 1]
  PROVE  Gapless(t, s \o a)
<1> DEFINE u == s \o a
           Before(op) == [p |-> op.p, n |-> op.n - 1]
<1>1. /\ u \in Seq(Op) /\ DOMAIN u = 1 .. Len(s) + Len(a)
      /\ Len(s) \in Nat /\ Len(a) \in Nat /\ DOMAIN s = 1 .. Len(s) /\ DOMAIN a = 1 .. Len(a)
      /\ \A i \in 1 .. Len(s) : u[i] = s[i]
      /\ \A i \in 1 .. Len(a) : u[Len(s) + i] = a[i]
  BY ElementsJoined, Elements
<1> HIDE DEF u
<1>2. ASSUME NEW i \in DOMAIN u
      PROVE  u[i].n <= t[u[i].p] + 1 \/ \E k \in 1 .. i - 1 : u[k] = Before(u[i])
  <2> HIDE DEF Before
  <2>1. CASE i \in 1 .. Len(s)
    <3>1. u[i] = s[i] /\ i \in DOMAIN s /\ \A k \in 1 .. i - 1 : u[k] = s[k]
      BY <1>1, <2>1
    <3>2. s[i].n <= t[s[i].p] + 1 \/ \E k \in 1 .. i - 1 : s[k] = Before(s[i])
      BY <3>1 DEF Gapless, Before
    <3> QED
      BY <3>1, <3>2
  <2>2. CASE i \notin 1 .. Len(s)
    <3> DEFINE h == i - Len(s)
    <3>1. h \in 1 .. Len(a) /\ i = Len(s) + h
      BY <1>1, <2>2
    <3> HIDE DEF h
    <3>2. u[i] = a[h]
      BY <1>1, <3>1
    <3>3. \/ a[h].n <= t[a[h].p] + 1 \/ Before(a[h]) \in ToSet(s)
          \/ \E k \in 1 .. h - 1 : a[k] = Before(a[h])
      BY <1>1, <3>1 DEF Before
    <3>4. ASSUME Before(a[h]) \in ToSet(s) PROVE \E k \in 1 .. i - 1 : u[k] = Before(u[i])
      <4>1. PICK k \in 1 .. Len(s) : s[k] = Before(a[h])
        <5> DEFINE b == Before(a[h])
        <5>1. b \in ToSet(s)
          BY <3>4
        <5> HIDE DEF b
        <5>2. \E k \in DOMAIN s : b = s[k]
          BY <5>1, Elements
        <5> QED
          BY <1>1, <5>2 DEF b
      <4>2. k \in 1 .. i - 1 /\ u[k] = s[k]
        BY <1>1, <3>1, <4>1
      <4> QED
        BY <3>2, <4>1, <4>2
    <3>5. ASSUME NEW k \in 1 .. h - 1, a[k] = Before(a[h])
          PROVE  \E l \in 1 .. i - 1 : u[l] = Before(u[i])
      <4>1. Len(s) + k \in 1 .. i - 1 /\ k \in 1 .. Len(a)
        BY <1>1, <3>1, <3>5
      <4>2. u[Len(s) + k] = a[k]
        BY <1>1, <4>1
      <4> QED
        BY <3>2, <3>5, <4>1, <4>2
    <3> QED
      BY <3>2, <3>3, <3>4, <3>5
  <2> QED
    BY <2>1, <2>2
<1> QED
  BY <1>2 DEF Gapless, u

\* The beginning of a sequence has no gaps if the whole has none.
LEMMA GaplessFirst ==
  ASSUME NEW t \in Clock, NEW s \in Seq(Op), NEW a \in Seq(Op), Gapless(t, s \o a)
  PROVE  Gapless(t, s)
<1> DEFINE u == s \o a
<1>1. /\ DOMAIN u = 1 .. Len(s) + Len(a) /\ Len(s) \in Nat /\ Len(a) \in Nat /\ DOMAIN s = 1 .. Len(s)
      /\ \A i \in 1 .. Len(s) : u[i] = s[i]
  BY ElementsJoined, Elements
<1>2. Gapless(t, u)
  OBVIOUS
<1> HIDE DEF u
<1> SUFFICES ASSUME NEW i \in DOMAIN s
             PROVE  \/ s[i].n <= t[s[i].p] + 1
                    \/ \E k \in 1 .. i - 1 : s[k] = [p |-> s[i].p, n |-> s[i].n - 1]
  BY DEF Gapless
<1>3. i \in DOMAIN u /\ u[i] = s[i] /\ \A k \in 1 .. i - 1 : u[k] = s[k]
  BY <1>1
<1> QED
  BY <1>2, <1>3 DEF Gapless

\* The first has its predecessors covered, and the rest is in order when it is covered.
LEMMA GaplessRest ==
  ASSUME NEW t \in Clock, NEW s \in Seq(Op), s # <<>>, Gapless(t, s)
  PROVE  /\ Head(s).n <= t[Head(s).p] + 1
         /\ \A u \in Clock : AtMost(t, u) /\ Head(s) \in Covered(u) => Gapless(u, Tail(s))
<1>1. /\ Len(s) \in Nat /\ Len(s) # 0 /\ DOMAIN s = 1 .. Len(s) /\ Head(s) = s[1]
      /\ Tail(s) \in Seq(Op) /\ DOMAIN Tail(s) = 1 .. Len(s) - 1
      /\ \A i \in 1 .. Len(s) - 1 : Tail(s)[i] = s[i + 1]
      /\ \A i \in DOMAIN s : s[i] \in Op
  BY HeadTailProperties, Elements
<1>2. 1 \in DOMAIN s
  BY <1>1
<1>3. Head(s).n <= t[Head(s).p] + 1
  <2>1. \/ s[1].n <= t[s[1].p] + 1
        \/ \E k \in 1 .. 1 - 1 : s[k] = [p |-> s[1].p, n |-> s[1].n - 1]
    BY <1>2 DEF Gapless
  <2>2. 1 .. 1 - 1 = {}
    OBVIOUS
  <2> QED
    BY <1>1, <2>1, <2>2
<1>4. ASSUME NEW u \in Clock, AtMost(t, u), Head(s) \in Covered(u) PROVE Gapless(u, Tail(s))
  <2> DEFINE r == Tail(s)
  <2>1. \A i \in 1 .. Len(s) - 1 : r[i] = s[i + 1] /\ DOMAIN r = 1 .. Len(s) - 1
    BY <1>1
  <2> HIDE DEF r
  <2>2. ASSUME NEW i \in 1 .. Len(s) - 1
        PROVE  \/ r[i].n <= u[r[i].p] + 1
               \/ \E k \in 1 .. i - 1 : r[k] = [p |-> r[i].p, n |-> r[i].n - 1]
    <3> DEFINE op == r[i]
               before == [p |-> op.p, n |-> op.n - 1]
    <3>1. op = s[i + 1] /\ i + 1 \in DOMAIN s /\ op \in Op /\ (i + 1) - 1 = i
      BY <1>1, <2>1
    <3> HIDE DEF op
    <3>2. op.n <= t[op.p] + 1 \/ \E k \in 1 .. i : s[k] = before
      BY <3>1 DEF Gapless
    <3>3. op.p \in Writer /\ op.n \in Nat /\ t[op.p] \in Nat /\ u[op.p] \in Nat /\ t[op.p] <= u[op.p]
      BY <1>4, <3>1 DEF Op, Clock, AtMost
    <3>4. ASSUME NEW k \in 1 .. i, s[k] = before
          PROVE  op.n <= u[op.p] + 1 \/ \E l \in 1 .. i - 1 : r[l] = before
      <4>1. CASE k = 1
        <5>1. before \in Covered(u)
          BY <1>1, <1>4, <3>4, <4>1
        <5>2. before.n <= u[before.p]
          BY <5>1, CoveredMembers
        <5> QED
          BY <3>3, <5>2
      <4>2. CASE k # 1
        <5>1. k - 1 \in 1 .. i - 1 /\ k - 1 \in 1 .. Len(s) - 1 /\ (k - 1) + 1 = k
          BY <1>1, <4>2
        <5>2. r[k - 1] = before
          BY <2>1, <3>4, <5>1
        <5> QED
          BY <5>1, <5>2
      <4> QED
        BY <4>1, <4>2
    <3> QED
      BY <3>2, <3>3, <3>4, SMTT(30) DEF op
  <2> QED
    BY <1>1, <2>2 DEF Gapless, r
<1> QED
  BY <1>3, <1>4

\* To take the first of two sequences that are joined leaves the rest of them.
LEMMA TakenOfJoined ==
  ASSUME NEW S, NEW s \in Seq(S), s # <<>>, NEW a \in Seq(S)
  PROVE  /\ s \o a # <<>> /\ Head(s \o a) = Head(s)
         /\ Tail(s \o a) = Tail(s) \o a
<1> DEFINE u == s \o a
           r == Tail(s)
           v == Tail(u)
           w == r \o a
           n == Len(s)
           m == Len(a)
<1>1. /\ u \in Seq(S) /\ Len(u) = n + m /\ (\A i \in 1 .. n : u[i] = s[i])
      /\ (\A i \in 1 .. m : u[n + i] = a[i]) /\ n \in Nat /\ m \in Nat /\ n > 0
      /\ r \in Seq(S) /\ Len(r) = n - 1 /\ (\A i \in 1 .. n - 1 : r[i] = s[i + 1]) /\ Head(s) = s[1]
  BY ElementsJoined, ElementsTaken, Elements
<1>2. u # <<>>
  <2>1. Len(u) # 0
    BY <1>1
  <2> HIDE DEF u
  <2> QED
    BY <2>1
<1>3. /\ Head(u) = u[1] /\ v \in Seq(S) /\ Len(v) = Len(u) - 1
      /\ \A i \in 1 .. Len(u) - 1 : v[i] = u[i + 1]
  <2>1. u \in Seq(S) /\ u # <<>>
    BY <1>1, <1>2
  <2> HIDE DEF u
  <2> QED
    BY <2>1, ElementsTaken
<1>4. /\ w \in Seq(S) /\ Len(w) = (n - 1) + m /\ (\A i \in 1 .. n - 1 : w[i] = r[i])
      /\ \A i \in 1 .. m : w[(n - 1) + i] = a[i]
  <2>1. r \in Seq(S) /\ Len(r) = n - 1 /\ Len(a) = m
    BY <1>1
  <2> HIDE DEF r, n, m
  <2>2. /\ r \o a \in Seq(S) /\ Len(r \o a) = Len(r) + Len(a)
        /\ \A i \in 1 .. Len(r) : (r \o a)[i] = r[i]
        /\ \A i \in 1 .. Len(a) : (r \o a)[Len(r) + i] = a[i]
    <3>1. r \in Seq(S) /\ a \in Seq(S)
      BY <2>1
    <3> QED
      BY ONLY <3>1, ElementsJoined
  <2> QED
    BY <2>1, <2>2
<1> HIDE DEF u, r, v, w, n, m
<1>5. Len(v) = Len(w)
  BY <1>1, <1>3, <1>4
<1>6. ASSUME NEW i \in 1 .. Len(v) PROVE v[i] = w[i]
  <2>1. v[i] = u[i + 1] /\ i \in 1 .. (n - 1) + m
    BY <1>1, <1>3
  <2>2. CASE i \in 1 .. n - 1
    <3>1. i + 1 \in 1 .. n
      BY <1>1, <2>2
    <3> QED
      BY <1>1, <1>4, <2>1, <2>2, <3>1
  <2>3. CASE i \notin 1 .. n - 1
    <3> DEFINE k == i - (n - 1)
    <3>1. k \in 1 .. m /\ i = (n - 1) + k /\ i + 1 = n + k
      BY <1>1, <2>1, <2>3
    <3> HIDE DEF k
    <3> QED
      BY <1>1, <1>4, <2>1, <3>1
  <2> QED
    BY <2>2, <2>3
<1>7. v = w
  BY <1>3, <1>4, <1>5, <1>6, SeqEqual
<1>8. Head(u) = Head(s)
  BY <1>1, <1>3
<1> QED
  BY <1>2, <1>7, <1>8 DEF u, v, w, r

\* What is emitted again follows what has been sent, and is all that b lacks.
LEMMA EmittedFollows ==
  ASSUME Whole, Streams, attempt = "answered"
  PROVE  /\ Emitted \in Seq(Op)
         /\ Gapless(BHas, (toB["me"] \o out) \o Emitted)
         /\ Len(log["me"]) <= BHas["me"] \/ [p |-> "me", n |-> Len(log["me"])] \in ToSet(Emitted)
<1>0. /\ Typed /\ Control /\ Times /\ Journalled /\ time \in Clock /\ disk \in Clock
      /\ BHas \in Clock /\ answer.gwc \in Clock /\ journal \in Seq(Op)
      /\ toB["me"] \in Seq(Op) /\ out \in Seq(Op) /\ toB["me"] \o out \in Seq(Op)
      /\ "me" \in Writer
      /\ (\A p \in Writer : BHas[p] \in Nat /\ answer.gwc[p] \in Nat /\ disk[p] \in Nat)
      /\ Len(log["me"]) \in Nat
  BY ClockTypes, ElementsJoined, WritersAre DEF Whole, Typed
<1> DEFINE g == answer.gwc
           e == Since(journal, g)
           s == toB["me"] \o out
           L == Len(log["me"])
<1>1. CASE newClone
  <2>1. Emitted = <<>> /\ L = 0 /\ L <= BHas["me"]
    BY <1>0, <1>1 DEF Emitted, Times
  <2>2. (toB["me"] \o out) \o <<>> = toB["me"] \o out
    BY <1>0
  <2> QED
    BY <2>1, <2>2, NoElements DEF Streams
<1>2. CASE ~ newClone
  <2>1. Emitted = e
    BY <1>2 DEF Emitted
  <2>2. /\ e \in Seq(Op)
        /\ ToSet(e) = {op \in {journal[i] : i \in 1 .. Len(journal)} : op.n > g[op.p]}
        /\ \A i \in DOMAIN e : \E k \in 1 .. Len(journal) :
             /\ e[i] = journal[k]
             /\ \A l \in 1 .. k - 1 : journal[l].n > g[journal[l].p] => \E h \in 1 .. i - 1 : e[h] = journal[l]
    BY <1>0, SincePicks DEF Picked
  <2>3. /\ Len(journal) \in Nat /\ DOMAIN journal = 1 .. Len(journal)
        /\ \A i \in DOMAIN journal : journal[i] \in Op
        /\ \A x \in ToSet(journal) : \E i \in DOMAIN journal : x = journal[i]
    BY <1>0, Elements
  <2> HIDE DEF e, s
  <2>4. ASSUME NEW i \in DOMAIN e
        PROVE  \/ e[i].n <= BHas[e[i].p] + 1
               \/ \E k \in 1 .. i - 1 : e[k] = [p |-> e[i].p, n |-> e[i].n - 1]
    <3>1. PICK k \in 1 .. Len(journal) :
             /\ e[i] = journal[k]
             /\ \A l \in 1 .. k - 1 : journal[l].n > g[journal[l].p] => \E h \in 1 .. i - 1 : e[h] = journal[l]
      BY <2>2
    <3> DEFINE op == journal[k]
               before == [p |-> op.p, n |-> op.n - 1]
    <3>2. op \in Op /\ op.p \in Writer /\ op.n \in Nat
      BY <2>3 DEF Op
    <3>3. op.n <= BHas[op.p] + 1 \/ \E l \in 1 .. k - 1 : journal[l] = before
      BY <2>3 DEF Streams, Gapless
    <3>4. ASSUME NEW l \in 1 .. k - 1, journal[l] = before
          PROVE  op.n <= BHas[op.p] + 1 \/ \E h \in 1 .. i - 1 : e[h] = before
      <4>1. CASE before.n > g[before.p]
        <5>1. journal[l].n > g[journal[l].p]
          BY <3>4, <4>1
        <5> QED
          BY <3>1, <3>4, <5>1
      <4>2. CASE ~(before.n > g[before.p])
        <5>1. g[op.p] <= BHas[op.p] /\ g[op.p] \in Nat /\ BHas[op.p] \in Nat
          BY <1>0, <3>2 DEF Times, AtMost
        <5>2. before.n = op.n - 1 /\ before.p = op.p
          OBVIOUS
        <5> QED
          BY <3>2, <4>2, <5>1, <5>2
      <4> QED
        BY <4>1, <4>2
    <3> HIDE DEF op
    <3>5. op.n <= BHas[op.p] + 1 \/ \E h \in 1 .. i - 1 : e[h] = before
      BY <3>3, <3>4
    <3> QED
      BY <3>1, <3>5 DEF op
  <2>5. Gapless(BHas, s \o e)
    <3>1. s \in Seq(Op) /\ Gapless(BHas, s)
      BY <1>0 DEF Streams, s
    <3> QED
      BY <1>0, <2>2, <2>4, <3>1, GaplessJoined
  <2>6. L <= BHas["me"] \/ [p |-> "me", n |-> L] \in ToSet(e)
    <3> SUFFICES ASSUME ~(L <= BHas["me"]) PROVE [p |-> "me", n |-> L] \in ToSet(e)
      OBVIOUS
    <3> DEFINE p == "me"
               op == [p |-> p, n |-> L]
    <3>1. /\ L \in Nat \ {0} /\ p \in Writer /\ disk[p] = L /\ ~(L <= BHas[p])
          /\ g[p] \in Nat /\ BHas[p] \in Nat /\ g[p] <= BHas[p]
      BY <1>0 DEF Times, AtMost
    <3> HIDE DEF p, L, g
    <3>2. op \in Covered(disk) /\ op \notin Covered(BHas) /\ op.n > g[op.p]
      <4>1. op \in Covered(disk) /\ op \notin Covered(BHas)
        BY <1>0, <3>1, CoveredMembers
      <4> QED
        BY <3>1, <4>1
    <3>3. op \in ToSet(journal)
      BY <1>0, <3>2 DEF Journalled
    <3>4. \E i \in 1 .. Len(journal) : op = journal[i]
      BY <2>3, <3>3
    <3>5. op \in ToSet(e)
      BY <2>2, <3>2, <3>4
    <3> QED
      BY <3>5 DEF p, L
  <2> QED
    BY <2>1, <2>2, <2>5, <2>6 DEF s
<1> QED
  BY <1>1, <1>2

\* What was to be sent stays so, or is.
LEMMA LastSentStays ==
  ASSUME Whole, Next, LastSent, Len(log'["me"]) = Len(log["me"]),
         toB["me"] \o out \in Seq(Op), toB'["me"] \o out' \in Seq(Op),
         ToSet(toB["me"] \o out) \subseteq ToSet(toB'["me"] \o out') \cup Covered(BHas')
  PROVE  LastSent'
<1>0. BHas \in Clock /\ BHas' \in Clock /\ AtMost(BHas, BHas') /\ "me" \in Writer
  BY ClockTypes, BHasGrows, WritersAre
<1> DEFINE p == "me"
           L == Len(log["me"])
<1>1. BHas[p] \in Nat /\ BHas'[p] \in Nat /\ BHas[p] <= BHas'[p] /\ p \in Writer /\ L \in Nat
  BY <1>0, ClockTypes DEF Clock, AtMost
<1>2. CASE L <= BHas[p]
  BY <1>1, <1>2 DEF LastSent
<1>3. CASE [p |-> p, n |-> L] \in ToSet(toB["me"] \o out)
  <2> HIDE DEF p, L
  <2>1. L <= BHas'[p] \/ [p |-> p, n |-> L] \in ToSet(toB'["me"] \o out')
    <3>1. ASSUME [p |-> p, n |-> L] \in Covered(BHas') PROVE L <= BHas'[p]
      BY <1>0, <1>1, <3>1, CoveredMembers
    <3> QED
      BY <1>3, <3>1
  <2> QED
    BY <2>1 DEF p, L, LastSent
<1> QED
  BY <1>2, <1>3 DEF LastSent

\* Every step keeps it that what is emitted has no gaps, and is complete when it goes on.
LEMMA StreamsStep ==
  ASSUME Whole, Streams, Next, Adverse \subseteq {"late-delivery"}
  PROVE  Streams'
<1> USE DEF collaborator, network, database, receiving, deciding
<1> DEFINE T == toB["me"]
           Same == bMissed' = bMissed /\ Len(log'["me"]) = Len(log["me"])
           J2 == Gapless(BHas', journal')
<1>0. /\ Typed /\ Control /\ Times /\ Journalled /\ time \in Clock /\ disk \in Clock
      /\ BHas \in Clock /\ BHas' \in Clock /\ AtMost(BHas, BHas') /\ (bJournal' = bJournal => BHas' = BHas)
      /\ journal \in Seq(Op) /\ T \in Seq(Op) /\ out \in Seq(Op) /\ T \o out \in Seq(Op)
      /\ opps \in Nat /\ retries \in Nat /\ "me" \in Writer
  BY ClockTypes, BHasGrows, ElementsJoined, WritersAre DEF Whole, Typed
<1>1. /\ ~ bMissed /\ Gapless(BHas, journal) /\ Gapless(BHas, T \o out)
      /\ (opps = 0 => out = <<>>) /\ (ToBeSent => LastSent)
  BY DEF Streams
<1>2. Gapless(BHas', journal) /\ Gapless(BHas', T \o out) /\ Gapless(BHas', T)
  BY <1>0, <1>1, GaplessLater, GaplessFirst
<1>3. T \o <<>> = T /\ (T \o out) \o <<>> = T \o out
  BY <1>0, ConcatEmptySeq
<1>4. ASSUME Same, J2, toB'["me"] = T, out' = out, opps' = 0 => opps = 0, ToBeSent' => ToBeSent
      PROVE  Streams'
  <2>1. LastSent => LastSent'
    BY <1>0, <1>4, LastSentStays
  <2> QED
    BY <1>1, <1>2, <1>4, <2>1 DEF Streams
<1>5. ASSUME Same, J2, toB'["me"] = T, out' = <<>>, ~ ToBeSent'
      PROVE  Streams'
  BY <1>1, <1>2, <1>3, <1>5 DEF Streams
<1>6. ASSUME UNCHANGED <<log, bMissed, journal, toB, out, opps, retries, remote>>,
             attempt' = attempt \/ attempt \in {"connected", "attached", "cleared", "inserted"}
                                \/ attempt' \notin {"connected", "attached", "cleared", "inserted"}
      PROVE  Streams'
  BY <1>2, <1>4, <1>6 DEF ToBeSent
<1>7. CASE BWrites \/ CWrites
  <2>1. /\ Same /\ UNCHANGED <<journal, out, opps, retries, remote, attempt>> /\ toB'["me"] = toB["me"]
    BY <1>0, <1>7 DEF BWrites, CWrites, Typed
  <2> QED
    BY <1>2, <1>4, <2>1 DEF ToBeSent
<1>8. CASE Change \/ Retry \/ Disordered \/ BackingUp
  <2>1. /\ Same /\ UNCHANGED <<journal, toB, attempt>> /\ opps' = opps + 1 /\ out' = <<>>
    BY <1>8 DEF Change, Retry, Disordered, BackingUp, Reconnect, Opportunity
  <2>2. ~ ToBeSent'
    BY <1>0, <2>1 DEF ToBeSent, Control
  <2> QED
    BY <1>2, <1>5, <2>1, <2>2
<1>9. CASE Restart
  <2>1. /\ Same /\ UNCHANGED <<journal, toB>> /\ opps' = 1 /\ attempt' = "idle" /\ out' = <<>>
    BY <1>9 DEF Restart
  <2>2. ~ ToBeSent'
    BY <2>1 DEF ToBeSent
  <2> QED
    BY <1>2, <1>5, <2>1, <2>2
<1>10. CASE RevupsFail
  <2>1. /\ Same /\ UNCHANGED <<journal, toB, out, opps, remote, attempt>> /\ retries' = retries + 1
    BY <1>10 DEF RevupsFail
  <2>2. ToBeSent' => ToBeSent
    BY <1>0, <2>1 DEF ToBeSent
  <2> QED
    BY <1>2, <1>4, <2>1, <2>2
<1>11. CASE Decide
  <2>1. /\ Same /\ UNCHANGED <<journal, remote, retries>> /\ attempt = "idle" /\ opps > 0
    BY <1>11 DEF Decide
  <2>2. CASE remote
    <3>1. UNCHANGED <<toB, out, opps>> /\ attempt' = "asking"
      BY <1>11, <2>2 DEF Decide
    <3> QED
      BY <1>2, <1>4, <2>1, <3>1 DEF ToBeSent
  <2>3. CASE ~ remote /\ opps = 1
    <3>1. Published(out) /\ out' = <<>> /\ attempt' = "idle"
      BY <1>11, <2>1, <2>3 DEF Decide
    <3>2. toB' = toB
      BY <2>3, <3>1 DEF Published
    <3>3. ~ ToBeSent'
      BY <2>1, <2>3, <3>1 DEF ToBeSent
    <3> QED
      BY <1>2, <1>5, <2>1, <3>1, <3>2, <3>3
  <2>4. CASE ~ remote /\ opps # 1
    <3>1. UNCHANGED <<toB, out>> /\ attempt' = "idle" /\ opps' = opps - 1
      BY <1>11, <2>1, <2>4 DEF Decide
    <3>2. ~ ToBeSent' /\ opps' # 0
      BY <1>0, <2>1, <2>4, <3>1 DEF ToBeSent
    <3> QED
      BY <1>2, <1>4, <2>1, <3>1, <3>2
  <2> QED
    BY <2>2, <2>3, <2>4
<1>12. CASE Reply \/ Attach \/ Clear \/ Insert
  <2>1. CASE Reply
    BY <1>6, <2>1 DEF Reply
  <2>2. CASE Attach
    BY <1>6, <2>2 DEF Attach
  <2>3. CASE Insert
    BY <1>6, <2>3 DEF Insert
  <2>4. CASE Clear
    <3>1. /\ Same /\ UNCHANGED <<toB, out, opps, retries, remote>> /\ journal' = <<>>
          /\ attempt = "attached"
      BY <2>4 DEF Clear
    <3>2. J2
      BY <3>1 DEF Gapless
    <3>3. ToBeSent' => ToBeSent
      BY <3>1 DEF ToBeSent
    <3> QED
      BY <1>4, <3>1, <3>2, <3>3
  <2> QED
    BY <1>12, <2>1, <2>2, <2>3, <2>4
<1>13. CASE SentAll \/ Revup \/ RevupsEnd \/ Take \/ Buffer
  <2>1. SentAll \/ Revup \/ RevupsEnd =>
          UNCHANGED <<log, bMissed, journal, toB, out, opps, retries, remote, attempt>>
    BY DEF SentAll, Revup, RevupsEnd
  <2>2. Take \/ Buffer => UNCHANGED <<log, bMissed, journal, toB, out, opps, retries, remote, attempt>>
    BY DEF Take, Buffer
  <2> QED
    BY <1>6, <1>13, <2>1, <2>2
<1>14. CASE \E p \in {"b", "c"} : Arrive(p)
  BY <1>6, <1>14 DEF Arrive
<1>15. CASE Fail \/ SnapshotFails \/ Connected
  <2>1. /\ Over /\ Same /\ UNCHANGED <<journal, remote>> /\ attempt # "idle" /\ opps > 0
        /\ retries' = retries + 1 \/ Connected
    BY <1>0, <1>15 DEF Fail, SnapshotFails, Connected, Control
  <2>2. attempt' = "idle" /\ opps' = opps - 1
    BY <2>1 DEF Over
  <2>3. CASE opps # 1
    <3>1. UNCHANGED <<toB, out>>
      BY <2>1, <2>3 DEF Over
    <3>2. opps' # 0 /\ ~ ToBeSent'
      BY <1>0, <2>1, <2>2, <2>3 DEF ToBeSent
    <3> QED
      BY <1>2, <1>4, <2>1, <3>1, <3>2
  <2>4. CASE opps = 1 /\ ~ remote
    <3>1. Published(out) /\ out' = <<>>
      BY <2>1, <2>4 DEF Over
    <3>2. toB' = toB
      BY <2>4, <3>1 DEF Published
    <3>3. ~ ToBeSent'
      BY <1>0, <2>1, <2>2, <2>4 DEF ToBeSent
    <3> QED
      BY <1>2, <1>5, <2>1, <3>1, <3>2, <3>3
  <2>5. CASE opps = 1 /\ remote
    <3>1. Published(out) /\ out' = <<>>
      BY <2>1, <2>5 DEF Over
    <3>2. toB'["me"] = T \o out
      BY <1>0, <2>5, <3>1, PublishedElements
    <3>3. toB'["me"] \o out' = T \o out
      BY <1>3, <3>1, <3>2
    <3>4. ToBeSent' => LastSent
      <4>1. ToBeSent' => Connected
        BY <1>0, <2>1, <2>2, <2>5 DEF ToBeSent
      <4>2. Connected => ToBeSent
        BY <2>5 DEF Connected, ToBeSent
      <4> QED
        BY <1>1, <4>1, <4>2
    <3>5. LastSent => LastSent'
      BY <1>0, <2>1, <3>3, LastSentStays
    <3> QED
      BY <1>1, <1>2, <2>1, <3>1, <3>3, <3>4, <3>5 DEF Streams
  <2> QED
    BY <2>3, <2>4, <2>5
<1>16. CASE Connect
  <2>1. /\ Same /\ UNCHANGED <<journal, toB, opps, retries, remote, log, bJournal>>
        /\ attempt = "answered" /\ attempt' = "connected" /\ out' = out \o Emitted
    BY <1>16 DEF Connect
  <2>2. /\ Emitted \in Seq(Op)
        /\ Gapless(BHas, (T \o out) \o Emitted)
        /\ Len(log["me"]) <= BHas["me"] \/ [p |-> "me", n |-> Len(log["me"])] \in ToSet(Emitted)
    BY <2>1, EmittedFollows
  <2>3. toB'["me"] \o out' = (T \o out) \o Emitted /\ BHas' = BHas
    <3>1. toB'["me"] = T /\ BHas' = BHas /\ T \in Seq(Op) /\ out \in Seq(Op) /\ Emitted \in Seq(Op)
      BY <1>0, <2>1, <2>2
    <3> HIDE DEF T
    <3>2. (T \o out) \o Emitted = T \o (out \o Emitted)
      BY <3>1, ConcatAssociative
    <3> QED
      BY <2>1, <3>1, <3>2
  <2>4. ToSet((T \o out) \o Emitted) = ToSet(T \o out) \cup ToSet(Emitted)
    <3> DEFINE s == T \o out
               e == Emitted
    <3>1. s \in Seq(Op) /\ e \in Seq(Op)
      BY <1>0, <2>2, ElementsJoined
    <3> HIDE DEF s, e
    <3>2. ToSet(s \o e) = ToSet(s) \cup ToSet(e)
      BY ONLY <3>1, ElementsJoined
    <3> QED
      BY <3>2 DEF s, e
  <2>5. LastSent'
    <3> HIDE DEF T
    <3>1. log' = log /\ BHas' = BHas
      BY <2>1, <2>3
    <3> QED
      BY <2>2, <2>3, <2>4, <3>1 DEF LastSent
  <2>6. opps' # 0
    BY <1>0, <2>1 DEF Control
  <2> QED
    BY <1>1, <1>2, <2>1, <2>2, <2>3, <2>5, <2>6 DEF Streams
<1>17. CASE Accept
  <2>1. PICK a \in Seq(Op) :
           /\ Gapless(time, a)
           /\ (a = <<>> => time' = time)
           /\ Covered(time') = Covered(time) \cup ToSet(a)
           /\ ToSet(a) \cap Covered(time) = {}
           /\ journal' = journal \o a
           /\ UNCHANGED <<log, collaborator, network, deciding, out>>
    BY <1>17, AcceptFacts
  <2>2. /\ Same /\ UNCHANGED <<toB, out, opps, retries, remote, attempt, bJournal>>
    BY <2>1
  <2>3. CASE a = <<>>
    <3>1. journal' = journal
      BY <1>0, <2>1, <2>3, ConcatEmptySeq
    <3> QED
      BY <1>2, <1>4, <2>2, <3>1 DEF ToBeSent
  <2>4. CASE a # <<>>
    <3>1. ~ Joined
      <4>1. ASSUME Joined PROVE FALSE
        <5>1. ToSet(a) # {}
          BY <2>4, Elements
        <5>2. time' = time
          BY <1>17, <4>1, AcceptTimes
        <5> QED
          BY <2>1, <5>1, <5>2
      <4> QED
        BY <4>1
    <3>2. disk = time /\ BHas' = BHas
      BY <1>0, <2>2, <3>1 DEF Times
    <3>3. ASSUME NEW i \in DOMAIN a
          PROVE  \/ a[i].n <= BHas[a[i].p] + 1
                 \/ [p |-> a[i].p, n |-> a[i].n - 1] \in ToSet(journal)
                 \/ \E k \in 1 .. i - 1 : a[k] = [p |-> a[i].p, n |-> a[i].n - 1]
      <4> DEFINE op == a[i]
                 before == [p |-> op.p, n |-> op.n - 1]
      <4>1. op \in Op
        BY Elements
      <4>2. op.n <= time[op.p] + 1 \/ \E k \in 1 .. i - 1 : a[k] = before
        BY <2>1 DEF Gapless
      <4> HIDE DEF op
      <4>3. op.p \in Writer /\ op.n \in Nat \ {0} /\ BHas[op.p] \in Nat
        BY <1>0, <4>1 DEF Op, Clock
      <4>4. ASSUME op.n <= time[op.p] + 1 /\ op.n > 1
            PROVE  op.n <= BHas[op.p] + 1 \/ before \in ToSet(journal)
        <5>1. before \in Covered(time)
          BY <1>0, <4>1, <4>4, CoveredBefore
        <5>2. before \in Covered(BHas) \/ before \in ToSet(journal)
          BY <1>0, <3>2, <5>1 DEF Journalled
        <5>3. before \in Covered(BHas) => op.n <= BHas[op.p] + 1
          <6>1. before \in Covered(BHas) => before.n <= BHas[before.p]
            BY <1>0, CoveredMembers
          <6> QED
            BY <4>3, <6>1
        <5> QED
          BY <5>2, <5>3
      <4>5. op.n = 1 => op.n <= BHas[op.p] + 1
        BY <4>3
      <4>6. op.n > 1 \/ op.n = 1
        BY <4>3
      <4>7. \/ op.n <= BHas[op.p] + 1 \/ before \in ToSet(journal)
            \/ \E k \in 1 .. i - 1 : a[k] = before
        BY <4>2, <4>4, <4>5, <4>6
      <4> QED
        BY <4>7 DEF op
    <3>4. Gapless(BHas, journal \o a)
      BY <1>0, <1>1, <3>3, GaplessJoined
    <3>5. J2
      BY <2>1, <3>2, <3>4
    <3> QED
      BY <1>4, <2>2, <3>5 DEF ToBeSent
  <2> QED
    BY <2>3, <2>4
<1>18. CASE Write
  <2> DEFINE n == Len(log["me"]) + 1
             op == [p |-> "me", n |-> n]
  <2>1. /\ attempt = "idle" /\ journal' = Append(journal, op) /\ Writes("me", time)
        /\ ~(opps > 0 \/ (remote /\ retries > 0))
        /\ (IF Paused THEN out' = Append(out, op) /\ UNCHANGED toB
                      ELSE Published(<<op>>) /\ UNCHANGED out)
        /\ UNCHANGED <<bJournal, bMissed, remote, opps, retries, attempt>>
    BY <1>18 DEF Write, Writes
  <2>2. opps = 0 /\ out = <<>> /\ Published(<<op>>) /\ out' = <<>> /\ BHas' = BHas
    BY <1>0, <1>1, <2>1 DEF Paused
  <2>3. n = disk["me"] + 1 /\ n \in Nat \ {0} /\ op \in Op /\ op.n = n /\ op.p = "me" /\ n - 1 = Len(log["me"])
    BY <1>0, ClockTypes DEF Times, Op
  <2>4. Len(log'["me"]) = n
    <3>1. Written' = [Written EXCEPT !["me"] = Written["me"] + 1] /\ Len(log'["me"]) = Written'["me"]
      BY <1>0, <2>1, WrittenGrows
    <3>2. Written["me"] = Len(log["me"]) /\ Written \in Clock
      BY <1>0, ClockTypes
    <3> QED
      BY <1>0, <3>1, <3>2 DEF Clock
  <2> HIDE DEF n
  <2>5. <<op>> \in Seq(Op) /\ ToSet(<<op>>) = {op} /\ DOMAIN <<op>> = {1} /\ <<op>>[1] = op
    <3> HIDE DEF op
    <3>1. <<op>> \in Seq(Op) /\ DOMAIN <<op>> = {1} /\ <<op>>[1] = op
      BY <2>3
    <3> QED
      BY <3>1 DEF ToSet
  <2> DEFINE before == [p |-> "me", n |-> n - 1]
  <2>6. ASSUME NEW s \in Seq(Op), Gapless(BHas, s), n <= BHas["me"] + 1 \/ before \in ToSet(s)
        PROVE  Gapless(BHas, s \o <<op>>)
    <3>1. \A k \in DOMAIN <<op>> : \/ <<op>>[k].n <= BHas[<<op>>[k].p] + 1
                                   \/ [p |-> <<op>>[k].p, n |-> <<op>>[k].n - 1] \in ToSet(s)
      BY <2>3, <2>5, <2>6
    <3> HIDE DEF op
    <3> QED
      BY <1>0, <2>5, <2>6, <3>1, GaplessJoined
  <2>7. n <= BHas["me"] + 1 \/ before \in ToSet(journal)
    <3> DEFINE p == "me"
    <3>1. p \in Writer /\ n = disk[p] + 1 /\ disk[p] \in Nat /\ BHas[p] \in Nat
      BY <1>0, <2>3 DEF Clock
    <3> HIDE DEF p
    <3>2. disk[p] = 0 => n <= BHas[p] + 1
      BY <3>1
    <3>3. ASSUME disk[p] # 0 PROVE n <= BHas[p] + 1 \/ [p |-> p, n |-> n - 1] \in ToSet(journal)
      <4>1. n - 1 \in Nat \ {0} /\ n - 1 = disk[p]
        BY <3>1, <3>3
      <4>2. [p |-> p, n |-> n - 1] \in Covered(disk)
        BY <1>0, <3>1, <4>1, CoveredMembers
      <4>3. [p |-> p, n |-> n - 1] \in Covered(BHas) \/ [p |-> p, n |-> n - 1] \in ToSet(journal)
        BY <1>0, <4>2 DEF Journalled
      <4>4. [p |-> p, n |-> n - 1] \in Covered(BHas) => n - 1 <= BHas[p]
        BY <1>0, <3>1, <4>1, CoveredMembers
      <4>5. n - 1 <= BHas[p] => n <= BHas[p] + 1
        BY <3>1
      <4> QED
        BY <4>3, <4>4, <4>5
    <3> QED
      BY <3>2, <3>3 DEF p
  <2>8. J2
    <3>1. Append(journal, op) = journal \o <<op>>
      BY <1>0, <2>3, AppendIsConcat
    <3>2. Gapless(BHas, journal \o <<op>>)
      BY <1>0, <1>1, <2>6, <2>7
    <3> HIDE DEF op
    <3> QED
      BY <2>1, <2>2, <3>1, <3>2
  <2>9. CASE ~ remote
    <3>1. toB' = toB
      BY <2>2, <2>9 DEF Published
    <3>2. ~ ToBeSent'
      BY <2>1, <2>9 DEF ToBeSent
    <3> QED
      BY <1>1, <1>2, <1>3, <2>1, <2>2, <2>8, <3>1, <3>2 DEF Streams
  <2>10. CASE remote
    <3>1. LastSent
      BY <1>0, <1>1, <2>1, <2>2, <2>10 DEF ToBeSent
    <3>2. n <= BHas["me"] + 1 \/ before \in ToSet(T)
      <4>1. n - 1 <= BHas["me"] \/ before \in ToSet(T)
        BY <1>3, <2>2, <2>3, <3>1 DEF LastSent
      <4>2. BHas["me"] \in Nat
        BY <1>0 DEF Clock
      <4> QED
        BY <2>3, <4>1, <4>2
    <3>3. Gapless(BHas, T)
      BY <1>1, <1>3, <2>2
    <3>4. Gapless(BHas, T \o <<op>>)
      BY <1>0, <2>6, <3>2, <3>3
    <3> HIDE DEF op, T
    <3>5. T \o <<op>> \in Seq(Op) /\ ToSet(T \o <<op>>) = ToSet(T) \cup {op}
      <4> DEFINE z == <<op>>
      <4>1. T \in Seq(Op) /\ z \in Seq(Op) /\ ToSet(z) = {op}
        BY <1>0, <2>5
      <4> HIDE DEF z
      <4>2. ToSet(T \o z) = ToSet(T) \cup ToSet(z) /\ T \o z \in Seq(Op)
        BY ONLY <4>1, ElementsJoined
      <4> QED
        BY <4>1, <4>2 DEF z
    <3>6. toB'["me"] = T \o <<op>>
      BY <1>0, <2>2, <2>5, <2>10, PublishedElements DEF T
    <3>7. toB'["me"] \o out' = T \o <<op>>
      BY <2>2, <3>5, <3>6, ConcatEmptySeq
    <3>8. LastSent'
      <4>1. op = [p |-> "me", n |-> Len(log'["me"])]
        BY <2>4 DEF op
      <4>2. op \in ToSet(toB'["me"] \o out')
        BY <3>5, <3>7
      <4> QED
        BY <4>1, <4>2 DEF LastSent
    <3> QED
      BY <1>1, <2>1, <2>2, <2>8, <3>4, <3>7, <3>8 DEF Streams
  <2> QED
    BY <2>9, <2>10
<1>19. CASE BReceives("me")
  <2> DEFINE op == Head(T)
  <2>1. /\ T # <<>> /\ toB' = [toB EXCEPT !["me"] = Tail(T)]
        /\ bMissed' = (bMissed \/ op.n > BHas[op.p] + 1)
        /\ IF op.n = BHas[op.p] + 1 THEN BHas1(op) ELSE UNCHANGED <<bJournal, bTicked, serving>>
        /\ UNCHANGED <<log, journal, out, opps, retries, remote, attempt>>
    BY <1>19 DEF BReceives
  <2>2. /\ op \in Op /\ Tail(T) \in Seq(Op) /\ ToSet(T) = ToSet(Tail(T)) \cup {op}
        /\ toB'["me"] = Tail(T)
    BY <1>0, <2>1, ElementsTaken DEF Typed
  <2>3. T \o out # <<>> /\ Head(T \o out) = op /\ Tail(T \o out) = Tail(T) \o out
    <3>1. T \in Seq(Op) /\ T # <<>> /\ out \in Seq(Op) /\ Head(T) = op
      BY <1>0, <2>1
    <3> HIDE DEF T, op
    <3> QED
      BY <3>1, TakenOfJoined
  <2>4. /\ op.n <= BHas[op.p] + 1
        /\ \A u \in Clock : AtMost(BHas, u) /\ op \in Covered(u) => Gapless(u, Tail(T) \o out)
    BY <1>0, <1>1, <2>3, GaplessRest
  <2> HIDE DEF op, T
  <2>5. op.p \in Writer /\ op.n \in Nat /\ BHas[op.p] \in Nat
    BY <1>0, <2>2 DEF Op, Clock
  <2>6. op \in Covered(BHas')
    <3>1. CASE op.n = BHas[op.p] + 1
      <4>1. bJournal' = Append(bJournal, op)
        BY <2>1, <3>1 DEF BHas1
      <4>2. /\ ToSet(bJournal') = Covered(BHas')
            /\ ToSet(bJournal') = ToSet(bJournal) \cup {op}
        BY <1>0, <2>2, <3>1, <4>1, JournalGrows DEF Whole
      <4> QED
        BY <4>2
    <3>2. CASE op.n # BHas[op.p] + 1
      <4>1. op.n <= BHas[op.p]
        BY <2>4, <2>5, <3>2
      <4>2. BHas' = BHas
        BY <1>0, <2>1, <3>2
      <4> QED
        BY <1>0, <2>2, <4>1, <4>2, CoveredMembers
    <3> QED
      BY <3>1, <3>2
  <2>7. Gapless(BHas', toB'["me"] \o out')
    BY <1>0, <2>1, <2>2, <2>4, <2>6
  <2>8. ~ bMissed'
    <3>1. ~(op.n > BHas[op.p] + 1)
      BY <2>4, <2>5
    <3> QED
      BY <1>1, <2>1, <3>1
  <2>9. LastSent => LastSent'
    <3>1. /\ Tail(T) \o out \in Seq(Op) /\ ToSet(Tail(T) \o out) = ToSet(Tail(T)) \cup ToSet(out)
          /\ ToSet(T \o out) = ToSet(T) \cup ToSet(out)
      <4>1. T \in Seq(Op) /\ out \in Seq(Op) /\ Tail(T) \in Seq(Op)
        BY <1>0, <2>2
      <4> DEFINE r == Tail(T)
      <4> HIDE DEF r
      <4>2. T \in Seq(Op) /\ out \in Seq(Op) /\ r \in Seq(Op)
        BY <4>1 DEF r
      <4>3. ToSet(T \o out) = ToSet(T) \cup ToSet(out)
        BY ONLY <4>2, ElementsJoined
      <4>4. r \o out \in Seq(Op) /\ ToSet(r \o out) = ToSet(r) \cup ToSet(out)
        BY ONLY <4>2, ElementsJoined
      <4> QED
        BY <4>3, <4>4 DEF r
    <3>2. toB'["me"] \o out' = Tail(T) \o out /\ Len(log'["me"]) = Len(log["me"])
      BY <2>1, <2>2
    <3>3. ToSet(T \o out) \subseteq ToSet(toB'["me"] \o out') \cup Covered(BHas')
      BY <2>2, <2>6, <3>1, <3>2
    <3> QED
      BY <1>0, <3>1, <3>2, <3>3, LastSentStays DEF T
  <2>10. ToBeSent' => ToBeSent
    BY <2>1 DEF ToBeSent
  <2> QED
    BY <1>1, <1>2, <2>1, <2>7, <2>8, <2>9, <2>10 DEF Streams
<1>20. CASE BReceives("c")
  <2> DEFINE op == Head(toB["c"])
  <2>1. /\ toB["c"] # <<>> /\ toB["c"] \in Seq(Op) /\ toB' = [toB EXCEPT !["c"] = Tail(toB["c"])]
        /\ bMissed' = (bMissed \/ op.n > BHas[op.p] + 1)
        /\ UNCHANGED <<log, journal, out, opps, retries, remote, attempt>>
    BY <1>0, <1>20 DEF BReceives, Typed
  <2>2. op = [p |-> "c", n |-> BHas["c"] + 1]
    BY <2>1, ElementsTaken DEF Whole, Collaborator
  <2>3. ~(op.n > BHas[op.p] + 1)
    <3>1. BHas["c"] \in Nat
      BY <1>0, WritersAre DEF Clock
    <3> HIDE DEF op
    <3> QED
      BY <2>2, <3>1
  <2> HIDE DEF op
  <2>4. Same /\ toB'["me"] = T
    BY <1>0, <1>1, <2>1, <2>3 DEF Typed
  <2>5. ToBeSent' => ToBeSent
    BY <2>1 DEF ToBeSent
  <2> QED
    BY <1>2, <1>4, <2>1, <2>4, <2>5
<1> QED
  BY <1>7, <1>8, <1>9, <1>10, <1>11, <1>12, <1>13, <1>14, <1>15, <1>16, <1>17, <1>18, <1>19, <1>20
     DEF Next, Environment, Process

\* At first nothing is emitted.
LEMMA StreamsInit == Init => Streams
<1> SUFFICES ASSUME Init PROVE Streams
  OBVIOUS
<1>1. /\ bJournal[1] = [p |-> "b", n |-> 1] /\ DOMAIN bJournal = {1} /\ BHas \in Clock
      /\ BHas = [Zero EXCEPT !["b"] = 1]
  BY FirstOperation
<1>2. Gapless(BHas, bJournal)
  <2>1. BHas["b"] = 1
    BY <1>1, ZeroIsClock, WritersAre DEF Clock
  <2>2. \A i \in DOMAIN bJournal : bJournal[i].n <= BHas[bJournal[i].p] + 1
    BY <1>1, <2>1
  <2> QED
    BY <2>2 DEF Gapless
<1>3. Gapless(BHas, <<>>) /\ <<>> \o <<>> = <<>>
  <2>1. <<>> \in Seq(Op)
    BY NoElements
  <2> QED
    BY <2>1, ConcatEmptySeq DEF Gapless
<1>4. Gapless(BHas, journal)
  BY <1>2, <1>3 DEF Init
<1>5. toB["me"] = <<>> /\ out = <<>> /\ ~ bMissed /\ opps = 0 /\ ~ remote
  BY DEF Init
<1>6. ~ ToBeSent
  BY <1>5 DEF ToBeSent
<1> QED
  BY <1>3, <1>4, <1>5, <1>6 DEF Streams

\* A step that changes nothing changes nothing of what is emitted.
LEMMA StreamsUnchanged ==
  ASSUME Streams, UNCHANGED vars
  PROVE  Streams'
  BY DEF vars, collaborator, network, database, receiving, deciding, Streams, BHas, LastSent, ToBeSent

\* Unless the app writes after the remotes have come back and before the attempt has
\* paused the output (or one of the other circumstances comes about that are not
\* admitted here), own operations are published in order: the pause sees to it that
\* none goes out before those that the collaborator has missed
\* (DatasetEngine.decideLive, PauseableSource).
THEOREM PublishedInOrderOtherwise ==
  ASSUME Adverse \subseteq {"late-delivery"}
  PROVE  Spec => []PublishedInOrder
<1>1. Init => Whole /\ Streams
  BY WholeInit, StreamsInit
<1>2. Whole /\ Streams /\ [Next]_vars => Whole' /\ Streams'
  BY WholeStep, StreamsStep, StreamsUnchanged
<1>3. Streams => PublishedInOrder
  BY DEF Streams, PublishedInOrder
<1> QED
  BY <1>1, <1>2, <1>3, PTL DEF Spec

-----------------------------------------------------------------------------
(* In the end, all that there is *)

\* What is new is on its way, or is the clone's own.
LEMMA NewsComes ==
  ASSUME Whole, Next, remote
  PROVE  Covered(Written') \subseteq Covered(Written) \cup Coming' \cup Covered(time')
<1> USE DEF collaborator, network, database, receiving, deciding
<1>0. Typed /\ Written \in Clock /\ Written' \in Clock /\ toMe["b"] \in Seq(Op) /\ toMe["c"] \in Seq(Op)
      /\ time \in Clock /\ (\A p \in Writer : Written[p] = Len(log[p]) /\ Len(log[p]) \in Nat)
      /\ "me" \in Writer /\ "b" \in Writer /\ "c" \in Writer
  BY ClockTypes, WrittenStep, WritersAre DEF Whole, Typed
<1>1. CASE log' = log
  BY <1>1, WrittenStep DEF Whole
<1>2. CASE BWrites /\ Writes("b", BHas) /\ BHas \in Clock
  <2> DEFINE op == [p |-> "b", n |-> Len(log["b"]) + 1]
  <2>1. Covered(Written') = Covered(Written) \cup {op} /\ op \in Op
    BY <1>0, <1>2, WrittenGrows
  <2>2. toMe' = [toMe EXCEPT !.b = Append(@, op)]
    BY <1>2 DEF BWrites
  <2> HIDE DEF op
  <2>3. toMe'["b"] = Append(toMe["b"], op) /\ toMe'["c"] = toMe["c"]
    BY <1>0, <2>2 DEF Typed
  <2>4. ToSet(toMe'["b"]) = ToSet(toMe["b"]) \cup {op}
    BY <1>0, <2>1, <2>3, ElementsAppended
  <2>5. op \in Coming'
    BY <2>3, <2>4 DEF Coming
  <2> QED
    BY <1>2, <2>1, <2>5
<1>3. CASE CWrites /\ log' # log
  <2> DEFINE op == [p |-> "c", n |-> Len(log["c"]) + 1]
  <2>1. PICK t : log'["c"] = Append(log["c"], t)
    BY <1>0, <1>3 DEF CWrites, Typed
  <2>2. log'["c"] # log["c"]
    <3>1. log["c"] \in Seq(Clock)
      BY <1>0 DEF Typed
    <3>2. Len(Append(log["c"], t)) = Len(log["c"]) + 1
      BY <3>1
    <3> QED
      BY <1>0, <2>1, <3>2
  <2>3. ~ BWrites /\ ~ Write
    BY <1>0, <2>2 DEF BWrites, Write, Typed
  <2>4. PICK u \in Clock : Writes("c", u)
    BY <1>0, <1>3, <2>3, WritersWrite
  <2>5. Covered(Written') = Covered(Written) \cup {op} /\ op \in Op
    BY <1>0, <2>4, WrittenGrows
  <2>6. toMe' = [toMe EXCEPT !.c = Append(@, op)]
    BY <1>3 DEF CWrites
  <2> HIDE DEF op
  <2>7. toMe'["c"] = Append(toMe["c"], op) /\ toMe'["b"] = toMe["b"]
    BY <1>0, <2>6 DEF Typed
  <2>8. ToSet(toMe'["c"]) = ToSet(toMe["c"]) \cup {op}
    BY <1>0, <2>5, <2>7, ElementsAppended
  <2>9. op \in Coming'
    BY <2>7, <2>8 DEF Coming
  <2> QED
    BY <1>3, <2>5, <2>9
<1>4. CASE Write /\ Writes("me", time) /\ time \in Clock
  <2> DEFINE n == Len(log["me"]) + 1
             p == "me"
             op == [p |-> p, n |-> n]
  <2>1. Covered(Written') = Covered(Written) \cup {op} /\ op \in Op
    BY <1>0, <1>4, WrittenGrows
  <2>2. time' = [time EXCEPT ![p] = n] /\ n \in Nat \ {0} /\ p \in Writer
    BY <1>0, <1>4 DEF Write
  <2>a. op = [p |-> p, n |-> n]
    OBVIOUS
  <2> HIDE DEF n, p, op
  <2>3. time' \in Clock /\ time'[p] = n /\ n <= n
    BY <1>0, <2>2 DEF Clock
  <2>4. [p |-> p, n |-> n] \in Covered(time')
    BY <2>2, <2>3, CoveredMembers, ZenonT(30)
  <2> QED
    BY <1>4, <2>1, <2>4, <2>a
<1> QED
  BY <1>1, <1>2, <1>3, <1>4, WritersWrite DEF Whole

\* The local time only goes back when the process stops.
LEMMA TimeGrows ==
  ASSUME Whole, Next, ~ Restart
  PROVE  time' \in Clock /\ Covered(time) \subseteq Covered(time')
<1> USE DEF collaborator, network, database, receiving, deciding
<1>0. Typed /\ time \in Clock /\ time' \in Clock /\ Times /\ Control /\ answer.gwc \in Clock /\ answer \in Answer
  BY ClockTypes, TypedStep DEF Typed, Whole
<1>1. ASSUME time' = time PROVE Covered(time) \subseteq Covered(time')
  BY <1>1
<1>2. BWrites \/ CWrites \/ Change \/ RevupsFail \/ SnapshotFails => time' = time
  BY DEF BWrites, CWrites, Change, RevupsFail, SnapshotFails
<1>3. Decide \/ Reply \/ Fail \/ Retry \/ Attach \/ Clear \/ Insert \/ Connected => time' = time
  BY DEF Decide, Reply, Fail, Retry, Attach, Clear, Insert, Connected
<1>4. SentAll \/ Revup \/ RevupsEnd \/ Take \/ Buffer \/ Disordered \/ BackingUp => time' = time
  BY DEF SentAll, Revup, RevupsEnd, Take, Buffer, Disordered, BackingUp, Reconnect
<1>5. (\E p \in {"b", "c"} : Arrive(p)) \/ (\E p \in {"me", "c"} : BReceives(p)) => time' = time
  BY DEF Arrive, BReceives
<1>6. CASE Accept
  BY <1>0, <1>6, AcceptTimes, CoveredOrder
<1>7. CASE Connect
  <2>1. time' = time \/ (attempt = "answered" /\ answer.kind # "revup" /\ time' = Join(time, answer.gwc))
    BY <1>7 DEF Connect
  <2>2. ASSUME attempt = "answered", answer.kind # "revup", time' = Join(time, answer.gwc)
        PROVE  Covered(time) \subseteq Covered(time')
    <3>1. answer.kind = "snapshot"
      BY <1>0, <2>2 DEF Control, Answer
    <3> QED
      BY <1>0, <2>2, <3>1, JoinIsLater, CoveredOrder DEF Times
  <2> QED
    BY <1>0, <1>1, <2>1, <2>2
<1>8. CASE Write
  <2> DEFINE n == Len(log["me"]) + 1
             p == "me"
  <2>1. time' = [time EXCEPT ![p] = n] /\ p \in Writer
    BY <1>8, WritersAre DEF Write
  <2>2. n = time[p] + 1 /\ n \in Nat \ {0}
    BY <1>0, ClockTypes, WritersAre DEF Times
  <2> HIDE DEF n, p
  <2>3. [time EXCEPT ![p] = n] \in Clock /\ AtMost(time, [time EXCEPT ![p] = n])
    BY <1>0, <2>1, <2>2, CoveredNext
  <2> QED
    BY <1>0, <2>1, <2>3, CoveredOrder
<1> QED
  BY <1>0, <1>1, <1>2, <1>3, <1>4, <1>5, <1>6, <1>7, <1>8 DEF Next, Environment, Process


\* What the others write is published after what they have written before.
LEMMA ComingStays ==
  ASSUME Whole, BWrites \/ CWrites
  PROVE  Coming \subseteq Coming'
<1>0. Typed /\ toMe["b"] \in Seq(Op) /\ toMe["c"] \in Seq(Op)
      /\ (\A p \in Writer : Written[p] = Len(log[p]) /\ Len(log[p]) \in Nat)
      /\ "me" \in Writer /\ "b" \in Writer /\ "c" \in Writer
  BY ClockTypes, WritersAre DEF Whole, Typed
<1>1. ASSUME toMe' = toMe PROVE Coming \subseteq Coming'
  BY <1>1 DEF Coming
<1>2. ASSUME NEW p \in {"b", "c"}, NEW op \in Op, toMe' = [toMe EXCEPT ![p] = Append(@, op)]
      PROVE  Coming \subseteq Coming'
  <2>1. toMe'[p] = Append(toMe[p], op) /\ \A q \in {"b", "c"} : q # p => toMe'[q] = toMe[q]
    BY <1>0, <1>2 DEF Typed
  <2>2. toMe[p] \in Seq(Op)
    BY <1>0
  <2>3. ToSet(toMe'[p]) = ToSet(toMe[p]) \cup {op}
    BY <2>1, <2>2, ElementsAppended
  <2>4. \A q \in {"b", "c"} : ToSet(toMe[q]) \subseteq ToSet(toMe'[q])
    BY <2>1, <2>3
  <2> QED
    BY <2>4 DEF Coming
<1>3. CASE BWrites
  <2> DEFINE op == [p |-> "b", n |-> Len(log["b"]) + 1]
  <2>1. op \in Op /\ (toMe' = toMe \/ toMe' = [toMe EXCEPT !.b = Append(@, op)])
    BY <1>0, <1>3 DEF BWrites, Op
  <2> HIDE DEF op
  <2> QED
    BY <1>1, <1>2, <2>1
<1>4. CASE CWrites
  <2> DEFINE op == [p |-> "c", n |-> Len(log["c"]) + 1]
  <2>1. op \in Op /\ (toMe' = toMe \/ toMe' = [toMe EXCEPT !.c = Append(@, op)])
    BY <1>0, <1>4 DEF CWrites, Op
  <2> HIDE DEF op
  <2> QED
    BY <1>1, <1>2, <2>1
<1> QED
  BY <1>3, <1>4

\* A publication that arrives is the only one to leave the network.
LEMMA OneArrives ==
  ASSUME Whole, NEW p \in {"b", "c"}, Arrive(p)
  PROVE  /\ Head(toMe[p]) \in Covered(Written) /\ Head(toMe[p]) \in Op /\ Head(toMe[p]).p = p
         /\ Coming \subseteq Coming' \cup {Head(toMe[p])}
<1>1. Typed /\ Known /\ toMe[p] \in Seq(Op) /\ toMe[p] # <<>> /\ toMe' = [toMe EXCEPT ![p] = Tail(toMe[p])]
  BY DEF Arrive, Whole, Typed
<1>2. toMe'[p] = Tail(toMe[p]) /\ \A q \in {"b", "c"} : q # p => toMe'[q] = toMe[q]
  BY <1>1 DEF Typed
<1>3. Head(toMe[p]) \in Op /\ ToSet(toMe[p]) = ToSet(Tail(toMe[p])) \cup {Head(toMe[p])}
  BY <1>1, ElementsTaken
<1>4. Head(toMe[p]) \in Covered(Written) /\ Head(toMe[p]).p = p
  BY <1>1, <1>3 DEF Known
<1>5. \A q \in {"b", "c"} : ToSet(toMe[q]) \subseteq ToSet(toMe'[q]) \cup {Head(toMe[p])}
  BY <1>2, <1>3
<1> QED
  BY <1>3, <1>4, <1>5 DEF Coming

-----------------------------------------------------------------------------
(* Sequences that bring what is missing *)

\* One that brings what is missing does so later, too.
LEMMA BringsLater ==
  ASSUME NEW t \in Clock, NEW now \in Clock, NEW later \in Clock, NEW l, NEW l2,
         Covered(now) \subseteq Covered(later),
         \A op \in Covered(t) : Prior(l2, op) = Prior(l, op),
         NEW s \in Seq(Op), Brings(s, t, now, l)
  PROVE  Brings(s, t, later, l2)
<1>1. Covered(t) \subseteq Covered(later) \cup ToSet(s)
  BY DEF Brings
<1>2. ASSUME NEW i \in DOMAIN s, s[i] \in Covered(t) \ Covered(later)
      PROVE  Prior(l2, s[i]) \subseteq Covered(later) \cup {s[k] : k \in 1 .. i - 1}
  <2>1. s[i] \in Covered(t) \ Covered(now)
    BY <1>2
  <2>2. Prior(l, s[i]) \subseteq Covered(now) \cup {s[k] : k \in 1 .. i - 1}
    BY <2>1 DEF Brings
  <2>3. Prior(l2, s[i]) = Prior(l, s[i])
    BY <1>2
  <2> QED
    BY <2>2, <2>3
<1> QED
  BY <1>1, <1>2 DEF Brings

\* More may come after it.
LEMMA BringsMore ==
  ASSUME NEW t \in Clock, NEW now \in Clock, NEW l, Closed(t, l),
         NEW s \in Seq(Op), NEW a \in Seq(Op), Brings(s, t, now, l)
  PROVE  Brings(s \o a, t, now, l)
<1> DEFINE u == s \o a
<1>1. /\ u \in Seq(Op) /\ DOMAIN u = 1 .. Len(s) + Len(a) /\ ToSet(u) = ToSet(s) \cup ToSet(a)
      /\ \A i \in 1 .. Len(s) : u[i] = s[i]
  BY ElementsJoined
<1>2. DOMAIN s = 1 .. Len(s) /\ Len(s) \in Nat /\ Len(a) \in Nat
  BY Elements
<1> HIDE DEF u
<1>3. Covered(t) \subseteq Covered(now) \cup ToSet(s)
  BY DEF Brings
<1>4. ASSUME NEW i \in DOMAIN u, u[i] \in Covered(t) \ Covered(now)
      PROVE  Prior(l, u[i]) \subseteq Covered(now) \cup {u[k] : k \in 1 .. i - 1}
  <2>1. CASE i <= Len(s)
    <3>1. i \in DOMAIN s /\ u[i] = s[i]
      BY <1>1, <1>2, <2>1
    <3>2. Prior(l, s[i]) \subseteq Covered(now) \cup {s[k] : k \in 1 .. i - 1}
      BY <1>4, <3>1 DEF Brings
    <3>3. \A k \in 1 .. i - 1 : k \in 1 .. Len(s)
      BY <1>1, <1>2, <2>1
    <3>4. \A k \in 1 .. i - 1 : u[k] = s[k]
      BY <1>1, <3>3
    <3> QED
      BY <3>1, <3>2, <3>4
  <2>2. CASE i > Len(s)
    <3>1. Prior(l, u[i]) \subseteq Covered(now) \cup ToSet(s)
      BY <1>3, <1>4 DEF Closed
    <3>2. \A k \in 1 .. Len(s) : k \in 1 .. i - 1
      BY <1>1, <1>2, <2>2
    <3>3. \A x \in ToSet(s) : \E k \in 1 .. Len(s) : x = s[k]
      BY <1>2, Elements
    <3>4. ToSet(s) \subseteq {u[k] : k \in 1 .. i - 1}
      BY <1>1, <3>2, <3>3
    <3> QED
      BY <3>1, <3>4
  <2> QED
    BY <1>1, <1>2, <2>1, <2>2
<1> QED
  BY <1>1, <1>3, <1>4 DEF Brings, u

\* Its first may be left out when it is no news.
LEMMA BringsRest ==
  ASSUME NEW t \in Clock, NEW now \in Clock, NEW l, Closed(t, l),
         NEW op \in Op, NEW s \in Seq(Op), Brings(<<op>> \o s, t, now, l),
         op \notin Covered(t) \ Covered(now)
  PROVE  Brings(s, t, now, l)
<1> DEFINE h == <<op>>
           u == h \o s
<1>1. h \in Seq(Op) /\ Len(h) = 1 /\ ToSet(h) = {op} /\ h[1] = op /\ 1 \in 1 .. Len(h)
  BY DEF ToSet
<1> HIDE DEF h
<1>2. /\ DOMAIN u = 1 .. 1 + Len(s) /\ ToSet(u) = {op} \cup ToSet(s) /\ u[1] = op
      /\ \A i \in 1 .. Len(s) : u[1 + i] = s[i]
  BY <1>1, ElementsJoined
<1>3. DOMAIN s = 1 .. Len(s) /\ Len(s) \in Nat
  BY Elements
<1>4. Brings(u, t, now, l)
  BY DEF h
<1> HIDE DEF u
<1>5. Covered(t) \subseteq Covered(now) \cup ToSet(s)
  BY <1>2, <1>4 DEF Brings
<1>6. ASSUME NEW i \in DOMAIN s, s[i] \in Covered(t) \ Covered(now)
      PROVE  Prior(l, s[i]) \subseteq Covered(now) \cup {s[k] : k \in 1 .. i - 1}
  <2>1. 1 + i \in DOMAIN u /\ u[1 + i] = s[i] /\ 1 + i - 1 = i
    BY <1>2, <1>3
  <2>2. Prior(l, s[i]) \subseteq Covered(now) \cup {u[k] : k \in 1 .. i}
    BY <1>4, <1>6, <2>1 DEF Brings
  <2>3. Prior(l, s[i]) \subseteq Covered(t)
    BY <1>6 DEF Closed
  <2>4. \A k \in 1 .. i : k = 1 \/ (k - 1 \in 1 .. i - 1 /\ k - 1 \in 1 .. Len(s) /\ k = 1 + (k - 1))
    BY <1>3
  <2>5. \A k \in 1 .. i : u[k] = op \/ u[k] \in {s[j] : j \in 1 .. i - 1}
    <3> TAKE k \in 1 .. i
    <3>1. CASE k = 1
      BY <1>2, <3>1
    <3>2. CASE k - 1 \in 1 .. i - 1 /\ k - 1 \in 1 .. Len(s) /\ k = 1 + (k - 1)
      <4>1. u[1 + (k - 1)] = s[k - 1]
        BY <1>2, <3>2
      <4> QED
        BY <3>2, <4>1
    <3> QED
      BY <2>4, <3>1, <3>2
  <2> QED
    BY <2>2, <2>3, <2>5
<1> QED
  BY <1>5, <1>6 DEF Brings

\* Whoever has the time is ready for its first, when that is news.
LEMMA BringsFirst ==
  ASSUME NEW t \in Clock, NEW now \in Clock, NEW l,
         NEW op \in Op, NEW s \in Seq(Op), Brings(<<op>> \o s, t, now, l),
         op \in Covered(t) \ Covered(now)
  PROVE  Prior(l, op) \subseteq Covered(now)
<1> DEFINE u == <<op>> \o s
<1>1. <<op>> \in Seq(Op) /\ Len(<<op>>) = 1 /\ <<op>>[1] = op
  OBVIOUS
<1>2. 1 \in DOMAIN u /\ u[1] = op
  <2>1. Len(s) \in Nat
    BY Elements
  <2> QED
    BY <1>1, <2>1, ElementsJoined
<1>3. Brings(u, t, now, l)
  OBVIOUS
<1> HIDE DEF u
<1>4. Prior(l, u[1]) \subseteq Covered(now) \cup {u[k] : k \in 1 .. 1 - 1}
  BY <1>2, <1>3 DEF Brings
<1> QED
  BY <1>2, <1>4

\* A sequence that is empty brings nothing, and one of one operation that.
LEMMA BringsFew ==
  ASSUME NEW t \in Clock, NEW now \in Clock, NEW l
  PROVE  /\ Brings(<<>>, t, now, l) <=> Covered(t) \subseteq Covered(now)
         /\ \A op \in Op : Brings(<<op>> \o <<>>, t, now, l) => Covered(t) \subseteq Covered(now) \cup {op}
         /\ Covered(t) \subseteq Covered(now) => \A s \in Seq(Op) : Brings(s, t, now, l)
<1>1. ToSet(<<>>) = {} /\ DOMAIN <<>> = {}
  BY NoElements
<1>2. ASSUME NEW op \in Op, Brings(<<op>> \o <<>>, t, now, l) PROVE Covered(t) \subseteq Covered(now) \cup {op}
  <2>1. <<op>> \in Seq(Op) /\ <<>> \in Seq(Op) /\ ToSet(<<op>>) = {op}
    BY DEF ToSet
  <2>2. ToSet(<<op>> \o <<>>) = {op}
    BY <1>1, <2>1, ElementsJoined
  <2> QED
    BY <1>2, <2>2 DEF Brings
<1> QED
  BY <1>1, <1>2 DEF Brings

-----------------------------------------------------------------------------
(* The first operations of messages *)

\* The first operations of messages are a sequence of as many operations.
LEMMA FirstOpsAre ==
  ASSUME NEW q \in Seq(Msg), NEW k \in 0 .. Len(q)
  PROVE  FirstOps(q, k) \in Seq(Op) /\ Len(FirstOps(q, k)) = k /\ Ops(q) \in Seq(Op) /\ Ops(<<>>) = <<>>
<1>1. Len(q) \in Nat /\ \A i \in 1 .. Len(q) : q[i].op \in Op
  <2>1. Len(q) \in Nat /\ \A i \in 1 .. Len(q) : q[i] \in Msg
    BY Elements
  <2> QED
    BY <2>1 DEF Msg
<1>2. ASSUME NEW m \in 0 .. Len(q) PROVE FirstOps(q, m) \in Seq(Op) /\ Len(FirstOps(q, m)) = m
  <2>1. FirstOps(q, m) = [i \in 1 .. m |-> FirstOps(q, m)[i]] /\ DOMAIN FirstOps(q, m) = 1 .. m
    BY DEF FirstOps
  <2>2. \A i \in 1 .. m : FirstOps(q, m)[i] \in Op
    BY <1>1 DEF FirstOps
  <2>3. FirstOps(q, m) \in Seq(Op)
    BY <1>1, <2>1, <2>2, IsASeq
  <2> QED
    BY <1>1, <2>1, <2>3, LenProperties
<1>3. Ops(<<>>) = <<>>
  <2>1. Len(<<>>) = 0 /\ <<>> \in Seq(Msg)
    OBVIOUS
  <2>2. Ops(<<>>) = [i \in 1 .. 0 |-> <<>>[i].op]
    BY <2>1 DEF Ops, FirstOps
  <2>3. 1 .. 0 = {}
    OBVIOUS
  <2>4. Ops(<<>>) \in Seq(Op) /\ DOMAIN Ops(<<>>) = {}
    BY <2>2, <2>3, IsASeq
  <2> QED
    BY <2>4, Elements
<1> QED
  BY <1>1, <1>2, <1>3 DEF Ops

\* The first of a sequence that goes on are what they were.
LEMMA FirstOpsStay ==
  ASSUME NEW q \in Seq(Msg), NEW k \in 0 .. Len(q), NEW r \in Seq(Msg), Len(r) >= Len(q),
         \A i \in 1 .. Len(q) : r[i] = q[i]
  PROVE  FirstOps(r, k) = FirstOps(q, k)
<1>1. Len(q) \in Nat
  BY Elements
<1>2. \A i \in 1 .. k : r[i].op = q[i].op
  BY <1>1
<1> QED
  BY <1>2 DEF FirstOps

\* The first one has its turn.
LEMMA FirstOpsTaken ==
  ASSUME NEW q \in Seq(Msg), q # <<>>, NEW k \in 1 .. Len(q)
  PROVE  FirstOps(q, k) = <<Head(q).op>> \o FirstOps(Tail(q), k - 1)
<1>1. /\ Head(q) \in Msg /\ Tail(q) \in Seq(Msg) /\ Head(q) = q[1] /\ Len(q) \in Nat
      /\ Len(Tail(q)) = Len(q) - 1 /\ \A i \in 1 .. Len(q) - 1 : Tail(q)[i] = q[i + 1]
  BY ElementsTaken
<1>2. k - 1 \in 0 .. Len(Tail(q)) /\ k \in 0 .. Len(q) /\ k \in Nat
  BY <1>1
<1> DEFINE h == <<Head(q).op>>
           r == FirstOps(Tail(q), k - 1)
           s == FirstOps(q, k)
<1>3. h \in Seq(Op) /\ Len(h) = 1 /\ h[1] = q[1].op
  BY <1>1 DEF Msg
<1>4. r \in Seq(Op) /\ Len(r) = k - 1 /\ s \in Seq(Op) /\ Len(s) = k
  BY <1>1, <1>2, FirstOpsAre
<1>5. (\A i \in 1 .. k : s[i] = q[i].op) /\ (\A i \in 1 .. k - 1 : r[i] = Tail(q)[i].op)
  BY DEF FirstOps
<1> HIDE DEF h, r, s
<1>6. h \o r \in Seq(Op) /\ Len(h \o r) = 1 + (k - 1) /\ (h \o r)[1] = h[1]
      /\ \A i \in 1 .. k - 1 : (h \o r)[1 + i] = r[i]
  <2>1. /\ h \o r \in Seq(Op) /\ Len(h \o r) = Len(h) + Len(r)
        /\ \A i \in 1 .. Len(h) : (h \o r)[i] = h[i]
        /\ \A i \in 1 .. Len(r) : (h \o r)[Len(h) + i] = r[i]
    BY ONLY <1>3, <1>4, ElementsJoined, SMTT(30)
  <2>2. 1 \in 1 .. 1
    OBVIOUS
  <2> QED
    BY ONLY <1>3, <1>4, <2>1, <2>2
<1>7. \A i \in 1 .. k : (h \o r)[i] = s[i]
  <2> TAKE i \in 1 .. k
  <2>1. CASE i = 1
    BY <1>2, <1>3, <1>5, <1>6, <2>1
  <2>2. CASE i # 1
    <3>1. i - 1 \in 1 .. k - 1 /\ i - 1 \in 1 .. Len(q) - 1 /\ 1 + (i - 1) = i /\ (i - 1) + 1 = i
      BY <1>1, <1>2, <2>2
    <3>2. (h \o r)[1 + (i - 1)] = r[i - 1] /\ r[i - 1] = Tail(q)[i - 1].op /\ Tail(q)[i - 1] = q[(i - 1) + 1]
      BY <1>1, <1>5, <1>6, <3>1
    <3> QED
      BY <1>5, <3>1, <3>2
  <2> QED
    BY <2>1, <2>2
<1>8. Len(h \o r) = Len(s)
  BY <1>2, <1>4, <1>6
<1>9. h \o r = s
  BY <1>4, <1>6, <1>7, <1>8, SeqEqual
<1> QED
  BY <1>9 DEF h, r, s

-----------------------------------------------------------------------------
(* Causal order *)

\* What an author had seen does not change.
LEMMA BeforeStays ==
  ASSUME Whole, Next
  PROVE  \A op \in Covered(Written) : Prior(log', op) = Prior(log, op)
<1>1. \A op \in Covered(Written) : SeenBy(op)' = SeenBy(op)
  BY WrittenStep DEF Whole
<1> QED
  BY <1>1 DEF SeenBy, Prior

\* A time that is in causal order stays so.
LEMMA ClosedStays ==
  ASSUME Whole, Next, NEW t \in Clock, AtMost(t, Written), Closed(t, log)
  PROVE  AtMost(t, Written') /\ Closed(t, log')
<1>1. Written \in Clock /\ Written' \in Clock /\ AtMost(Written, Written')
  BY ClockTypes, WrittenStep DEF Whole
<1>2. Covered(t) \subseteq Covered(Written)
  BY <1>1, CoveredOrder
<1>3. \A op \in Covered(t) : Prior(log', op) = Prior(log, op)
  BY <1>2, BeforeStays
<1> QED
  BY <1>1, <1>3, AtMostTransitive DEF Closed

\* The journal of the collaborator, and its time, are in causal order.
LEMMA JournalClosed ==
  ASSUME Whole, Ordered
  PROVE  Closed(BHas, log)
<1>0. bJournal \in Seq(Op) /\ ToSet(bJournal) = Covered(BHas)
  BY DEF Whole, Typed, Collaborator
<1> SUFFICES ASSUME NEW op \in Covered(BHas) PROVE Prior(log, op) \subseteq Covered(BHas)
  BY DEF Closed
<1>1. PICK i \in DOMAIN bJournal : op = bJournal[i]
  BY <1>0, Elements
<1>2. Prior(log, op) \subseteq {bJournal[k] : k \in 1 .. i - 1}
  BY <1>1 DEF Ordered
<1>3. \A k \in 1 .. i - 1 : k \in DOMAIN bJournal
  BY <1>0, <1>1, Elements
<1>4. \A k \in 1 .. i - 1 : bJournal[k] \in Covered(BHas)
  BY <1>0, <1>3, Elements
<1> QED
  BY <1>2, <1>4

\* A publication on its way to the collaborator has been written.
LEMMA SentWasWritten ==
  ASSUME Whole, NEW p \in {"me", "c"}, toB[p] # <<>>
  PROVE  Head(toB[p]) \in Covered(Written) /\ Head(toB[p]) \in Op /\ toB[p] \in Seq(Op)
<1>0. Typed /\ Known /\ Collaborator /\ BHas["c"] \in Nat /\ Written \in Clock
      /\ Written["c"] = Len(log["c"]) /\ Len(log["c"]) \in Nat /\ "c" \in Writer
  BY ClockTypes, WritersAre DEF Whole
<1>1. toB[p] \in Seq(Op)
  BY <1>0 DEF Typed
<1>2. /\ Head(toB[p]) \in Op /\ Head(toB[p]) \in ToSet(toB[p]) /\ Head(toB[p]) = toB[p][1]
      /\ Len(toB[p]) \in Nat /\ Len(toB[p]) > 0 /\ 1 \in DOMAIN toB[p]
  BY <1>1, ElementsTaken
<1>3. CASE p = "me"
  BY <1>0, <1>1, <1>2, <1>3 DEF Known
<1>4. CASE p = "c"
  <2>1. Head(toB[p]) = [p |-> "c", n |-> BHas["c"] + 1]
    BY <1>0, <1>2, <1>4 DEF Collaborator
  <2>2. BHas["c"] + 1 \in Nat \ {0} /\ BHas["c"] + 1 <= Written["c"]
    BY <1>0, <1>2, <1>4 DEF Collaborator
  <2>3. [p |-> "c", n |-> BHas["c"] + 1] \in Covered(Written)
    BY <1>0, <2>2, CoveredMembers
  <2> QED
    BY <1>1, <1>2, <2>1, <2>3
<1> QED
  BY <1>3, <1>4

\* One who is ready for an operation, and is at its turn, has what its author had seen.
LEMMA ReadyHas ==
  ASSUME Whole, NEW t \in Clock, NEW op \in Covered(Written)
  PROVE  /\ ReadyFor(t, op) /\ op.n = t[op.p] + 1 => Prior(log, op) \subseteq Covered(t)
         /\ Prior(log, op) \subseteq Covered(t) => ReadyFor(t, op)
<1>0. Typed /\ Logs /\ Written \in Clock /\ \A p \in Writer : Written[p] = Len(log[p]) /\ Len(log[p]) \in Nat
  BY ClockTypes DEF Whole
<1>1. op \in Op /\ op.n <= Written[op.p]
  BY <1>0, CoveredMembers
<1>2. op.p \in Writer /\ op.n \in Nat \ {0} /\ op.n \in 1 .. Len(log[op.p])
  BY <1>0, <1>1 DEF Op
<1>3. log[op.p] \in Seq(Clock)
  BY <1>0, <1>2 DEF Typed
<1>4. SeenBy(op) \in Clock /\ SeenBy(op)[op.p] = op.n - 1 /\ Prior(log, op) = Covered(SeenBy(op))
  BY <1>0, <1>2, <1>3 DEF SeenBy, Logs, Prior
<1>5. AtMost(SeenBy(op), t) <=> Prior(log, op) \subseteq Covered(t)
  BY <1>4, CoveredOrder
<1>6. ASSUME ReadyFor(t, op), op.n = t[op.p] + 1 PROVE AtMost(SeenBy(op), t)
  <2>1. SeenBy(op)[op.p] <= t[op.p]
    BY <1>2, <1>4, <1>6 DEF Clock
  <2> QED
    BY <1>6, <2>1 DEF ReadyFor, AtMost
<1>7. AtMost(SeenBy(op), t) => ReadyFor(t, op)
  BY DEF AtMost, ReadyFor
<1> QED
  BY <1>5, <1>6, <1>7

\* Every step keeps the journal of the collaborator in causal order.
LEMMA OrderedStep ==
  ASSUME Whole, Ordered, Next
  PROVE  Ordered'
<1> USE DEF collaborator, network, database, receiving, deciding
<1>0. /\ Typed /\ Collaborator /\ bJournal \in Seq(Op) /\ ToSet(bJournal) = Covered(BHas)
      /\ BHas \in Clock /\ Written \in Clock /\ AtMost(BHas, Written)
      /\ DOMAIN bJournal = 1 .. Len(bJournal) /\ Len(bJournal) \in Nat
      /\ \A i \in DOMAIN bJournal : bJournal[i] \in Covered(BHas)
  <2>1. /\ Typed /\ Collaborator /\ bJournal \in Seq(Op) /\ ToSet(bJournal) = Covered(BHas)
        /\ BHas \in Clock /\ Written \in Clock /\ AtMost(BHas, Written)
    BY ClockTypes DEF Whole, Typed, Collaborator
  <2> QED
    BY <2>1, Elements
<1>1. \A i \in DOMAIN bJournal : Prior(log', bJournal[i]) = Prior(log, bJournal[i])
  <2>1. Covered(BHas) \subseteq Covered(Written)
    BY <1>0, CoveredOrder
  <2> QED
    BY <1>0, <2>1, BeforeStays
<1>2. ASSUME bJournal' = bJournal PROVE Ordered'
  BY <1>1, <1>2 DEF Ordered
<1>3. ASSUME NEW op \in Op, bJournal' = Append(bJournal, op), Prior(log', op) \subseteq Covered(BHas)
      PROVE  Ordered'
  <2>1. /\ Len(bJournal') = Len(bJournal) + 1 /\ bJournal' \in Seq(Op)
        /\ \A i \in 1 .. Len(bJournal) : bJournal'[i] = bJournal[i]
        /\ bJournal'[Len(bJournal) + 1] = op
    BY <1>0, <1>3, ElementsAppended
  <2>2. DOMAIN bJournal' = 1 .. Len(bJournal) + 1
    BY <2>1, Elements
  <2> SUFFICES ASSUME NEW i \in 1 .. Len(bJournal) + 1
               PROVE  Prior(log', bJournal'[i]) \subseteq {bJournal'[k] : k \in 1 .. i - 1}
    BY <2>2 DEF Ordered
  <2>3. CASE i \in 1 .. Len(bJournal)
    <3>1. Prior(log', bJournal[i]) \subseteq {bJournal[k] : k \in 1 .. i - 1}
      BY <1>0, <1>1, <2>3 DEF Ordered
    <3>2. \A k \in 1 .. i - 1 : k \in 1 .. Len(bJournal)
      BY <1>0, <2>3
    <3> QED
      BY <2>1, <2>3, <3>1, <3>2
  <2>4. CASE i = Len(bJournal) + 1
    <3>1. \A x \in Covered(BHas) : \E k \in 1 .. Len(bJournal) : x = bJournal[k]
      BY <1>0, Elements
    <3>2. i - 1 = Len(bJournal)
      BY <1>0, <2>4
    <3>3. Covered(BHas) \subseteq {bJournal'[k] : k \in 1 .. i - 1}
      BY <2>1, <3>1, <3>2
    <3> QED
      BY <1>3, <2>1, <2>4, <3>3
  <2> QED
    BY <1>0, <2>3, <2>4
<1>4. CASE BWrites
  <2> DEFINE op == [p |-> "b", n |-> Len(log["b"]) + 1]
  <2>1. Writes("b", BHas) /\ bJournal' = Append(bJournal, op)
    BY <1>4 DEF BWrites, Writes
  <2>2. op \in Op /\ log'["b"][Written["b"] + 1] = BHas /\ Written["b"] = Len(log["b"])
    BY <1>0, <2>1, WrittenGrows, WritersAre, ClockTypes
  <2>3. Prior(log', op) = Covered(BHas)
    BY <2>2 DEF Prior
  <2> HIDE DEF op
  <2> QED
    BY <1>3, <2>1, <2>2, <2>3
<1>5. CASE \E p \in {"me", "c"} : BReceives(p)
  <2>1. PICK p \in {"me", "c"} : BReceives(p)
    BY <1>5
  <2> DEFINE op == Head(toB[p])
  <2>2. /\ toB[p] # <<>> /\ ReadyFor(BHas, op) /\ log' = log
        /\ \/ op.n = BHas[op.p] + 1 /\ bJournal' = Append(bJournal, op)
           \/ bJournal' = bJournal
    BY <2>1 DEF BReceives, BHas1
  <2>3. op \in Covered(Written) /\ op \in Op
    BY <2>2, SentWasWritten
  <2> HIDE DEF op
  <2>4. op.n = BHas[op.p] + 1 => Prior(log', op) \subseteq Covered(BHas)
    BY <1>0, <2>2, <2>3, ReadyHas
  <2> QED
    BY <1>2, <1>3, <2>2, <2>3, <2>4
<1>6. CASE CWrites \/ Change \/ Write \/ RevupsFail \/ SnapshotFails \/ Restart
  BY <1>2, <1>6 DEF CWrites, Change, Write, RevupsFail, SnapshotFails, Restart
<1>7. CASE Decide \/ Reply \/ Fail \/ Retry \/ Connect \/ Attach \/ Clear \/ Insert \/ Connected
  BY <1>2, <1>7 DEF Decide, Reply, Fail, Retry, Connect, Attach, Clear, Insert, Connected
<1>8. CASE SentAll \/ Revup \/ RevupsEnd \/ Take \/ Accept \/ Buffer \/ Disordered \/ BackingUp
  BY <1>2, <1>8 DEF SentAll, Revup, RevupsEnd, Take, Accept, Buffer, Disordered, BackingUp, Reconnect
<1>9. CASE \E p \in {"b", "c"} : Arrive(p)
  BY <1>2, <1>9 DEF Arrive
<1> QED
  BY <1>4, <1>5, <1>6, <1>7, <1>8, <1>9 DEF Next, Environment, Process

-----------------------------------------------------------------------------
(* The answer *)

\* The updates that b sends bring what it has, in causal order.
LEMMA ReplyBrings ==
  ASSUME Whole, Ordered
  PROVE  Brings(Since(bJournal, time), BHas, time, log)
<1> DEFINE s == Since(bJournal, time)
<1>0. time \in Clock /\ BHas \in Clock /\ bJournal \in Seq(Op) /\ ToSet(bJournal) = Covered(BHas)
      /\ DOMAIN bJournal = 1 .. Len(bJournal) /\ Len(bJournal) \in Nat
      /\ \A i \in DOMAIN bJournal : bJournal[i] \in Covered(BHas)
  <2>1. time \in Clock /\ BHas \in Clock /\ bJournal \in Seq(Op) /\ ToSet(bJournal) = Covered(BHas)
    BY ClockTypes DEF Whole, Typed, Collaborator
  <2> QED
    BY <2>1, Elements
<1>1. Picked(s, bJournal, time, Len(bJournal))
  BY <1>0, SincePicks
<1>2. ToSet(bJournal) = {bJournal[i] : i \in 1 .. Len(bJournal)}
  BY <1>0 DEF ToSet
<1>3. ToSet(s) = {op \in Covered(BHas) : op.n > time[op.p]}
  BY <1>0, <1>1, <1>2 DEF Picked
<1>4. \A op \in Covered(BHas) : op \in Covered(time) \/ op.n > time[op.p]
  <2> TAKE op \in Covered(BHas)
  <2>1. op \in Op /\ op.n \in Nat /\ time[op.p] \in Nat /\ (op \in Covered(time) <=> op.n <= time[op.p])
    BY <1>0, CoveredMembers DEF Op, Clock
  <2> QED
    BY <2>1
<1>5. Covered(BHas) \subseteq Covered(time) \cup ToSet(s)
  BY <1>3, <1>4
<1>6. ASSUME NEW i \in DOMAIN s
      PROVE  Prior(log, s[i]) \subseteq Covered(time) \cup {s[k] : k \in 1 .. i - 1}
  <2>1. PICK k \in 1 .. Len(bJournal) :
          /\ s[i] = bJournal[k]
          /\ \A l \in 1 .. k - 1 : bJournal[l].n > time[bJournal[l].p] =>
               \E h \in 1 .. i - 1 : s[h] = bJournal[l]
    BY <1>1, <1>6 DEF Picked
  <2>2. Prior(log, s[i]) \subseteq {bJournal[l] : l \in 1 .. k - 1}
    BY <1>0, <2>1 DEF Ordered
  <2>3. \A l \in 1 .. k - 1 : bJournal[l] \in Covered(BHas)
    BY <1>0
  <2>4. \A l \in 1 .. k - 1 : bJournal[l] \in Covered(time) \cup {s[h] : h \in 1 .. i - 1}
    BY <1>4, <2>1, <2>3
  <2> QED
    BY <2>2, <2>4
<1> QED
  BY <1>5, <1>6 DEF Brings

\* An answer is that of the collaborator when it was asked, until the attempt is over.
LEMMA AnswerFrom ==
  ASSUME Whole, Next
  PROVE  \/ answer' = answer /\ (attempt' = attempt \/ attempt' \notin {"answered", "connected"})
         \/ answer' = NoAnswer
         \/ Reply /\ answer'.gwc = BHas
         \/ /\ Connect /\ attempt = "answered" /\ answer'.gwc = answer.gwc /\ answer'.kind = answer.kind
            /\ answer.kind = "revup" => answer' = answer
         \/ /\ SentAll /\ attempt' = attempt /\ answer'.gwc = answer.gwc /\ answer'.kind = answer.kind
            /\ answer'.updates = answer.updates \o serving.forward
<1> USE DEF collaborator, network, database, receiving, deciding
<1>0. answer \in Answer /\ answer.gwc \in Clock
  BY ClockTypes
<1>1. CASE BWrites \/ CWrites \/ Change \/ Write \/ RevupsFail
  BY <1>1 DEF BWrites, CWrites, Change, Write, RevupsFail
<1>2. CASE SnapshotFails \/ Fail \/ Connected \/ Restart
  BY <1>2 DEF SnapshotFails, Fail, Connected, Restart, Over
<1>3. CASE Decide \/ Retry \/ Attach \/ Clear \/ Insert
  BY <1>3 DEF Decide, Retry, Attach, Clear, Insert
<1>4. CASE Reply
  BY <1>4 DEF Reply
<1>5. CASE Connect
  BY <1>0, <1>5 DEF Connect, Answer
<1>6. CASE SentAll
  <2>1. /\ attempt' = attempt
        /\ answer' = answer \/ answer' = [answer EXCEPT !.updates = answer.updates \o serving.forward]
    BY <1>6 DEF SentAll
  <2> QED
    BY <1>0, <1>6, <2>1 DEF Answer
<1>7. CASE Revup \/ RevupsEnd \/ Take \/ Accept \/ Buffer
  BY <1>7 DEF Revup, RevupsEnd, Take, Accept, Buffer
<1>8. CASE \/ Disordered \/ BackingUp
           \/ \E p \in {"b", "c"} : Arrive(p)
           \/ \E p \in {"me", "c"} : BReceives(p)
  BY <1>8 DEF Disordered, BackingUp, Reconnect, Arrive, BReceives
<1> QED
  BY <1>1, <1>2, <1>3, <1>4, <1>5, <1>6, <1>7, <1>8 DEF Next, Environment, Process

\* Zero is in causal order.
LEMMA ZeroIsClosed ==
  ASSUME NEW l
  PROVE  Covered(Zero) = {} /\ Closed(Zero, l) /\ NoAnswer.gwc = Zero
<1>1. Zero \in Clock /\ \A p \in Writer : Zero[p] = 0
  BY ZeroIsClock
<1>2. ASSUME NEW op \in Covered(Zero) PROVE FALSE
  <2>1. op \in Op /\ op.n <= Zero[op.p]
    BY <1>1, CoveredMembers
  <2> QED
    BY <1>1, <2>1 DEF Op
<1> QED
  BY <1>2 DEF Closed, NoAnswer

\* What was told by the recovery that is attached is in causal order.
LEMMA ToldStep ==
  ASSUME Whole, Answered, Next
  PROVE  AtMost(told', Written') /\ Closed(told', log')
<1> USE DEF collaborator, network, database, receiving, deciding
<1>0. told \in Clock /\ answer.gwc \in Clock /\ AtMost(answer.gwc, Written)
  <2>1. told \in Clock /\ answer.gwc \in Clock /\ BHas \in Clock /\ Written \in Clock
        /\ AtMost(answer.gwc, BHas) /\ AtMost(BHas, Written)
    BY ClockTypes DEF Whole, Typed, Times, Collaborator
  <2> QED
    BY <2>1, AtMostTransitive
<1>1. AtMost(told, Written') /\ Closed(told, log') /\ AtMost(answer.gwc, Written') /\ Closed(answer.gwc, log')
  BY <1>0, ClosedStays DEF Answered
<1>2. Attach => told' = answer.gwc
  BY DEF Attach
<1>3. BWrites \/ CWrites \/ Change \/ Write \/ RevupsFail \/ SnapshotFails \/ Restart => told' = told
  BY DEF BWrites, CWrites, Change, Write, RevupsFail, SnapshotFails, Restart
<1>4. Decide \/ Reply \/ Fail \/ Retry \/ Connect \/ Clear \/ Insert \/ Connected => told' = told
  BY DEF Decide, Reply, Fail, Retry, Connect, Clear, Insert, Connected
<1>5. SentAll \/ Revup \/ RevupsEnd \/ Take \/ Accept \/ Buffer \/ Disordered \/ BackingUp => told' = told
  BY DEF SentAll, Revup, RevupsEnd, Take, Accept, Buffer, Disordered, BackingUp, Reconnect
<1>6. (\E p \in {"b", "c"} : Arrive(p)) \/ (\E p \in {"me", "c"} : BReceives(p)) => told' = told
  BY DEF Arrive, BReceives
<1> QED
  BY <1>1, <1>2, <1>3, <1>4, <1>5, <1>6 DEF Next, Environment, Process

\* An answer is in causal order, and its updates bring what was missing.
LEMMA AnsweredStep ==
  ASSUME Whole, Answered, [Next]_vars
  PROVE  Answered'
<1> DEFINE B == attempt \in {"answered", "connected"} /\ answer.kind = "revup" =>
                  Brings(answer.updates, answer.gwc, time, log)
<1>0. /\ Typed /\ answer \in Answer /\ answer.gwc \in Clock /\ time \in Clock /\ BHas \in Clock
      /\ Written \in Clock /\ AtMost(answer.gwc, Written) /\ AtMost(BHas, Written)
      /\ answer.updates \in Seq(Op) /\ serving.forward \in Seq(Op)
  <2>1. /\ Typed /\ answer \in Answer /\ answer.gwc \in Clock /\ BHas \in Clock /\ time \in Clock
        /\ Written \in Clock /\ AtMost(answer.gwc, BHas) /\ AtMost(BHas, Written)
    BY ClockTypes DEF Whole, Times, Collaborator
  <2> QED
    BY <2>1, AtMostTransitive DEF Typed, Answer
<1>1. CASE UNCHANGED vars
  BY <1>1 DEF vars, collaborator, network, database, receiving, deciding, Answered, Ordered, Written
<1>2. CASE Next
  <2>1. Ordered' /\ AtMost(told', Written') /\ Closed(told', log')
    BY <1>2, OrderedStep, ToldStep DEF Answered
  <2>2. Closed(BHas, log) /\ Closed(answer.gwc, log)
    BY JournalClosed DEF Answered
  <2>3. Closed(BHas, log') /\ Closed(answer.gwc, log') /\ Closed(Zero, log')
    BY <1>0, <1>2, <2>2, ClosedStays, ZeroIsClosed
  <2>4. Closed(answer'.gwc, log')
    BY <1>2, <2>3, AnswerFrom, ZeroIsClosed
  <2>5. Restart => attempt' = "idle"
    BY DEF Restart
  <2>6. ASSUME B, ~ Restart, attempt \in {"answered", "connected"}, answer.kind = "revup"
        PROVE  Brings(answer.updates, answer.gwc, time', log')
    <3>1. time' \in Clock /\ Covered(time) \subseteq Covered(time')
      BY <1>2, <2>6, TimeGrows
    <3>2. Covered(answer.gwc) \subseteq Covered(Written)
      BY <1>0, CoveredOrder
    <3>3. \A op \in Covered(answer.gwc) : Prior(log', op) = Prior(log, op)
      BY <1>2, <3>2, BeforeStays
    <3> QED
      BY <1>0, <2>6, <3>1, <3>3, BringsLater
  <2>7. B'
    <3>1. CASE answer' = answer /\ (attempt' = attempt \/ attempt' \notin {"answered", "connected"})
      BY <2>5, <2>6, <3>1 DEF Answered
    <3>2. CASE answer' = NoAnswer
      BY <3>2 DEF NoAnswer
    <3>3. CASE Reply
      <4>1. /\ time' = time /\ log' = log /\ answer'.gwc = BHas
            /\ answer'.kind = "revup" => answer'.updates = Since(bJournal, time)
        BY <3>3 DEF Reply
      <4>2. Brings(Since(bJournal, time), BHas, time, log)
        BY ReplyBrings DEF Answered
      <4> QED
        BY <4>1, <4>2
    <3>4. CASE /\ attempt = "answered" /\ answer'.gwc = answer.gwc /\ answer'.kind = answer.kind
               /\ answer.kind = "revup" => answer' = answer
      BY <2>5, <2>6, <3>4 DEF Answered
    <3>5. CASE /\ attempt' = attempt /\ answer'.gwc = answer.gwc /\ answer'.kind = answer.kind
               /\ answer'.updates = answer.updates \o serving.forward
      <4> SUFFICES ASSUME attempt' \in {"answered", "connected"}, answer'.kind = "revup"
                   PROVE  Brings(answer.updates \o serving.forward, answer.gwc, time', log')
        BY <3>5
      <4>1. Brings(answer.updates, answer.gwc, time', log') /\ time' \in Clock
        BY <1>2, <2>5, <2>6, <3>5, TimeGrows DEF Answered
      <4> QED
        BY <1>0, <2>3, <4>1, BringsMore
    <3> QED
      BY <1>2, <3>1, <3>2, <3>3, <3>4, <3>5, AnswerFrom
  <2> QED
    BY <2>1, <2>4, <2>7 DEF Answered
<1> QED
  BY <1>1, <1>2

\* At first there is no answer, and nothing was told.
LEMMA AnsweredInit == Init => Answered
<1> SUFFICES ASSUME Init PROVE Answered
  OBVIOUS
<1>1. /\ bJournal[1] = [p |-> "b", n |-> 1] /\ DOMAIN bJournal = {1} /\ log["b"] = <<Zero>>
      /\ Written \in Clock
  BY FirstOperation
<1>2. Prior(log, bJournal[1]) = {}
  BY <1>1, ZeroIsClosed DEF Prior
<1>3. Ordered
  BY <1>1, <1>2 DEF Ordered
<1>4. told = Zero /\ answer = NoAnswer /\ attempt = "idle"
  BY DEF Init
<1>5. AtMost(Zero, Written) /\ Closed(Zero, log) /\ NoAnswer.gwc = Zero
  BY <1>1, AtMostItself, ZeroIsClosed
<1> QED
  BY <1>3, <1>4, <1>5 DEF Answered

\* What b has when it answers, and what the clone has, is all that there is.
LEMMA AllAnswered ==
  ASSUME Whole, Reply, Adverse \subseteq {"late-delivery"}
  PROVE  Covered(Written) \subseteq Covered(BHas) \cup Covered(time)
<1> SUFFICES ASSUME NEW op \in Covered(Written) PROVE op \in Covered(BHas) \cup Covered(time)
  OBVIOUS
<1>0. Times /\ Collaborator /\ Written \in Clock /\ BHas \in Clock /\ time \in Clock
  BY ClockTypes DEF Whole
<1>1. op \in Op /\ op.n <= Written[op.p] /\ op.p \in {"me", "b", "c"}
  BY <1>0, CoveredMembers, WritersAre DEF Op
<1>2. Len(toB["c"]) = 0
  BY DEF Reply
<1>3. Written["b"] = BHas["b"] /\ Written["c"] = BHas["c"] /\ Written["me"] = time["me"]
  BY <1>0, <1>2, ClockTypes, WritersAre DEF Collaborator, Times
<1> QED
  BY <1>0, <1>1, <1>3, CoveredMembers

\* With what comes by itself, an answer brings all that there is.
LEMMA AnswerStep ==
  ASSUME Whole, AnswerComplete, Next, Adverse \subseteq {"late-delivery"}
  PROVE  AnswerComplete'
<1> USE DEF collaborator, network, database, receiving, deciding
<1> DEFINE Early == attempt \in {"answered", "connected"}
           Premise == remote /\ opps = 1 /\ Early
<1>0. Typed /\ Control /\ answer \in Answer /\ answer.gwc \in Clock /\ time \in Clock /\ BHas \in Clock
      /\ toMe["b"] \in Seq(Op) /\ toMe["c"] \in Seq(Op)
  BY ClockTypes DEF Whole, Typed
<1>1. ASSUME attempt' \notin {"answered", "connected"} \/ opps' # 1 PROVE AnswerComplete'
  BY <1>1 DEF AnswerComplete
<1>2. ASSUME ~ Restart, answer'.gwc = answer.gwc, remote' = remote, opps' = opps,
             attempt' \in {"answered", "connected"} => Early,
             Early => Coming \subseteq Coming' \cup Covered(answer.gwc)
      PROVE  AnswerComplete'
  <2> SUFFICES ASSUME Premise, attempt' \in {"answered", "connected"}
               PROVE  Covered(Written') \subseteq Covered(answer.gwc) \cup Covered(time') \cup Coming'
    BY <1>2 DEF AnswerComplete
  <2>1. Covered(time) \subseteq Covered(time')
    BY <1>2, TimeGrows
  <2>2. Covered(Written) \subseteq Covered(answer.gwc) \cup Covered(time) \cup Coming
    BY DEF AnswerComplete
  <2>3. Covered(Written') \subseteq Covered(Written) \cup Coming' \cup Covered(time')
    BY NewsComes
  <2> QED
    BY <1>2, <2>1, <2>2, <2>3
<1>3. ASSUME UNCHANGED <<attempt, answer, remote, opps>>, Coming \subseteq Coming'
      PROVE  AnswerComplete'
  <2>1. CASE Restart
    BY <1>1, <2>1 DEF Restart
  <2> QED
    BY <1>2, <1>3, <2>1
<1>4. ASSUME UNCHANGED <<attempt, answer, remote, opps, toMe>> PROVE AnswerComplete'
  BY <1>3, <1>4 DEF Coming
<1>5. CASE BWrites \/ CWrites
  <2>1. UNCHANGED <<attempt, answer, remote, opps>>
    BY <1>5 DEF BWrites, CWrites
  <2> QED
    BY <1>3, <1>5, <2>1, ComingStays
<1>6. CASE Write \/ RevupsFail \/ Revup \/ RevupsEnd
  BY <1>4, <1>6 DEF Write, RevupsFail, Revup, RevupsEnd
<1>7. CASE Take \/ Buffer \/ Accept \/ \E p \in {"me", "c"} : BReceives(p)
  BY <1>4, <1>7 DEF Take, Buffer, Accept, BReceives
<1>8. CASE Change \/ Retry \/ Disordered \/ BackingUp
  <2>1. attempt' = attempt /\ opps' = opps + 1
    BY <1>8 DEF Change, Retry, Disordered, BackingUp, Reconnect, Opportunity
  <2>2. opps' # 1 \/ attempt' = "idle"
    BY <1>0, <2>1 DEF Typed, Control
  <2> QED
    BY <1>1, <2>2
<1>9. CASE SnapshotFails \/ Fail \/ Connected
  BY <1>1, <1>9 DEF SnapshotFails, Fail, Connected, Over
<1>10. CASE Restart
  BY <1>1, <1>10 DEF Restart
<1>11. CASE Decide
  BY <1>1, <1>11 DEF Decide
<1>12. CASE Attach \/ Clear \/ Insert
  BY <1>1, <1>12 DEF Attach, Clear, Insert
<1>13. CASE Reply
  <2>1. answer'.gwc = BHas /\ time' = time /\ log' = log
    BY <1>13 DEF Reply
  <2>2. Covered(Written) \subseteq Covered(BHas) \cup Covered(time) /\ Written' = Written
    BY <1>13, <2>1, AllAnswered DEF Written
  <2> QED
    BY <2>1, <2>2 DEF AnswerComplete
<1>14. CASE Connect
  <2>1. /\ attempt = "answered" /\ answer'.gwc = answer.gwc
        /\ UNCHANGED <<remote, opps, toMe>> /\ attempt' = "connected"
    BY <1>0, <1>14 DEF Connect, Answer
  <2> QED
    BY <1>2, <2>1 DEF Restart, Coming
<1>15. CASE SentAll
  <2>1. answer' = answer \/ answer' = [answer EXCEPT !.updates = answer.updates \o serving.forward]
    BY <1>15 DEF SentAll
  <2>2. /\ answer'.gwc = answer.gwc
        /\ UNCHANGED <<remote, opps, toMe, attempt>>
    BY <1>0, <1>15, <2>1 DEF SentAll, Answer
  <2>3. CASE Restart
    BY <1>1, <2>3 DEF Restart
  <2> QED
    BY <1>2, <2>2, <2>3 DEF Coming
<1>16. ASSUME NEW p \in {"b", "c"}, Arrive(p) PROVE AnswerComplete'
  <2>1. /\ UNCHANGED <<attempt, answer, remote, opps>> /\ toMe[p] # <<>>
        /\ attempt \in {"answered", "connected"} => Head(toMe[p]).n <= answer.gwc[p]
    BY <1>16 DEF Arrive
  <2>2. Early => Head(toMe[p]) \in Covered(answer.gwc)
    BY <1>0, <1>16, <2>1, OneArrives, CoveredMembers
  <2>3. Coming \subseteq Coming' \cup {Head(toMe[p])}
    BY <1>16, OneArrives
  <2>4. CASE Restart
    BY <1>1, <2>4 DEF Restart
  <2> QED
    BY <1>2, <2>1, <2>2, <2>3, <2>4
<1> QED
  BY <1>5, <1>6, <1>7, <1>8, <1>9, <1>10, <1>11, <1>12, <1>13, <1>14, <1>15, <1>16
     DEF Next, Environment, Process

\* A clone that is attached is being sent all that it does not have.
LEMMA SettledStep ==
  ASSUME Whole, Answered, Complete, Next, Adverse \subseteq {"late-delivery"}
  PROVE  SettledComplete'
<1> USE DEF collaborator, network, database, receiving, deciding
<1>0. Typed /\ Control /\ Times /\ Known /\ answer \in Answer /\ answer.gwc \in Clock /\ time \in Clock
  BY ClockTypes DEF Whole
<1>1. ASSUME ~ Settled' PROVE SettledComplete'
  BY <1>1 DEF SettledComplete
<1>2. ASSUME ~ Restart, Settled' => Settled, source' = source \/ source' = "live",
             Settled /\ source # "never" => Underway \subseteq Underway' \cup Covered(time')
      PROVE  SettledComplete'
  <2> SUFFICES ASSUME Settled
               PROVE  source' # "never" /\ Covered(Written') \subseteq Covered(time') \cup Underway'
    BY <1>2 DEF SettledComplete
  <2>1. source # "never" /\ Covered(Written) \subseteq Covered(time) \cup Underway
    BY DEF Complete, SettledComplete
  <2>2. Covered(Written') \subseteq Covered(Written) \cup Coming' \cup Covered(time')
    BY NewsComes DEF Settled
  <2>3. Covered(time) \subseteq Covered(time')
    BY <1>2, TimeGrows
  <2>4. Coming' \subseteq Underway'
    BY DEF Underway
  <2> QED
    BY <1>2, <2>1, <2>2, <2>3, <2>4
<1>3. ASSUME attempt' \in {"idle", "asking", "answered", "connected"}, opps' # 0 \/ ~ remote' \/ retries' # 0
      PROVE  SettledComplete'
  BY <1>1, <1>3 DEF Settled
<1>4. ASSUME UNCHANGED <<remote, retries, opps, attempt>> PROVE (Settled' => Settled) /\ (Restart => SettledComplete')
  <2>1. ASSUME Restart PROVE SettledComplete'
    BY <1>3, <2>1 DEF Restart
  <2> QED
    BY <1>4, <2>1 DEF Settled
<1>5. CASE BWrites \/ CWrites
  <2>1. UNCHANGED <<remote, retries, opps, attempt, source, held, revups, buffer, queue, taking>>
    BY <1>5 DEF BWrites, CWrites
  <2>2. Underway \subseteq Underway'
    BY <1>5, <2>1, ComingStays DEF Underway, Pending
  <2> QED
    BY <1>2, <1>4, <2>1, <2>2
<1>6. CASE Write \/ \E p \in {"me", "c"} : BReceives(p)
  <2>1. UNCHANGED <<remote, retries, opps, attempt, source, held, revups, buffer, queue, taking, toMe>>
    BY <1>6 DEF Write, BReceives
  <2>2. Underway' = Underway
    BY <2>1 DEF Underway, Coming, Pending
  <2> QED
    BY <1>2, <1>4, <2>1, <2>2
<1>7. CASE Change \/ Retry \/ Disordered \/ BackingUp
  <2>1. attempt' = attempt /\ opps' = opps + 1
    BY <1>7 DEF Change, Retry, Disordered, BackingUp, Reconnect, Opportunity
  <2>2. opps' # 0 /\ (opps' # 1 \/ attempt' = "idle")
    BY <1>0, <2>1 DEF Typed, Control
  <2> QED
    BY <1>1, <2>2 DEF Settled
<1>8. CASE RevupsFail \/ SnapshotFails \/ Fail
  <2>1. retries' # 0
    BY <1>0, <1>8 DEF RevupsFail, SnapshotFails, Fail, Typed
  <2> QED
    BY <1>1, <2>1 DEF Settled
<1>9. CASE Restart
  BY <1>3, <1>9 DEF Restart
<1>10. CASE Decide
  <2>1. (attempt' = "asking" /\ opps' # 0) \/ ~ remote'
    BY <1>0, <1>10 DEF Decide, Typed
  <2> QED
    BY <1>1, <2>1 DEF Settled
<1>11. CASE Reply \/ Connect
  <2>1. attempt' \in {"answered", "connected"} /\ opps' = opps /\ opps # 0
    <3>1. CASE Reply
      BY <1>0, <3>1 DEF Reply, Control, Typed
    <3>2. CASE Connect
      BY <1>0, <3>2 DEF Connect, Control, Typed
    <3> QED
      BY <1>11, <3>1, <3>2
  <2> QED
    BY <1>3, <2>1
<1>12. CASE Attach
  <2> SUFFICES ASSUME Settled'
               PROVE  source' # "never" /\ Covered(Written') \subseteq Covered(time') \cup Underway'
    BY DEF SettledComplete
  <2>1. /\ attempt = "connected" /\ source' = "revups" /\ revups' = answer.updates
        /\ UNCHANGED <<remote, retries, opps, time, log, toMe>>
    BY <1>12 DEF Attach
  <2>2. opps = 1 /\ remote
    BY <1>0, <2>1 DEF Settled, Control, Typed
  <2>3. Covered(Written) \subseteq Covered(answer.gwc) \cup Covered(time) \cup Coming
    BY <2>1, <2>2 DEF Complete, AnswerComplete
  <2>4. Covered(answer.gwc) \subseteq Covered(time) \cup ToSet(answer.updates)
    <3>1. CASE answer.kind = "revup"
      BY <2>1, <3>1 DEF Answered, Brings
    <3>2. CASE answer.kind = "snapshot"
      BY <1>0, <2>1, <3>2 DEF Times, Joined
    <3> QED
      BY <1>0, <2>1, <3>1, <3>2 DEF Control, Answer
  <2>5. Coming \cup ToSet(answer.updates) \subseteq Underway' /\ Written' = Written
    BY <2>1 DEF Underway, Coming, Written
  <2> QED
    BY <2>1, <2>3, <2>4, <2>5
<1>13. CASE Clear \/ Insert
  <2>1. /\ UNCHANGED <<remote, retries, opps, source, held, revups, buffer, queue, taking, toMe>>
        /\ attempt \in {"attached", "cleared"} /\ attempt' \in {"cleared", "inserted"}
    BY <1>13 DEF Clear, Insert
  <2>2. Underway' = Underway /\ ~ Restart /\ (Settled' => Settled)
    BY <2>1 DEF Underway, Coming, Pending, Restart, Settled
  <2> QED
    BY <1>2, <2>1, <2>2
<1>14. CASE Connected
  <2>1. /\ UNCHANGED <<remote, retries, source, held, revups, buffer, queue, taking, toMe, time>>
        /\ attempt \in {"attached", "inserted"} /\ attempt' = "idle" /\ opps' = opps - 1
    BY <1>14 DEF Connected, Over
  <2>2. Settled' => Settled
    BY <1>0, <2>1 DEF Settled, Typed
  <2>3. Underway' = Underway
    BY <2>1 DEF Underway, Coming, Pending
  <2>4. CASE Restart
    BY <1>9, <2>4
  <2> QED
    BY <1>2, <2>1, <2>2, <2>3, <2>4
<1>15. CASE SentAll
  <2>1. /\ UNCHANGED <<remote, retries, opps, attempt, source, held, buffer, queue, taking, toMe>>
        /\ revups' = revups \/ revups' = revups \o serving.forward
    BY <1>15 DEF SentAll
  <2>2. ToSet(revups) \subseteq ToSet(revups')
    <3>1. revups \in Seq(Op) /\ serving.forward \in Seq(Op)
      BY <1>0 DEF Typed
    <3>2. ToSet(revups \o serving.forward) = ToSet(revups) \cup ToSet(serving.forward)
      BY <3>1, ElementsJoined
    <3> QED
      BY <2>1, <3>2
  <2>3. Underway \subseteq Underway'
    BY <2>1, <2>2 DEF Underway, Coming, Pending
  <2> QED
    BY <1>2, <1>4, <2>1, <2>3
<1>16. CASE Revup
  <2> DEFINE m == Message(Head(revups), "last")
             q == Remark(queue, "last", "none")
  <2>1. Head(revups) \in Op /\ ToSet(revups) = ToSet(Tail(revups)) \cup {Head(revups)}
    BY <1>0, <1>16, ElementsTaken DEF Revup, Typed
  <2>2. m \in Msg /\ m.op = Head(revups)
    BY <2>1 DEF Message, Msg, Marks
  <2>3. /\ OpsOf(Remark(taking, "last", "none")) = OpsOf(taking)
        /\ OpsOf(Remark(buffer, "last", "none")) = OpsOf(buffer)
        /\ OpsOf(q) = OpsOf(queue) /\ q \in Seq(Msg)
    BY <1>0, RemarkKeeps DEF Typed, Marks
  <2>4. /\ queue' = Append(q, m) /\ taking' = Remark(taking, "last", "none")
        /\ buffer' = Remark(buffer, "last", "none") /\ revups' = Tail(revups)
        /\ UNCHANGED <<remote, retries, opps, attempt, source, held, toMe>>
    BY <1>16 DEF Revup
  <2> HIDE DEF m, q
  <2>5. OpsOf(queue') = OpsOf(queue) \cup {Head(revups)}
    BY <2>2, <2>3, <2>4, OpsOfAppended
  <2>6. ToSet(revups) \cup Pending \subseteq ToSet(revups') \cup Pending'
    BY <2>1, <2>3, <2>4, <2>5 DEF Pending
  <2>7. Underway \subseteq Underway'
    BY <2>4, <2>6 DEF Underway, Coming
  <2> QED
    BY <1>2, <1>4, <2>4, <2>7
<1>17. CASE RevupsEnd
  <2>1. /\ OpsOf(Remark(taking, "last", "due")) = OpsOf(taking)
        /\ OpsOf(Remark(buffer, "last", "due")) = OpsOf(buffer)
        /\ OpsOf(Remark(queue, "last", "due")) = OpsOf(queue)
        /\ Remark(queue, "last", "due") \in Seq(Msg)
        /\ Live(held) \in Seq(Msg) /\ OpsOf(Live(held)) = ToSet(held)
    BY <1>0, RemarkKeeps, LiveMessages DEF Typed, Marks
  <2>2. /\ OpsOf(queue') = OpsOf(queue) \cup ToSet(held) /\ OpsOf(taking') = OpsOf(taking)
        /\ OpsOf(buffer') = OpsOf(buffer) /\ source' = "live"
        /\ UNCHANGED <<remote, retries, opps, attempt, revups, toMe>>
    BY <1>17, <2>1, OpsOfJoined DEF RevupsEnd
  <2>3. Underway \subseteq Underway'
    BY <2>2 DEF Underway, Coming, Pending
  <2> QED
    BY <1>2, <1>4, <2>2, <2>3
<1>18. ASSUME NEW p \in {"b", "c"}, Arrive(p) PROVE SettledComplete'
  <2> DEFINE op == Head(toMe[p])
             m == Message(op, "none")
  <2>1. op \in Op /\ Coming \subseteq Coming' \cup {op}
    BY <1>18, OneArrives
  <2>2. m \in Msg /\ m.op = op
    BY <2>1 DEF Message, Msg, Marks
  <2>3. /\ queue' = IF source = "live" THEN Append(queue, m) ELSE queue
        /\ held' = IF source = "revups" THEN Append(held, op) ELSE held
        /\ UNCHANGED <<remote, retries, opps, attempt, source, revups, buffer, taking>>
    BY <1>18 DEF Arrive
  <2> HIDE DEF op, m
  <2>4. OpsOf(Append(queue, m)) = OpsOf(queue) \cup {op} /\ ToSet(Append(held, op)) = ToSet(held) \cup {op}
    BY <1>0, <2>1, <2>2, OpsOfAppended, ElementsAppended DEF Typed
  <2>5. source # "never" => OpsOf(queue) \cup ToSet(held) \cup {op} \subseteq OpsOf(queue') \cup ToSet(held')
    BY <1>0, <2>3, <2>4 DEF Typed
  <2>6. source # "never" => Underway \subseteq Underway'
    BY <2>1, <2>3, <2>5 DEF Underway, Pending
  <2> QED
    BY <1>2, <1>4, <2>3, <2>6
<1>19. CASE Take
  <2>1. /\ OpsOf(queue) = OpsOf(Tail(queue)) \cup {Head(queue).op}
        /\ OpsOf(<<Head(queue)>>) = {Head(queue).op} /\ OpsOf(taking) = {}
    BY <1>0, <1>19, OpsOfTaken, NoOps DEF Take, Typed
  <2>2. /\ taking' = <<Head(queue)>> /\ queue' = Tail(queue)
        /\ UNCHANGED <<remote, retries, opps, attempt, source, revups, held, buffer, toMe>>
    BY <1>19 DEF Take
  <2>3. Underway \subseteq Underway'
    BY <2>1, <2>2 DEF Underway, Coming, Pending
  <2> QED
    BY <1>2, <1>4, <2>2, <2>3
<1>20. CASE Buffer
  <2>1. taking[1] \in Msg /\ OpsOf(taking) = {taking[1].op}
    <3>1. taking \in Seq(Msg) /\ Len(taking) <= 1 /\ taking # <<>>
      BY <1>0, <1>20 DEF Typed, Control, Buffer
    <3>2. DOMAIN taking = 1 .. Len(taking) /\ Len(taking) \in Nat /\ Len(taking) # 0
          /\ \A i \in DOMAIN taking : taking[i] \in Msg
      BY <3>1, Elements
    <3>3. Len(taking) = 1
      BY <3>1, <3>2
    <3>4. DOMAIN taking = {1} /\ taking[1] \in Msg
      BY <3>2, <3>3
    <3> QED
      BY <3>4, OpsByPlace
  <2>2. OpsOf(buffer') = OpsOf(buffer) \cup {taking[1].op}
    BY <1>0, <1>20, <2>1, OpsOfAppended DEF Buffer, Typed
  <2>3. UNCHANGED <<remote, retries, opps, attempt, source, revups, held, queue, toMe>>
    BY <1>20 DEF Buffer
  <2>4. Underway \subseteq Underway'
    BY <2>1, <2>2, <2>3 DEF Underway, Coming, Pending
  <2> QED
    BY <1>2, <1>4, <2>3, <2>4
<1>21. CASE Accept
  <2>1. /\ OpsOf(buffer) \cup OpsOf(taking) \subseteq OpsOf(buffer') \cup Covered(time')
        /\ UNCHANGED <<remote, retries, opps, attempt, source, revups, held, queue, toMe>>
    BY <1>21, AcceptFacts
  <2>2. Underway \subseteq Underway' \cup Covered(time')
    BY <2>1 DEF Underway, Coming, Pending
  <2> QED
    BY <1>2, <1>4, <2>1, <2>2
<1> QED
  BY <1>5, <1>6, <1>7, <1>8, <1>9, <1>10, <1>11, <1>12, <1>13, <1>14, <1>15, <1>16, <1>17, <1>18,
     <1>19, <1>20, <1>21 DEF Next, Environment, Process

\* Every step keeps it that all that there is is had, or is coming.
LEMMA CompleteStep ==
  ASSUME Whole, Answered, Complete, [Next]_vars, Adverse \subseteq {"late-delivery"}
  PROVE  Complete'
<1>1. CASE Next
  BY <1>1, AnswerStep, SettledStep DEF Complete
<1>2. CASE UNCHANGED vars
  BY <1>2 DEF vars, collaborator, network, database, receiving, deciding, Complete, AnswerComplete,
              SettledComplete, Settled, Written, Coming, Underway, Pending
<1> QED
  BY <1>1, <1>2

\* At first no attempt has been made.
LEMMA CompleteInit == Init => Complete
<1> SUFFICES ASSUME Init PROVE Complete
  OBVIOUS
<1>1. attempt = "idle" /\ ~ remote
  BY DEF Init
<1> QED
  BY <1>1 DEF Complete, AnswerComplete, SettledComplete, Settled

\* When all is quiet, nothing is underway, and the last own operation is not either.
LEMMA QuietIsComplete ==
  ASSUME Whole, Streams, Complete, Quiet
  PROVE  \A p \in Writer : time[p] = Len(log[p]) /\ BHas[p] = Len(log[p])
<1>0. Typed /\ Control /\ Times /\ Collaborator /\ time \in Clock /\ BHas \in Clock /\ Written \in Clock
      /\ \A p \in Writer : /\ time[p] \in Nat /\ BHas[p] \in Nat
                           /\ Written[p] = Len(log[p]) /\ Len(log[p]) \in Nat
  BY ClockTypes DEF Whole
<1>1. queue = <<>> /\ taking = <<>> /\ buffer = <<>>
  <2>1. queue \in Seq(Msg) /\ taking \in Seq(Msg) /\ buffer \in Seq(Msg) /\ queue \o taking \o buffer = <<>>
    BY <1>0 DEF Typed, Quiet
  <2>2. Len(queue) = 0 /\ Len(taking) = 0 /\ Len(buffer) = 0
    BY <2>1
  <2> QED
    BY <2>1, <2>2, EmptySeq
<1>2. Underway = {}
  <2>1. Pending = {}
    BY <1>1, NoOps DEF Pending
  <2>2. revups = <<>> /\ held = <<>> /\ toMe["b"] = <<>> /\ toMe["c"] = <<>>
    BY <1>0 DEF Quiet, Control
  <2> QED
    BY <2>1, <2>2, NoElements DEF Underway, Coming
<1>3. Covered(Written) \subseteq Covered(time)
  BY <1>2 DEF Complete, SettledComplete, Settled, Quiet
<1>4. time = Written
  <2>1. AtMost(Written, time) /\ AtMost(time, Written)
    BY <1>0, <1>3, CoveredOrder DEF Times
  <2>2. \A p \in Writer : time[p] = Written[p]
    BY <1>0, <2>1 DEF AtMost
  <2> QED
    BY <1>0, <2>2 DEF Clock
<1>5. toB["me"] = <<>> /\ toB["c"] = <<>> /\ out = <<>> /\ LastSent
  BY <1>0 DEF Quiet, Streams, ToBeSent
<1>6. BHas["me"] = Written["me"]
  <2>1. ToSet(toB["me"] \o out) = {}
    BY <1>5, NoElements
  <2>2. Len(log["me"]) <= BHas["me"]
    BY <1>5, <2>1 DEF LastSent
  <2>3. BHas["me"] <= Written["me"] /\ "me" \in Writer
    BY <1>0, WritersAre DEF Collaborator, AtMost
  <2> QED
    BY <1>0, <2>2, <2>3
<1>7. BHas["b"] = Written["b"] /\ BHas["c"] = Written["c"]
  <2>1. Len(toB["c"]) = 0
    BY <1>5
  <2> QED
    BY <1>0, <2>1, WritersAre DEF Collaborator
<1> QED
  BY <1>0, <1>4, <1>6, <1>7, WritersAre

\* Unless something is published between an answer and the attachment to its updates, or
\* the collaborator answers before it has what the clone has had (or one of the other
\* circumstances comes about that are not admitted here): when all is quiet, a clone
\* that is not outdated has every operation that there is, and so has its collaborator.
\* Nothing else falls between the attempts, the periods and the pauses
\* (DatasetEngine.decideLive, RemoteOperations).
THEOREM UpToDateOtherwise ==
  ASSUME Adverse \subseteq {"late-delivery"}
  PROVE  Spec => []UpToDate
<1>1. Init => Whole /\ Streams /\ Answered /\ Complete
  BY WholeInit, StreamsInit, AnsweredInit, CompleteInit
<1>2. Whole /\ Streams /\ Answered /\ Complete /\ [Next]_vars => (Whole /\ Streams /\ Answered /\ Complete)'
  <2> SUFFICES ASSUME Whole, Streams, Answered, Complete, [Next]_vars
               PROVE  (Whole /\ Streams /\ Answered /\ Complete)'
    OBVIOUS
  <2>1. Whole' /\ Complete' /\ Answered'
    BY WholeStep, CompleteStep, AnsweredStep
  <2>2. Streams'
    BY StreamsStep, StreamsUnchanged
  <2> QED
    BY <2>1, <2>2
<1>3. Whole /\ Streams /\ Complete => UpToDate
  BY QuietIsComplete DEF UpToDate
<1> QED
  BY <1>1, <1>2, <1>3, PTL DEF Spec
-----------------------------------------------------------------------------
(* Marks *)

\* Messages without a mark, one by one
LEMMA NoMarkOf ==
  ASSUME NEW s \in Seq(Msg), NEW mark
  PROVE  /\ NoMark(s, mark) <=> \A m \in ToSet(s) : m.mark # mark
         /\ NoMark(<<>>, mark)
         /\ \A m \in Msg : NoMark(Append(s, m), mark) <=> NoMark(s, mark) /\ m.mark # mark
         /\ \A m \in Msg : NoMark(<<m>>, mark) <=> m.mark # mark
         /\ s # <<>> => s[1] \in Msg /\ (NoMark(s, mark) => s[1].mark # mark)
         /\ s # <<>> /\ Len(s) <= 1 => (NoMark(s, mark) <=> s[1].mark # mark)
<1>1. ASSUME NEW r \in Seq(Msg) PROVE NoMark(r, mark) <=> \A m \in ToSet(r) : m.mark # mark
  BY Elements DEF NoMark
<1>2. ASSUME NEW m \in Msg PROVE NoMark(Append(s, m), mark) <=> NoMark(s, mark) /\ m.mark # mark
  <2>1. Append(s, m) \in Seq(Msg) /\ ToSet(Append(s, m)) = ToSet(s) \cup {m}
    BY ElementsAppended
  <2>2. NoMark(Append(s, m), mark) <=> \A x \in ToSet(Append(s, m)) : x.mark # mark
    BY <1>1, <2>1
  <2> QED
    BY <1>1, <2>1, <2>2
<1>3. ASSUME NEW m \in Msg PROVE NoMark(<<m>>, mark) <=> m.mark # mark
  BY DEF NoMark
<1>4. DOMAIN s = 1 .. Len(s) /\ Len(s) \in Nat /\ (s = <<>> <=> Len(s) = 0) /\ \A i \in DOMAIN s : s[i] \in Msg
  BY Elements
<1>5. s # <<>> => 1 \in DOMAIN s
  BY <1>4
<1>6. s # <<>> /\ Len(s) <= 1 => DOMAIN s = {1}
  BY <1>4
<1>7. NoMark(<<>>, mark)
  BY DEF NoMark
<1> QED
  BY <1>1, <1>2, <1>3, <1>4, <1>5, <1>6, <1>7 DEF NoMark

\* Messages whose mark of the last is changed no longer have it.
LEMMA NoMarkRemarked ==
  ASSUME NEW s \in Seq(Msg), NEW to \in Marks, to # "last"
  PROVE  /\ NoMark(Remark(s, "last", to), "last")
         /\ to = "none" /\ NoMark(s, "due") => NoMark(Remark(s, "last", to), "due")
         /\ NoMark(s, "due") /\ NoMark(s, "last") => NoMark(Remark(s, "last", to), "due")
<1>1. /\ DOMAIN Remark(s, "last", to) = DOMAIN s
      /\ \A i \in DOMAIN s : Remark(s, "last", to)[i].mark = IF s[i].mark = "last" THEN to ELSE s[i].mark
  BY RemarkKeeps
<1> QED
  BY <1>1 DEF NoMark

\* The marks are those of one recovery.
LEMMA MarkedStep ==
  ASSUME Whole, Marked, Next, Adverse = {}
  PROVE  Marked'
<1> USE DEF collaborator, network, database, receiving, deciding
<1> DEFINE Early == attempt \in {"asking", "answered", "connected"}
           NoneDue == NoMark(buffer, "due") /\ NoMark(queue, "due") /\ NoMark(taking, "due")
           OneLast == /\ \A i \in DOMAIN queue : queue[i].mark = "last" <=> i = Len(queue)
                      /\ queue # <<>> => NoMark(taking, "last") /\ NoMark(buffer, "last")
                      /\ taking # <<>> /\ taking[1].mark = "last" => NoMark(buffer, "last")
<1>0. /\ Typed /\ Control /\ buffer \in Seq(Msg) /\ queue \in Seq(Msg) /\ taking \in Seq(Msg) /\ Len(taking) <= 1
      /\ revups \in Seq(Op) /\ (Early \/ source = "revups" => NoneDue) /\ (source = "revups" => OneLast)
  BY DEF Whole, Typed, Control, Marked
<1>1. ASSUME UNCHANGED <<buffer, queue, taking, source>>, Early' => Early PROVE Marked'
  BY <1>0, <1>1 DEF Marked, NoMark
<1>2. ASSUME source' # "revups", Early' => Early,
             queue' = <<>>, buffer' = buffer \/ buffer' = <<>>, taking' = taking \/ taking' = <<>>
      PROVE  Marked'
  <2>1. NoMark(<<>>, "due")
    BY DEF NoMark
  <2>2. Early => NoneDue'
    <3>1. Early => NoMark(buffer', "due") /\ NoMark(queue', "due") /\ NoMark(taking', "due")
      BY <1>0, <1>2, <2>1
    <3> QED
      BY <3>1
  <2> QED
    BY <1>2, <2>2 DEF Marked
<1>3. CASE BWrites \/ CWrites \/ Change \/ Write
  BY <1>1, <1>3 DEF BWrites, CWrites, Change, Write
<1>4. CASE Reply \/ Connect \/ Retry
  <2>1. UNCHANGED <<buffer, queue, taking, source>>
    BY <1>4 DEF Reply, Connect, Retry
  <2>2. Early' => Early
    BY <1>4 DEF Reply, Connect, Retry
  <2> QED
    BY <1>1, <2>1, <2>2
<1>5. CASE Fail \/ Connected
  <2>1. UNCHANGED <<buffer, queue, taking, source>> /\ attempt' = "idle"
    BY <1>5 DEF Fail, Connected, Over
  <2> QED
    BY <1>1, <2>1
<1>6. CASE Clear \/ Insert \/ SentAll \/ \E p \in {"me", "c"} : BReceives(p)
  <2>1. UNCHANGED <<buffer, queue, taking, source>>
    BY <1>6 DEF Clear, Insert, SentAll, BReceives
  <2>2. Early' => Early
    BY <1>6 DEF Clear, Insert, SentAll, BReceives
  <2> QED
    BY <1>1, <2>1, <2>2
<1>7. CASE RevupsFail \/ SnapshotFails \/ Restart
  <2>1. source' = "never" /\ queue' = <<>>
    BY <1>7 DEF RevupsFail, SnapshotFails, Restart, Detached
  <2>2. (buffer' = buffer \/ buffer' = <<>>) /\ (taking' = taking \/ taking' = <<>>)
    BY <1>7 DEF RevupsFail, SnapshotFails, Restart
  <2>3. attempt' = attempt \/ attempt' = "idle"
    BY <1>7 DEF RevupsFail, SnapshotFails, Restart, Over
  <2> QED
    BY <1>2, <2>1, <2>2, <2>3
<1>8. CASE Disordered \/ BackingUp
  <2>1. source' = "never" /\ queue' = <<>> /\ attempt' = attempt
    BY <1>8 DEF Disordered, BackingUp, Reconnect, Detached
  <2>2. buffer' = <<>> /\ (taking' = taking \/ taking' = <<>>)
    BY <1>8 DEF Disordered, BackingUp, Reconnect
  <2> QED
    BY <1>2, <2>1, <2>2
<1>9. CASE Decide
  <2>1. CASE remote
    <3>1. UNCHANGED <<buffer, queue, taking, source>> /\ ~ Undelivered
      BY <1>9, <2>1 DEF Decide
    <3>2. queue \o taking \in Seq(Msg) /\ (queue \o taking) \o buffer \in Seq(Msg)
          /\ ToSet((queue \o taking) \o buffer) = ToSet(queue) \cup ToSet(taking) \cup ToSet(buffer)
      <4> DEFINE u == queue \o taking
      <4>1. u \in Seq(Msg) /\ ToSet(u) = ToSet(queue) \cup ToSet(taking)
        BY <1>0, ElementsJoined
      <4> HIDE DEF u
      <4>2. u \o buffer \in Seq(Msg) /\ ToSet(u \o buffer) = ToSet(u) \cup ToSet(buffer)
        BY <1>0, <4>1, ElementsJoined
      <4> QED
        BY <4>1, <4>2 DEF u
    <3>3. NoneDue
      BY <1>0, <3>1, <3>2, NoMarkOf DEF Undelivered
    <3>4. NoneDue' /\ (source' = "revups" => OneLast')
      BY <1>0, <3>1, <3>3
    <3> QED
      BY <3>4 DEF Marked
  <2>2. CASE ~ remote
    <3>1. source' = "never" /\ queue' = <<>> /\ attempt' = attempt /\ UNCHANGED <<buffer, taking>>
      BY <1>9, <2>2 DEF Decide, Detached
    <3> QED
      BY <1>2, <3>1
  <2> QED
    BY <2>1, <2>2
<1>10. CASE Attach
  <2>1. /\ attempt = "connected" /\ attempt' = "attached" /\ queue' = <<>>
        /\ taking' = Remark(taking, "last", "none") /\ buffer' = Remark(buffer, "last", "none")
    BY <1>10 DEF Attach
  <2>2. /\ NoMark(taking', "due") /\ NoMark(buffer', "due") /\ NoMark(queue', "due")
        /\ NoMark(taking', "last") /\ NoMark(buffer', "last")
    BY <1>0, <2>1, NoMarkRemarked, NoMarkOf DEF Marks
  <2>3. \A i \in DOMAIN queue' : FALSE
    BY <2>1
  <2> QED
    BY <2>1, <2>2, <2>3 DEF Marked
<1>11. CASE Revup
  <2> DEFINE m == Message(Head(revups), "last")
             q == Remark(queue, "last", "none")
  <2>1. m \in Msg /\ m.mark = "last"
    <3>1. Head(revups) \in Op
      BY <1>0, <1>11, ElementsTaken DEF Revup
    <3> QED
      BY <3>1 DEF Message, Msg, Marks
  <2>2. /\ queue' = Append(q, m) /\ source = "revups" /\ attempt' = attempt
        /\ taking' = Remark(taking, "last", "none") /\ buffer' = Remark(buffer, "last", "none")
    BY <1>11 DEF Revup
  <2>3. q \in Seq(Msg) /\ NoMark(q, "last") /\ NoMark(q, "due")
    BY <1>0, <2>2, RemarkKeeps, NoMarkRemarked DEF Marks
  <2> HIDE DEF q, m
  <2>4. /\ NoMark(taking', "due") /\ NoMark(buffer', "due") /\ NoMark(queue', "due")
        /\ NoMark(taking', "last") /\ NoMark(buffer', "last")
    <3>1. NoMark(Append(q, m), "due")
      BY <2>1, <2>3, NoMarkOf
    <3> QED
      BY <1>0, <2>2, <3>1, NoMarkRemarked DEF Marks
  <2>5. \A i \in DOMAIN queue' : queue'[i].mark = "last" <=> i = Len(queue')
    <3>1. /\ queue' \in Seq(Msg) /\ Len(queue') = Len(q) + 1 /\ queue'[Len(q) + 1] = m
          /\ \A i \in 1 .. Len(q) : queue'[i] = q[i]
      BY <2>1, <2>2, <2>3, ElementsAppended
    <3>2. DOMAIN queue' = 1 .. Len(q) + 1 /\ DOMAIN q = 1 .. Len(q) /\ Len(q) \in Nat
      BY <2>3, <3>1, Elements
    <3> TAKE i \in DOMAIN queue'
    <3>3. CASE i = Len(q) + 1
      BY <2>1, <3>1, <3>3
    <3>4. CASE i # Len(q) + 1
      <4>1. i \in 1 .. Len(q) /\ i # Len(queue')
        BY <3>1, <3>2, <3>4
      <4> QED
        BY <2>3, <3>1, <3>2, <4>1 DEF NoMark
    <3> QED
      BY <3>3, <3>4
  <2> QED
    BY <2>4, <2>5 DEF Marked
<1>12. CASE RevupsEnd
  <2>1. source' = "live" /\ attempt' = attempt /\ ~ Early
    BY <1>12 DEF RevupsEnd
  <2> QED
    BY <2>1 DEF Marked
<1>13. ASSUME NEW p \in {"b", "c"}, Arrive(p) PROVE Marked'
  <2> DEFINE m == Message(Head(toMe[p]), "none")
  <2>1. m \in Msg /\ m.mark = "none"
    BY <1>13, OneArrives DEF Message, Msg, Marks
  <2>2. /\ queue' = IF source = "live" THEN Append(queue, m) ELSE queue
        /\ UNCHANGED <<attempt, source, buffer, taking>>
    BY <1>13 DEF Arrive
  <2> HIDE DEF m
  <2>3. CASE source = "live"
    <3>1. NoMark(queue, "due") => NoMark(queue', "due")
      BY <1>0, <2>1, <2>2, <2>3, NoMarkOf
    <3>2. Early => NoMark(buffer', "due") /\ NoMark(queue', "due") /\ NoMark(taking', "due")
      BY <1>0, <2>2, <3>1
    <3> QED
      BY <2>2, <2>3, <3>2 DEF Marked
  <2>4. CASE source # "live"
    BY <1>1, <2>2, <2>4
  <2> QED
    BY <2>3, <2>4
<1>14. CASE Take
  <2>1. /\ taking = <<>> /\ queue # <<>> /\ taking' = <<Head(queue)>> /\ queue' = Tail(queue)
        /\ UNCHANGED <<attempt, source, buffer>>
    BY <1>14 DEF Take
  <2>2. /\ Head(queue) \in Msg /\ Tail(queue) \in Seq(Msg) /\ Head(queue) = queue[1]
        /\ Len(queue) \in Nat /\ Len(queue) > 0 /\ Len(Tail(queue)) = Len(queue) - 1 /\ 1 \in DOMAIN queue
        /\ \A i \in 1 .. Len(queue) - 1 : Tail(queue)[i] = queue[i + 1]
    BY <1>0, <2>1, ElementsTaken
  <2>3. DOMAIN queue = 1 .. Len(queue) /\ DOMAIN Tail(queue) = 1 .. Len(queue) - 1
        /\ (Tail(queue) = <<>> <=> Len(Tail(queue)) = 0)
    BY <1>0, <2>2, Elements
  <2>4. \A i \in DOMAIN Tail(queue) : i + 1 \in DOMAIN queue /\ (i + 1 = Len(queue) <=> i = Len(Tail(queue)))
    BY <2>2, <2>3
  <2>5. NoneDue => NoMark(Tail(queue), "due") /\ NoMark(<<Head(queue)>>, "due")
    BY <2>2, <2>3, <2>4, NoMarkOf DEF NoMark
  <2>6. ASSUME source = "revups"
        PROVE  /\ \A i \in DOMAIN Tail(queue) : Tail(queue)[i].mark = "last" <=> i = Len(Tail(queue))
               /\ Tail(queue) # <<>> => NoMark(<<Head(queue)>>, "last") /\ NoMark(buffer, "last")
               /\ NoMark(buffer, "last")
    <3>1. OneLast /\ NoMark(buffer, "last")
      BY <1>0, <2>1, <2>6
    <3>2. \A i \in DOMAIN Tail(queue) : Tail(queue)[i].mark = "last" <=> i = Len(Tail(queue))
      BY <2>2, <2>3, <2>4, <3>1
    <3>3. Tail(queue) # <<>> => 1 # Len(queue)
      BY <2>2, <2>3
    <3>4. Tail(queue) # <<>> => NoMark(<<Head(queue)>>, "last")
      BY <2>2, <3>1, <3>3, NoMarkOf
    <3> QED
      BY <3>1, <3>2, <3>4
  <2> QED
    BY <1>0, <2>1, <2>5, <2>6 DEF Marked
<1>15. CASE Buffer
  <2>1. /\ taking # <<>> /\ taking' = <<>> /\ buffer' = Append(buffer, taking[1])
        /\ UNCHANGED <<attempt, source, queue>>
    BY <1>15 DEF Buffer
  <2>2. taking[1] \in Msg
    BY <1>0, <2>1, NoMarkOf
  <2>3. NoMark(<<>>, "due") /\ NoMark(<<>>, "last")
    BY DEF NoMark
  <2>4. \A mark \in Marks : NoMark(buffer, mark) /\ NoMark(taking, mark) => NoMark(buffer', mark)
    <3> TAKE mark \in Marks
    <3>1. NoMark(taking, mark) => taking[1].mark # mark
      BY <1>0, <2>1, NoMarkOf
    <3>2. NoMark(Append(buffer, taking[1]), mark) <=> NoMark(buffer, mark) /\ taking[1].mark # mark
      BY <1>0, <2>2, NoMarkOf
    <3> QED
      BY <2>1, <3>1, <3>2
  <2>5. "due" \in Marks /\ "last" \in Marks
    BY DEF Marks
  <2> QED
    BY <1>0, <2>1, <2>3, <2>4, <2>5 DEF Marked
<1>16. CASE Accept
  <2>1. /\ \A m \in ToSet(buffer') : m \in ToSet(buffer)
        /\ taking' = <<>> /\ UNCHANGED <<attempt, source, queue>>
    BY <1>16, AcceptFacts
  <2>2. buffer' \in Seq(Msg)
    BY <1>0, <1>16, TypedStep DEF Typed, Next, Process
  <2>3. \A mark \in Marks : NoMark(buffer, mark) => NoMark(buffer', mark)
    BY <1>0, <2>1, <2>2, NoMarkOf
  <2>4. NoMark(<<>>, "due") /\ NoMark(<<>>, "last") /\ "due" \in Marks /\ "last" \in Marks
    BY DEF NoMark, Marks
  <2> QED
    BY <1>0, <2>1, <2>3, <2>4 DEF Marked
<1> QED
  BY <1>3, <1>4, <1>5, <1>6, <1>7, <1>8, <1>9, <1>10, <1>11, <1>12, <1>13, <1>14, <1>15, <1>16
     DEF Next, Environment, Process

-----------------------------------------------------------------------------
(* What was told arrives *)

\* What brings what was told does so later.
LEMMA ToldLater ==
  ASSUME Whole, Answered, Next, ~ Restart
  PROVE  /\ \A s \in Seq(Op) : ToldBy(s) => Brings(s, told, time', log')
         /\ Covered(told) \subseteq Covered(time) => Covered(told) \subseteq Covered(time')
<1>0. told \in Clock /\ time \in Clock /\ Written \in Clock /\ AtMost(told, Written)
  BY ClockTypes DEF Whole, Typed, Answered
<1>1. time' \in Clock /\ Covered(time) \subseteq Covered(time')
  BY TimeGrows
<1>2. \A op \in Covered(told) : Prior(log', op) = Prior(log, op)
  <2>1. Covered(told) \subseteq Covered(Written)
    BY <1>0, CoveredOrder
  <2> QED
    BY <2>1, BeforeStays
<1> QED
  BY <1>0, <1>1, <1>2, BringsLater DEF ToldBy

\* Messages and rev-ups as sequences of operations
LEMMA ArrivingTypes ==
  ASSUME Whole
  PROVE  /\ queue \in Seq(Msg) /\ taking \in Seq(Msg) /\ buffer \in Seq(Msg) /\ revups \in Seq(Op)
         /\ serving.forward \in Seq(Op) /\ Len(queue) \in Nat /\ DOMAIN queue = 1 .. Len(queue)
         /\ Ops(queue) \in Seq(Op) /\ Ops(queue) \o revups \in Seq(Op)
         /\ \A k \in DOMAIN queue : FirstOps(queue, k) \in Seq(Op)
         /\ taking # <<>> => taking[1] \in Msg /\ taking[1].op \in Op
         /\ \A op \in Op, s \in Seq(Op) : <<op>> \o s \in Seq(Op)
         /\ <<>> \in Seq(Op) /\ told \in Clock /\ time \in Clock
<1>1. /\ queue \in Seq(Msg) /\ taking \in Seq(Msg) /\ buffer \in Seq(Msg) /\ revups \in Seq(Op)
      /\ serving.forward \in Seq(Op) /\ told \in Clock /\ time \in Clock
  BY DEF Whole, Typed
<1>2. Len(queue) \in Nat /\ DOMAIN queue = 1 .. Len(queue)
  BY <1>1, Elements
<1>3. Len(queue) \in 0 .. Len(queue) /\ \A k \in DOMAIN queue : k \in 0 .. Len(queue)
  BY <1>2
<1>4. Ops(queue) \in Seq(Op) /\ \A k \in DOMAIN queue : FirstOps(queue, k) \in Seq(Op)
  BY <1>1, <1>3, FirstOpsAre
<1>5. taking # <<>> => taking[1] \in Msg /\ taking[1].op \in Op
  BY <1>1, NoMarkOf DEF Msg
<1>6. \A op \in Op, s \in Seq(Op) : <<op>> \o s \in Seq(Op)
  <2> TAKE op \in Op, s \in Seq(Op)
  <2>1. <<op>> \in Seq(Op)
    OBVIOUS
  <2> QED
    BY <2>1
<1>7. Ops(queue) \o revups \in Seq(Op)
  BY <1>1, <1>4
<1> QED
  BY <1>1, <1>2, <1>4, <1>5, <1>6, <1>7

\* Nothing changes in what arrives, or it does so for all that does.
LEMMA DueStays ==
  ASSUME Whole, Answered, DueArrives, Next, ~ Restart, told' = told, taking' = taking,
         queue' = queue \/ queue' = <<>>, buffer' = buffer \/ buffer' = <<>>
  PROVE  DueArrives'
<1>0. /\ \A s \in Seq(Op) : ToldBy(s) => ToldBy(s)'
      /\ Covered(told) \subseteq Covered(time) => Covered(told') \subseteq Covered(time')
  BY ToldLater DEF ToldBy
<1>1. \A s \in Seq(Op) : Brought(s) => Brought(s)'
  <2> TAKE s \in Seq(Op)
  <2>1. taking # <<>> => <<taking[1].op>> \o s \in Seq(Op)
    BY ArrivingTypes
  <2>2. taking # <<>> /\ ToldBy(<<taking[1].op>> \o s) =>
          taking' # <<>> /\ Brings(<<taking'[1].op>> \o s, told', time', log')
    BY <2>1, ToldLater
  <2>3. ToldBy(s) => Brings(s, told', time', log')
    BY ToldLater
  <2> QED
    BY <2>2, <2>3 DEF Brought, ToldBy
<1>2. \A k \in DOMAIN queue' : queue'[k].mark = "due" => Brought(FirstOps(queue, k))'
  <2>1. CASE queue' = <<>>
    BY <2>1
  <2>2. CASE queue' = queue
    <3> TAKE k \in DOMAIN queue'
    <3>1. FirstOps(queue, k) \in Seq(Op) /\ FirstOps(queue', k) = FirstOps(queue, k)
      BY <2>2, ArrivingTypes
    <3> QED
      BY <1>1, <2>2, <3>1 DEF DueArrives, Brought, ToldBy
  <2> QED
    BY <2>1, <2>2
<1>3. taking' # <<>> /\ taking'[1].mark = "due" => Brought(<<>>)'
  BY <1>1, ArrivingTypes DEF DueArrives
<1>4. ~ NoMark(buffer', "due") => ~ NoMark(buffer, "due")
  BY DEF NoMark
<1> QED
  BY <1>0, <1>2, <1>3, <1>4 DEF DueArrives

\* Sequences of operations may be joined in any order.
LEMMA OpsJoined ==
  ASSUME NEW r \in Seq(Op), NEW s \in Seq(Op), NEW u \in Seq(Op)
  PROVE  (r \o s) \o u = r \o (s \o u)
  BY ConcatAssociative

\* The first of a sequence may be put at the end of the one before.
LEMMA MovedOver ==
  ASSUME NEW s \in Seq(Op), NEW r \in Seq(Op), r # <<>>
  PROVE  Append(s, Head(r)) \o Tail(r) = s \o r
<1> DEFINE h == <<Head(r)>>
           u == Tail(r)
<1>1. /\ Head(r) \in Op /\ u \in Seq(Op) /\ Len(r) \in Nat /\ Len(r) > 0 /\ Len(u) = Len(r) - 1
      /\ Head(r) = r[1] /\ \A i \in 1 .. Len(r) - 1 : u[i] = r[i + 1]
  BY ElementsTaken
<1>2. h \in Seq(Op) /\ Len(h) = 1 /\ h[1] = r[1] /\ 1 \in 1 .. Len(h) /\ Append(s, Head(r)) = s \o h
  BY <1>1, AppendIsConcat
<1> HIDE DEF h, u
<1>3. /\ h \o u \in Seq(Op) /\ Len(h \o u) = Len(h) + Len(u) /\ (h \o u)[1] = h[1]
      /\ \A i \in 1 .. Len(u) : (h \o u)[Len(h) + i] = u[i]
  BY ONLY <1>1, <1>2, ElementsJoined
<1>4. Len(h \o u) = Len(r)
  BY <1>1, <1>2, <1>3
<1>5. \A i \in 1 .. Len(r) : (h \o u)[i] = r[i]
  <2> TAKE i \in 1 .. Len(r)
  <2>1. CASE i = 1
    BY <1>2, <1>3, <2>1
  <2>2. CASE i # 1
    <3>1. i - 1 \in 1 .. Len(u) /\ i - 1 \in 1 .. Len(r) - 1 /\ Len(h) + (i - 1) = i /\ (i - 1) + 1 = i
      BY <1>1, <1>2, <2>2
    <3>2. (h \o u)[Len(h) + (i - 1)] = u[i - 1] /\ u[i - 1] = r[(i - 1) + 1]
      BY <1>1, <1>3, <3>1
    <3> QED
      BY <3>1, <3>2
  <2> QED
    BY <2>1, <2>2
<1>6. h \o u = r
  BY <1>3, <1>4, <1>5, SeqEqual
<1>7. (s \o h) \o u = s \o (h \o u)
  <2>1. s \in Seq(Op) /\ h \in Seq(Op) /\ u \in Seq(Op)
    BY <1>1, <1>2
  <2> QED
    BY ONLY <2>1, OpsJoined
<1> QED
  BY <1>2, <1>6, <1>7 DEF u

\* A message that the clone is not ready for is no news in what was told.
LEMMA NotReadyNoNews ==
  ASSUME Whole, Answered, taking # <<>>, ~ ReadyFor(time, taking[1].op),
         NEW s \in Seq(Op), ToldBy(<<taking[1].op>> \o s)
  PROVE  ToldBy(s)
<1> DEFINE op == taking[1].op
<1>1. /\ taking[1] \in Msg /\ op \in Op /\ told \in Clock /\ time \in Clock /\ Closed(told, log)
      /\ op \in Covered(Written)
  <2>1. taking[1].op \in OpsOf(taking)
    BY ArrivingTypes, OpsOfMessages
  <2> QED
    BY <2>1, ArrivingTypes DEF Answered, Whole, Known
<1>2. Brings(<<op>> \o s, told, time, log) /\ ~ ReadyFor(time, op)
  BY DEF ToldBy
<1> HIDE DEF op
<1>3. ASSUME op \in Covered(told) \ Covered(time) PROVE FALSE
  <2>1. Prior(log, op) \subseteq Covered(time)
    BY <1>1, <1>2, <1>3, BringsFirst
  <2> QED
    BY <1>1, <1>2, <2>1, ReadyHas
<1> QED
  BY <1>1, <1>2, <1>3, BringsRest DEF ToldBy

\* A message that is accepted is no news any more.
LEMMA AcceptedNoNews ==
  ASSUME Whole, Answered, Accept, NEW s \in Seq(Op)
  PROVE  /\ ToldBy(s) => Brings(s, told', time', log')
         /\ ToldBy(<<taking[1].op>> \o s) => Brings(s, told', time', log')
<1> USE DEF collaborator, network, database, receiving, deciding
<1> DEFINE op == taking[1].op
<1>1. /\ taking # <<>> /\ op \in Covered(time') /\ time' \in Clock /\ told' = told /\ log' = log
      /\ AtMost(time, time')
  BY AcceptFacts
<1>2. /\ op \in Op /\ told \in Clock /\ time \in Clock /\ Closed(told, log) /\ <<op>> \o s \in Seq(Op)
  BY <1>1, ArrivingTypes DEF Answered
<1>3. Covered(time) \subseteq Covered(time')
  BY <1>1, <1>2, CoveredOrder
<1> HIDE DEF op
<1>4. \A u \in Seq(Op) : Brings(u, told, time, log) => Brings(u, told, time', log)
  BY <1>1, <1>2, <1>3, BringsLater
<1>5. Brings(<<op>> \o s, told, time', log) => Brings(s, told, time', log)
  BY <1>1, <1>2, BringsRest
<1> QED
  BY <1>1, <1>2, <1>4, <1>5 DEF ToldBy, op

\* Every step keeps it that the updates still to come bring what was told.
LEMMA UpdatesArriveStep ==
  ASSUME Whole, Answered, Marked, UpdatesArrive, Next
  PROVE  UpdatesArrive'
<1> USE DEF collaborator, network, database, receiving, deciding
<1> DEFINE first(s) == <<taking[1].op>> \o s
           all == Ops(queue) \o revups
<1>0. /\ Typed /\ queue \in Seq(Msg) /\ revups \in Seq(Op) /\ told \in Clock /\ time \in Clock
      /\ Ops(queue) \in Seq(Op) /\ all \in Seq(Op) /\ serving.forward \in Seq(Op)
      /\ taking # <<>> => taking[1] \in Msg /\ taking[1].op \in Op
      /\ \A s \in Seq(Op) : taking # <<>> => first(s) \in Seq(Op)
  BY ArrivingTypes DEF Whole
<1>1. ASSUME source' # "revups" PROVE UpdatesArrive'
  BY <1>1 DEF UpdatesArrive
<1>2. ASSUME UNCHANGED <<told, queue, taking, source, revups>> PROVE UpdatesArrive'
  <2>1. CASE Restart
    BY <1>1, <2>1 DEF Restart, Detached
  <2>2. CASE ~ Restart /\ source = "revups"
    <3>1. ToldBy(all) => Brings(all, told, time', log')
      BY <1>0, <2>2, ToldLater
    <3>2. taking # <<>> /\ ToldBy(first(all)) => Brings(first(all), told, time', log')
      BY <1>0, <2>2, ToldLater
    <3>3. \/ Brings(all, told, time', log')
          \/ taking # <<>> /\ Brings(first(all), told, time', log') /\ (queue = <<>> => taking[1].mark = "last")
      BY <2>2, <3>1, <3>2 DEF UpdatesArrive
    <3> QED
      BY <1>2, <3>3 DEF UpdatesArrive, ToldBy
  <2> QED
    BY <1>1, <1>2, <2>1, <2>2
<1>3. CASE BWrites \/ CWrites \/ Change \/ Write
  BY <1>2, <1>3 DEF BWrites, CWrites, Change, Write
<1>4. CASE Reply \/ Connect \/ Retry \/ Fail \/ Clear \/ Insert \/ Connected
  <2>1. Reply \/ Connect \/ Retry \/ Fail => UNCHANGED <<told, queue, taking, source, revups>>
    BY DEF Reply, Connect, Retry, Fail
  <2>2. Clear \/ Insert \/ Connected => UNCHANGED <<told, queue, taking, source, revups>>
    BY DEF Clear, Insert, Connected
  <2> QED
    BY <1>2, <1>4, <2>1, <2>2
<1>5. CASE \E p \in {"me", "c"} : BReceives(p)
  BY <1>2, <1>5 DEF BReceives
<1>6. CASE Decide
  <2>1. UNCHANGED <<told, queue, taking, source, revups>> \/ source' = "never"
    BY <1>6 DEF Decide, Detached
  <2> QED
    BY <1>1, <1>2, <2>1
<1>7. CASE RevupsFail \/ SnapshotFails \/ Restart \/ Disordered \/ BackingUp \/ RevupsEnd
  <2>1. RevupsFail \/ SnapshotFails \/ Restart => source' = "never"
    BY DEF RevupsFail, SnapshotFails, Restart, Detached
  <2>2. Disordered \/ BackingUp => source' = "never"
    BY DEF Disordered, BackingUp, Reconnect, Detached
  <2>3. RevupsEnd => source' = "live"
    BY DEF RevupsEnd
  <2> QED
    BY <1>1, <1>7, <2>1, <2>2, <2>3
<1>8. CASE Attach
  <2>1. /\ attempt = "connected" /\ queue' = <<>> /\ revups' = answer.updates /\ told' = answer.gwc
        /\ UNCHANGED <<time, log>>
    BY <1>8 DEF Attach
  <2>2. answer.updates \in Seq(Op) /\ answer.gwc \in Clock /\ answer.kind \in {"revup", "snapshot"}
    BY <1>0, <2>1 DEF Whole, Control, Typed, Answer
  <2>3. Brings(answer.updates, answer.gwc, time, log)
    <3>1. CASE answer.kind = "revup"
      BY <2>1, <3>1 DEF Answered
    <3>2. CASE answer.kind = "snapshot"
      <4>1. time = answer.gwc
        BY <2>1, <3>2 DEF Whole, Times, Joined
      <4> QED
        BY <1>0, <2>2, <4>1, BringsFew
    <3> QED
      BY <2>2, <3>1, <3>2
  <2>4. Ops(<<>>) = <<>>
    <3>1. <<>> \in Seq(Msg) /\ 0 \in 0 .. Len(<<>>)
      OBVIOUS
    <3> QED
      BY <3>1, FirstOpsAre
  <2>5. Ops(queue') \o revups' = answer.updates
    BY <2>1, <2>2, <2>4, ConcatEmptySeq
  <2> QED
    BY <2>1, <2>3, <2>5 DEF UpdatesArrive, ToldBy
<1>9. CASE SentAll
  <2>1. UNCHANGED <<told, time, log, queue, taking, source>>
        /\ (revups' = revups \/ revups' = revups \o serving.forward)
    BY <1>9 DEF SentAll
  <2>2. CASE revups' = revups
    BY <1>2, <2>1, <2>2
  <2>3. CASE revups' = revups \o serving.forward /\ source = "revups"
    <3> DEFINE f == serving.forward
               more == Ops(queue) \o (revups \o f)
    <3>0. f \in Seq(Op) /\ Ops(queue) \in Seq(Op) /\ revups \in Seq(Op)
      BY <1>0
    <3>1. more = all \o f
      BY ONLY <3>0, OpsJoined
    <3>2. taking # <<>> => first(more) = first(all) \o f
      <4> SUFFICES ASSUME taking # <<>> PROVE <<taking[1].op>> \o (all \o f) = (<<taking[1].op>> \o all) \o f
        BY <3>1
      <4>1. <<taking[1].op>> \in Seq(Op)
        BY <1>0
      <4>2. all \in Seq(Op) /\ f \in Seq(Op)
        BY <1>0
      <4> HIDE DEF all, f
      <4> QED
        BY ONLY <4>1, <4>2, OpsJoined
    <3>3. Closed(told, log) /\ f \in Seq(Op)
      BY <1>0 DEF Answered
    <3>4. \A s \in Seq(Op) : ToldBy(s) => ToldBy(s \o f)
      BY <1>0, <3>3, BringsMore DEF ToldBy
    <3> HIDE DEF f, more, all, first
    <3>5. \/ ToldBy(more)
          \/ taking # <<>> /\ ToldBy(first(more)) /\ (queue = <<>> => taking[1].mark = "last")
      <4>1. \/ ToldBy(all)
            \/ taking # <<>> /\ ToldBy(first(all)) /\ (queue = <<>> => taking[1].mark = "last")
        BY <2>3 DEF UpdatesArrive, all, first
      <4> QED
        BY <1>0, <3>1, <3>2, <3>4, <4>1
    <3> QED
      BY <2>1, <2>3, <3>5 DEF UpdatesArrive, ToldBy, more, first, f
  <2> QED
    BY <1>1, <2>1, <2>2, <2>3
<1>10. CASE Revup
  <2> DEFINE m == Message(Head(revups), "last")
             q == Remark(queue, "last", "none")
             t == Remark(taking, "last", "none")
  <2>1. revups # <<>> /\ Head(revups) \in Op /\ Tail(revups) \in Seq(Op)
    BY <1>0, <1>10, ElementsTaken DEF Revup
  <2>2. m \in Msg /\ m.op = Head(revups)
    BY <2>1 DEF Message, Msg, Marks
  <2>3. /\ queue' = Append(q, m) /\ source = "revups" /\ revups' = Tail(revups) /\ taking' = t
        /\ UNCHANGED <<told, time, log, source>>
    BY <1>10 DEF Revup
  <2>4. q \in Seq(Msg) /\ Len(q) = Len(queue) /\ Len(queue) \in Nat /\ Ops(q) = Ops(queue)
    <3>1. "none" \in Marks /\ Len(queue) \in Nat /\ Len(queue) \in 0 .. Len(queue)
      BY <1>0, ArrivingTypes DEF Marks
    <3> QED
      BY <1>0, <3>1, RemarkKeeps DEF Ops
  <2>5. taking # <<>> => t # <<>> /\ t[1].op = taking[1].op
    <3>1. taking \in Seq(Msg) /\ "none" \in Marks
      BY <1>0 DEF Typed, Marks
    <3>2. taking # <<>> => 1 \in DOMAIN taking
      BY <3>1, OpsOfMessages
    <3> QED
      BY <3>1, <3>2, RemarkKeeps
  <2> HIDE DEF m, q, t
  <2>6. Ops(queue') = Append(Ops(queue), Head(revups)) /\ queue' # <<>>
    <3>1. /\ queue' \in Seq(Msg) /\ Len(queue') = Len(q) + 1 /\ queue' # <<>>
          /\ (\A i \in 1 .. Len(q) : queue'[i] = q[i]) /\ queue'[Len(q) + 1] = m
      BY <2>2, <2>3, <2>4, ElementsAppended
    <3> DEFINE a == Append(Ops(q), m.op)
               o == FirstOps(queue', Len(q) + 1)
    <3>2. Len(q) \in 0 .. Len(q) /\ Len(q) + 1 \in 0 .. Len(queue') /\ m.op \in Op
      BY <2>1, <2>2, <2>4, <3>1
    <3>3. Ops(q) \in Seq(Op) /\ Len(Ops(q)) = Len(q) /\ o \in Seq(Op) /\ Len(o) = Len(q) + 1
      BY <2>4, <3>1, <3>2, FirstOpsAre DEF Ops
    <3>4. /\ a \in Seq(Op) /\ Len(a) = Len(q) + 1 /\ \A i \in 1 .. Len(q) : a[i] = Ops(q)[i]
          /\ a[Len(q) + 1] = m.op
      BY <3>2, <3>3, ElementsAppended
    <3>5. (\A i \in 1 .. Len(q) + 1 : o[i] = queue'[i].op) /\ (\A i \in 1 .. Len(q) : Ops(q)[i] = q[i].op)
      BY DEF FirstOps, Ops
    <3> HIDE DEF a, o
    <3>6. \A i \in 1 .. Len(q) + 1 : a[i] = o[i]
      <4> TAKE i \in 1 .. Len(q) + 1
      <4>1. CASE i = Len(q) + 1
        BY <3>1, <3>4, <3>5, <4>1
      <4>2. CASE i \in 1 .. Len(q)
        BY <3>1, <3>4, <3>5, <4>2
      <4> QED
        BY <2>4, <4>1, <4>2
    <3>7. a = o
      BY <3>3, <3>4, <3>6, SeqEqual
    <3> QED
      BY <2>2, <2>4, <3>1, <3>7 DEF a, o, Ops
  <2>7. Ops(queue') \o revups' = all
    BY <1>0, <2>1, <2>3, <2>6, MovedOver
  <2>8. \/ ToldBy(all)
        \/ taking # <<>> /\ ToldBy(first(all))
    BY <2>3 DEF UpdatesArrive
  <2> QED
    BY <2>3, <2>5, <2>6, <2>7, <2>8 DEF UpdatesArrive, ToldBy
<1>11. CASE \E p \in {"b", "c"} : Arrive(p)
  <2>1. UNCHANGED <<told, queue, taking, source, revups>> \/ source' # "revups"
    BY <1>11 DEF Arrive
  <2> QED
    BY <1>1, <1>2, <2>1
<1>12. CASE Take /\ source = "revups"
  <2>1. /\ taking = <<>> /\ queue # <<>> /\ taking' = <<Head(queue)>> /\ queue' = Tail(queue)
        /\ UNCHANGED <<source, revups, told, time, log>>
    BY <1>12 DEF Take
  <2>2. ToldBy(all)
    BY <1>12, <2>1 DEF UpdatesArrive
  <2>3. /\ Head(queue) \in Msg /\ Tail(queue) \in Seq(Msg) /\ Head(queue) = queue[1] /\ 1 \in DOMAIN queue
        /\ Len(queue) \in Nat /\ Len(queue) > 0 /\ Len(Tail(queue)) = Len(queue) - 1
    BY <1>0, <2>1, ElementsTaken
  <2>4. Len(queue) \in 1 .. Len(queue) /\ Len(queue) - 1 \in 0 .. Len(Tail(queue)) /\ Head(queue).op \in Op
    BY <2>3 DEF Msg
  <2>5. Ops(queue) = <<Head(queue).op>> \o Ops(Tail(queue)) /\ Ops(Tail(queue)) \in Seq(Op)
    BY <1>0, <2>1, <2>3, <2>4, FirstOpsTaken, FirstOpsAre DEF Ops
  <2>6. all = <<Head(queue).op>> \o (Ops(Tail(queue)) \o revups)
    <3>1. <<Head(queue).op>> \in Seq(Op)
      BY <2>4
    <3> QED
      BY <1>0, <2>5, <3>1, OpsJoined
  <2>7. Tail(queue) = <<>> => Head(queue).mark = "last"
    <3>1. Tail(queue) = <<>> => 1 = Len(queue)
      <4>1. Tail(queue) \in Seq(Msg) /\ Len(queue) \in Nat /\ Len(Tail(queue)) = Len(queue) - 1
        BY <1>0, <2>1, ElementsTaken
      <4>2. Tail(queue) = <<>> => Len(Tail(queue)) = 0
        BY <4>1, Elements
      <4> QED
        BY ONLY <4>1, <4>2
    <3> QED
      BY <1>12, <2>3, <3>1 DEF Marked
  <2>8. taking' # <<>> /\ taking'[1] = Head(queue)
    BY <2>1
  <2> QED
    BY <2>1, <2>2, <2>6, <2>7, <2>8 DEF UpdatesArrive, ToldBy
<1>13. CASE Buffer /\ source = "revups"
  <2>1. /\ taking # <<>> /\ ~ ReadyFor(time, taking[1].op)
        /\ UNCHANGED <<source, revups, queue, told, time, log>>
    BY <1>13 DEF Buffer
  <2>2. ToldBy(all)
    BY <1>0, <1>13, <2>1, NotReadyNoNews DEF UpdatesArrive
  <2> QED
    BY <2>1, <2>2 DEF UpdatesArrive, ToldBy
<1>14. CASE Accept /\ source = "revups"
  <2>1. taking # <<>> /\ UNCHANGED <<source, revups, queue>>
    BY <1>14 DEF Accept
  <2>2. Brings(all, told', time', log')
    BY <1>0, <1>14, <2>1, AcceptedNoNews DEF UpdatesArrive
  <2> QED
    BY <2>1, <2>2 DEF UpdatesArrive, ToldBy
<1>15. CASE (Take \/ Buffer \/ Accept) /\ source # "revups"
  BY <1>1, <1>15 DEF Take, Buffer, Accept
<1> QED
  BY <1>3, <1>4, <1>5, <1>6, <1>7, <1>8, <1>9, <1>10, <1>11, <1>12, <1>13, <1>14, <1>15
     DEF Next, Environment, Process

\* Every step keeps it that by the turn of a message that is due what was told is had.
LEMMA DueArrivesStep ==
  ASSUME Whole, Answered, Marked, UpdatesArrive, DueArrives, Next, Adverse = {}
  PROVE  DueArrives'
<1> USE DEF collaborator, network, database, receiving, deciding
<1>0. /\ Typed /\ queue \in Seq(Msg) /\ told \in Clock /\ time \in Clock /\ Ops(queue) \in Seq(Op)
      /\ taking \in Seq(Msg) /\ buffer \in Seq(Msg) /\ Len(queue) \in Nat /\ DOMAIN queue = 1 .. Len(queue)
      /\ taking # <<>> => taking[1] \in Msg /\ taking[1].op \in Op
      /\ \A k \in DOMAIN queue : FirstOps(queue, k) \in Seq(Op)
      /\ <<>> \in Seq(Op) /\ Len(taking) <= 1
  BY ArrivingTypes DEF Whole, Control
<1>1. ASSUME UNCHANGED <<told, taking>>, queue' = queue \/ queue' = <<>>, buffer' = buffer \/ buffer' = <<>>,
             ~ Restart
      PROVE  DueArrives'
  BY <1>1, DueStays
<1>2. ASSUME queue' = <<>>, taking' = <<>>, buffer' = <<>> PROVE DueArrives'
  BY <1>2 DEF DueArrives, NoMark
<1>3. ASSUME source' = "revups" PROVE DueArrives'
  <2>1. NoMark(buffer', "due") /\ NoMark(queue', "due") /\ NoMark(taking', "due")
    BY <1>3, MarkedStep DEF Marked
  <2>2. taking' \in Seq(Msg)
    BY TypedStep DEF Whole, Typed
  <2>3. taking' # <<>> => taking'[1].mark # "due"
    BY <2>1, <2>2, NoMarkOf
  <2> QED
    BY <2>1, <2>3 DEF DueArrives, NoMark
<1>4. CASE Restart
  BY <1>2, <1>4 DEF Restart, Detached
<1>5. CASE BWrites \/ CWrites \/ Change \/ Write \/ RevupsFail \/ SnapshotFails
  <2>1. BWrites \/ CWrites \/ Change \/ Write => UNCHANGED <<told, taking, queue, buffer>>
    BY DEF BWrites, CWrites, Change, Write
  <2>2. RevupsFail \/ SnapshotFails => UNCHANGED <<told, taking, buffer>> /\ queue' = <<>>
    BY DEF RevupsFail, SnapshotFails, Detached
  <2> QED
    BY <1>1, <1>4, <1>5, <2>1, <2>2
<1>6. CASE Reply \/ Connect \/ Retry \/ Fail \/ Clear \/ Insert \/ Connected \/ SentAll
  <2>1. Reply \/ Connect \/ Retry \/ Fail => UNCHANGED <<told, taking, queue, buffer>>
    BY DEF Reply, Connect, Retry, Fail
  <2>2. Clear \/ Insert \/ Connected \/ SentAll => UNCHANGED <<told, taking, queue, buffer>>
    BY DEF Clear, Insert, Connected, SentAll
  <2> QED
    BY <1>1, <1>4, <1>6, <2>1, <2>2
<1>7. CASE Decide \/ \E p \in {"me", "c"} : BReceives(p)
  <2>1. Decide => UNCHANGED <<told, taking, buffer>> /\ (queue' = queue \/ queue' = <<>>)
    BY DEF Decide, Detached
  <2>2. (\E p \in {"me", "c"} : BReceives(p)) => UNCHANGED <<told, taking, queue, buffer>>
    BY DEF BReceives
  <2> QED
    BY <1>1, <1>4, <1>7, <2>1, <2>2
<1>8. CASE Disordered
  BY <1>2, <1>8 DEF Disordered, Reconnect, Detached
<1>9. CASE BackingUp
  <2>1. UNCHANGED <<told, taking>> /\ queue' = <<>> /\ buffer' = <<>>
    BY <1>9 DEF BackingUp, Reconnect, Detached
  <2> QED
    BY <1>1, <1>4, <2>1
<1>10. CASE Attach \/ Revup
  BY <1>3, <1>10 DEF Attach, Revup
<1>11. CASE RevupsEnd
  <2> DEFINE q == Remark(queue, "last", "due")
             t == Remark(taking, "last", "due")
             l == Live(held)
  <2>1. /\ source = "revups" /\ revups = <<>> /\ queue' = q \o l /\ taking' = t
        /\ buffer' = Remark(buffer, "last", "due") /\ UNCHANGED <<told, time, log>>
    BY <1>11 DEF RevupsEnd
  <2>2. /\ NoMark(buffer, "due") /\ NoMark(queue, "due") /\ NoMark(taking, "due")
        /\ \A i \in DOMAIN queue : queue[i].mark = "last" <=> i = Len(queue)
        /\ queue # <<>> => NoMark(taking, "last") /\ NoMark(buffer, "last")
        /\ taking # <<>> /\ taking[1].mark = "last" => NoMark(buffer, "last")
    BY <2>1 DEF Marked
  <2>3. /\ q \in Seq(Msg) /\ Len(q) = Len(queue) /\ (\A k \in 0 .. Len(queue) : FirstOps(q, k) = FirstOps(queue, k))
        /\ \A i \in DOMAIN queue : q[i].mark = IF queue[i].mark = "last" THEN "due" ELSE queue[i].mark
    BY <1>0, RemarkKeeps, SMTT(30) DEF Marks
  <2>4. (t = <<>> <=> taking = <<>>) /\ (taking # <<>> => /\ t[1].op = taking[1].op
           /\ t[1].mark = IF taking[1].mark = "last" THEN "due" ELSE taking[1].mark)
    <3>1. taking # <<>> => 1 \in DOMAIN taking
      BY <1>0, OpsOfMessages
    <3> QED
      BY <1>0, <3>1, RemarkKeeps DEF Marks
  <2>5. l \in Seq(Msg) /\ Len(l) \in Nat /\ DOMAIN l = 1 .. Len(l) /\ \A i \in DOMAIN l : l[i].mark = "none"
    <3>1. l \in Seq(Msg) /\ \A i \in DOMAIN l : l[i].mark = "none"
      BY <1>0, LiveMessages DEF Typed
    <3> QED
      BY <3>1, Elements
  <2>6. ~ NoMark(buffer', "due") => ~ NoMark(buffer, "last")
    BY <1>0, <2>1, <2>2, NoMarkRemarked DEF Marks
  <2> HIDE DEF q, t, l
  <2>7. ToldBy(Ops(queue)) \/ (taking # <<>> /\ ToldBy(<<taking[1].op>> \o Ops(queue))
                               /\ (queue = <<>> => taking[1].mark = "last"))
    <3>1. Ops(queue) \o revups = Ops(queue)
      BY <1>0, <2>1, ConcatEmptySeq
    <3> QED
      BY <2>1, <3>1 DEF UpdatesArrive
  <2>8. Brought(Ops(queue)) /\ \A s \in Seq(Op) : Brought(s) =>
          (Brings(s, told', time', log') \/ (taking' # <<>> /\ Brings(<<taking'[1].op>> \o s, told', time', log')))
    BY <2>1, <2>4, <2>7 DEF Brought, ToldBy
  <2>9. queue = <<>> => Ops(queue) = <<>>
    BY <1>0, FirstOpsAre DEF Ops
  <2>10. ASSUME NEW k \in DOMAIN queue', queue'[k].mark = "due" PROVE Brought(FirstOps(queue, k))'
    <3>1. /\ queue' \in Seq(Msg) /\ Len(queue') = Len(q) + Len(l) /\ DOMAIN queue' = 1 .. Len(q) + Len(l)
          /\ (\A i \in 1 .. Len(q) : queue'[i] = q[i]) /\ (\A i \in 1 .. Len(l) : queue'[Len(q) + i] = l[i])
      <4>1. q \in Seq(Msg) /\ l \in Seq(Msg)
        BY <2>3, <2>5
      <4>2. /\ q \o l \in Seq(Msg) /\ Len(q \o l) = Len(q) + Len(l) /\ DOMAIN (q \o l) = 1 .. Len(q) + Len(l)
            /\ \A i \in 1 .. Len(q) : (q \o l)[i] = q[i]
            /\ \A i \in 1 .. Len(l) : (q \o l)[Len(q) + i] = l[i]
        BY ONLY <4>1, ElementsJoined
      <4> QED
        BY <2>1, <4>2
    <3>2. k \in 1 .. Len(queue)
      <4> SUFFICES ASSUME k \notin 1 .. Len(queue) PROVE FALSE
        OBVIOUS
      <4>1. k - Len(q) \in 1 .. Len(l) /\ Len(q) + (k - Len(q)) = k
        BY <1>0, <2>3, <2>5, <2>10, <3>1
      <4>2. queue'[Len(q) + (k - Len(q))] = l[k - Len(q)] /\ l[k - Len(q)].mark = "none"
        BY <2>5, <3>1, <4>1
      <4> QED
        BY <2>10, <4>1, <4>2
    <3>3. queue'[k] = q[k]
      BY <2>3, <3>1, <3>2
    <3>4. queue[k].mark = "last"
      BY <1>0, <2>2, <2>3, <2>10, <3>2, <3>3 DEF NoMark
    <3>5. k = Len(queue) /\ k \in 0 .. Len(queue) /\ k \in 0 .. Len(q)
      BY <1>0, <2>2, <2>3, <3>2, <3>4
    <3>6. FirstOps(queue', k) = FirstOps(q, k)
      BY <2>3, <2>5, <3>1, <3>5, FirstOpsStay
    <3>7. FirstOps(queue', k) = Ops(queue)
      BY <2>3, <3>5, <3>6 DEF Ops
    <3> QED
      BY <1>0, <2>8, <3>7 DEF Brought, ToldBy
  <2>11. ASSUME taking' # <<>>, taking'[1].mark = "due" PROVE Brought(<<>>)'
    <3>1. taking # <<>> /\ taking[1].mark = "last"
      BY <1>0, <2>1, <2>2, <2>4, <2>11, NoMarkOf
    <3>2. queue = <<>>
      BY <1>0, <2>2, <3>1, NoMarkOf
    <3> QED
      BY <1>0, <2>8, <2>9, <3>2 DEF Brought, ToldBy
  <2>12. ASSUME ~ NoMark(buffer', "due") PROVE Covered(told) \subseteq Covered(time)
    <3>1. queue = <<>> /\ (taking # <<>> => taking[1].mark # "last")
      BY <2>2, <2>6, <2>12
    <3>2. ToldBy(<<>>)
      BY <2>7, <2>9, <3>1
    <3> QED
      BY <1>0, <3>2, BringsFew DEF ToldBy
  <2> QED
    BY <2>1, <2>10, <2>11, <2>12 DEF DueArrives
<1>12. ASSUME NEW p \in {"b", "c"}, Arrive(p) PROVE DueArrives'
  <2> DEFINE m == Message(Head(toMe[p]), "none")
  <2>1. m \in Msg /\ m.mark = "none"
    BY <1>12, OneArrives DEF Message, Msg, Marks
  <2>2. /\ queue' = IF source = "live" THEN Append(queue, m) ELSE queue
        /\ UNCHANGED <<told, taking, buffer, time, log>>
    BY <1>12 DEF Arrive
  <2> HIDE DEF m
  <2>3. CASE source = "live"
    <3>1. /\ queue' \in Seq(Msg) /\ Len(queue') = Len(queue) + 1 /\ queue'[Len(queue) + 1] = m
          /\ \A i \in 1 .. Len(queue) : queue'[i] = queue[i]
      BY <1>0, <2>1, <2>2, <2>3, ElementsAppended
    <3>2. DOMAIN queue' = 1 .. Len(queue) + 1
      BY <3>1, Elements
    <3>3. ASSUME NEW k \in DOMAIN queue', queue'[k].mark = "due" PROVE Brought(FirstOps(queue, k))'
      <4>1. k \in 1 .. Len(queue)
        BY <1>0, <2>1, <3>1, <3>2, <3>3
      <4>2. k \in 0 .. Len(queue) /\ queue'[k] = queue[k] /\ Len(queue') >= Len(queue)
        BY <1>0, <3>1, <4>1
      <4>3. FirstOps(queue', k) = FirstOps(queue, k)
        BY <1>0, <3>1, <4>2, FirstOpsStay
      <4>4. Brought(FirstOps(queue, k))
        BY <1>0, <3>3, <4>1, <4>2 DEF DueArrives
      <4> QED
        BY <2>2, <4>3, <4>4 DEF Brought, ToldBy
    <3> QED
      BY <2>2, <3>3 DEF DueArrives, Brought, ToldBy
  <2>4. CASE source # "live"
    BY <1>1, <1>4, <2>2, <2>4
  <2> QED
    BY <2>3, <2>4
<1>13. CASE Take
  <2>1. /\ taking = <<>> /\ queue # <<>> /\ taking' = <<Head(queue)>> /\ queue' = Tail(queue)
        /\ UNCHANGED <<told, time, log, buffer>>
    BY <1>13 DEF Take
  <2>2. /\ Head(queue) \in Msg /\ Tail(queue) \in Seq(Msg) /\ Head(queue) = queue[1] /\ 1 \in DOMAIN queue
        /\ Len(queue) > 0 /\ Len(Tail(queue)) = Len(queue) - 1
        /\ \A i \in 1 .. Len(queue) - 1 : Tail(queue)[i] = queue[i + 1]
    BY <1>0, <2>1, ElementsTaken
  <2>3. taking' # <<>> /\ taking'[1] = Head(queue)
    BY <2>1
  <2>4. \A k \in DOMAIN queue : queue[k].mark = "due" =>
          Brings(<<taking'[1].op>> \o FirstOps(Tail(queue), k - 1), told', time', log')
    <3> SUFFICES ASSUME NEW k \in DOMAIN queue, queue[k].mark = "due"
                 PROVE  Brings(<<taking'[1].op>> \o FirstOps(Tail(queue), k - 1), told', time', log')
      OBVIOUS
    <3>1. ToldBy(FirstOps(queue, k))
      BY <2>1 DEF DueArrives, Brought
    <3>2. FirstOps(queue, k) = <<Head(queue).op>> \o FirstOps(Tail(queue), k - 1)
      BY <1>0, <2>1, FirstOpsTaken
    <3> QED
      BY <2>1, <2>3, <3>1, <3>2 DEF ToldBy
  <2>5. ASSUME NEW k \in DOMAIN queue', queue'[k].mark = "due" PROVE Brought(FirstOps(queue, k))'
    <3>1. DOMAIN queue' = 1 .. Len(queue) - 1
      BY <1>0, <2>1, <2>2, Elements
    <3>2. k + 1 \in DOMAIN queue /\ (k + 1) - 1 = k /\ queue'[k] = queue[k + 1]
      BY <1>0, <2>1, <2>2, <3>1
    <3>3. Brings(<<taking'[1].op>> \o FirstOps(Tail(queue), k), told', time', log')
      BY <2>4, <2>5, <3>2
    <3> QED
      BY <2>1, <2>3, <3>3 DEF Brought, ToldBy
  <2>6. ASSUME taking'[1].mark = "due" PROVE Brought(<<>>)'
    <3>1. Brings(<<taking'[1].op>> \o FirstOps(Tail(queue), 1 - 1), told', time', log')
      BY <2>2, <2>3, <2>4, <2>6
    <3>2. FirstOps(Tail(queue), 1 - 1) = <<>>
      <4>1. 0 \in 0 .. Len(Tail(queue)) /\ 1 - 1 = 0
        BY <1>0, <2>2
      <4>2. FirstOps(Tail(queue), 0) \in Seq(Op) /\ Len(FirstOps(Tail(queue), 0)) = 0
        BY <2>2, <4>1, FirstOpsAre
      <4> QED
        BY <4>1, <4>2, Elements
    <3> QED
      BY <2>3, <3>1, <3>2 DEF Brought, ToldBy
  <2> QED
    BY <2>1, <2>5, <2>6 DEF DueArrives
<1>14. ASSUME taking # <<>>, taking' = <<>>, queue' = queue,
              ~ NoMark(buffer', "due") =>
                ~ NoMark(buffer, "due") \/ (Buffer /\ taking[1].mark = "due"),
              \A s \in Seq(Op) : /\ ToldBy(s) => Brings(s, told', time', log')
                                 /\ ToldBy(<<taking[1].op>> \o s) => Brings(s, told', time', log'),
              Covered(told) \subseteq Covered(time) => Covered(told') \subseteq Covered(time'),
              told' \in Clock, time' \in Clock
       PROVE  DueArrives'
  <2>1. \A s \in Seq(Op) : Brought(s) => Brings(s, told', time', log')
    BY <1>14 DEF Brought
  <2>2. ASSUME NEW k \in DOMAIN queue', queue'[k].mark = "due" PROVE Brought(FirstOps(queue, k))'
    <3>1. FirstOps(queue, k) \in Seq(Op) /\ Brought(FirstOps(queue, k))
      BY <1>0, <1>14, <2>2 DEF DueArrives
    <3>2. Brings(FirstOps(queue, k), told', time', log')
      BY <2>1, <3>1
    <3> QED
      BY <1>14, <3>2 DEF Brought, ToldBy
  <2>3. taking[1].mark = "due" => Covered(told') \subseteq Covered(time')
    <3>1. taking[1].mark = "due" => Brings(<<>>, told', time', log')
      BY <1>0, <1>14, <2>1 DEF DueArrives
    <3> QED
      BY <1>14, <3>1, BringsFew
  <2>4. ~ NoMark(buffer, "due") => Covered(told') \subseteq Covered(time')
    BY <1>14 DEF DueArrives
  <2> QED
    BY <1>14, <2>2, <2>3, <2>4 DEF DueArrives
<1>15. CASE Buffer
  <2>1. /\ taking # <<>> /\ taking' = <<>> /\ queue' = queue /\ ~ ReadyFor(time, taking[1].op)
        /\ buffer' = Append(buffer, taking[1]) /\ UNCHANGED <<told, time, log>>
    BY <1>15 DEF Buffer
  <2>2. ~ NoMark(buffer', "due") => ~ NoMark(buffer, "due") \/ taking[1].mark = "due"
    BY <1>0, <2>1, NoMarkOf
  <2>3. \A s \in Seq(Op) : /\ ToldBy(s) => Brings(s, told', time', log')
                           /\ ToldBy(<<taking[1].op>> \o s) => Brings(s, told', time', log')
    BY <2>1, NotReadyNoNews DEF ToldBy
  <2> QED
    BY <1>0, <1>14, <1>15, <2>1, <2>2, <2>3
<1>16. CASE Accept
  <2>1. /\ taking # <<>> /\ taking' = <<>> /\ queue' = queue /\ told' = told
        /\ \A m \in ToSet(buffer') : m \in ToSet(buffer)
        /\ time' \in Clock /\ AtMost(time, time')
    BY <1>16, AcceptFacts
  <2>2. buffer' \in Seq(Msg)
    BY TypedStep DEF Whole, Typed
  <2>3. ~ NoMark(buffer', "due") => ~ NoMark(buffer, "due")
    BY <1>0, <2>1, <2>2, NoMarkOf
  <2>4. \A s \in Seq(Op) : /\ ToldBy(s) => Brings(s, told', time', log')
                           /\ ToldBy(<<taking[1].op>> \o s) => Brings(s, told', time', log')
    BY <1>16, AcceptedNoNews
  <2>5. Covered(time) \subseteq Covered(time')
    BY <1>0, <2>1, CoveredOrder
  <2> QED
    BY <1>0, <1>14, <2>1, <2>3, <2>4, <2>5
<1> QED
  BY <1>4, <1>5, <1>6, <1>7, <1>8, <1>9, <1>10, <1>11, <1>12, <1>13, <1>15, <1>16
     DEF Next, Environment, Process

\* At first there are no messages.
LEMMA MarkedInit == Init => Marked /\ UpdatesArrive /\ DueArrives
<1> SUFFICES ASSUME Init PROVE Marked /\ UpdatesArrive /\ DueArrives
  OBVIOUS
<1>1. queue = <<>> /\ taking = <<>> /\ buffer = <<>> /\ source = "never" /\ attempt = "idle"
  BY DEF Init
<1> QED
  BY <1>1 DEF Marked, UpdatesArrive, DueArrives, NoMark

\* A step that changes nothing keeps the marks.
LEMMA MarkedUnchanged ==
  ASSUME Marked, UpdatesArrive, DueArrives, UNCHANGED vars
  PROVE  Marked' /\ UpdatesArrive' /\ DueArrives'
<1> USE DEF vars, collaborator, network, database, receiving, deciding
<1>1. Marked'
  BY DEF Marked, NoMark
<1>2. UpdatesArrive'
  BY DEF UpdatesArrive, ToldBy
<1>3. DueArrives'
  BY DEF DueArrives, Brought, ToldBy, NoMark
<1> QED
  BY <1>1, <1>2, <1>3

-----------------------------------------------------------------------------
(* To be no longer outdated *)

\* Only the end of the rev-ups, or the delivery of the last of them, makes a clone up to
\* date: and by then it has all that it was told of.
LEMMA ToldIsCovered ==
  ASSUME Whole, Answered, Marked, UpdatesArrive, DueArrives, [Next]_vars, Adverse = {},
         outdated, ~ outdated'
  PROVE  AtMost(told, time')
<1> USE DEF collaborator, network, database, receiving, deciding
<1>0. /\ Typed /\ told \in Clock /\ time \in Clock /\ time' \in Clock /\ revups \in Seq(Op)
      /\ queue \in Seq(Msg) /\ taking \in Seq(Msg) /\ buffer \in Seq(Msg) /\ Len(taking) <= 1
      /\ taking # <<>> => taking[1] \in Msg /\ taking[1].op \in Op
  <2>1. time' \in Clock
    <3>1. CASE UNCHANGED vars
      BY <3>1, ArrivingTypes DEF vars
    <3>2. CASE Next
      BY <3>2, TypedStep DEF Whole, Typed
    <3> QED
      BY <3>1, <3>2
  <2> QED
    BY <2>1, ArrivingTypes DEF Whole, Control
<1>1. ASSUME Covered(told) \subseteq Covered(time') PROVE AtMost(told, time')
  BY <1>0, <1>1, CoveredOrder
<1>2. CASE Accept
  <2>1. /\ taking # <<>> /\ taking[1].op \in Covered(time') /\ AtMost(time, time')
        /\ ~ NoMark(buffer, "due") \/ taking[1].mark = "due"
    BY <1>2, AcceptFacts
  <2>2. Covered(time) \subseteq Covered(time')
    BY <1>0, <2>1, CoveredOrder
  <2>3. CASE ~ NoMark(buffer, "due")
    BY <1>1, <2>2, <2>3 DEF DueArrives
  <2>4. CASE taking[1].mark = "due"
    <3>1. ToldBy(<<>>) \/ ToldBy(<<taking[1].op>> \o <<>>)
      BY <2>1, <2>4 DEF DueArrives, Brought
    <3>2. Covered(told) \subseteq Covered(time) \cup {taking[1].op}
      <4> DEFINE op == taking[1].op
      <4>1. op \in Op
        BY <1>0, <2>1
      <4>2. Brings(<<>>, told, time, log) \/ Brings(<<op>> \o <<>>, told, time, log)
        BY <3>1 DEF ToldBy
      <4> HIDE DEF op
      <4>3. CASE Brings(<<>>, told, time, log)
        BY ONLY <1>0, <4>3, BringsFew
      <4>4. CASE Brings(<<op>> \o <<>>, told, time, log)
        <5>1. Covered(told) \subseteq Covered(time) \cup {op}
          BY ONLY <1>0, <4>1, <4>4, BringsFew
        <5> QED
          BY <5>1 DEF op
      <4> QED
        BY <4>2, <4>3, <4>4
    <3> QED
      BY <1>1, <2>1, <2>2, <3>2
  <2> QED
    BY <2>1, <2>3, <2>4
<1>3. CASE RevupsEnd
  <2>1. /\ source = "revups" /\ revups = <<>> /\ time' = time
        /\ \A msg \in ToSet((queue \o taking) \o buffer) : msg.mark # "last"
    BY <1>3 DEF RevupsEnd
  <2>2. ToSet((queue \o taking) \o buffer) = ToSet(queue) \cup ToSet(taking) \cup ToSet(buffer)
    <3> DEFINE u == queue \o taking
    <3>1. u \in Seq(Msg) /\ ToSet(u) = ToSet(queue) \cup ToSet(taking)
      BY <1>0, ElementsJoined
    <3> HIDE DEF u
    <3>2. ToSet(u \o buffer) = ToSet(u) \cup ToSet(buffer)
      BY <1>0, <3>1, ElementsJoined
    <3> QED
      BY <3>1, <3>2 DEF u
  <2>3. NoMark(queue, "last") /\ NoMark(taking, "last")
    BY <1>0, <2>1, <2>2, NoMarkOf
  <2>4. queue = <<>>
    <3>1. DOMAIN queue = 1 .. Len(queue) /\ Len(queue) \in Nat /\ (queue = <<>> <=> Len(queue) = 0)
      BY <1>0, Elements
    <3>2. queue # <<>> => Len(queue) \in DOMAIN queue
      BY <3>1
    <3>3. queue # <<>> => queue[Len(queue)].mark = "last"
      BY <2>1, <3>2 DEF Marked
    <3> QED
      BY <2>3, <3>2, <3>3 DEF NoMark
  <2>5. taking # <<>> => taking[1].mark # "last"
    BY <1>0, <2>3, NoMarkOf
  <2>6. Ops(queue) \o revups = <<>>
    <3>1. Ops(queue) = <<>>
      BY <1>0, <2>4, ArrivingTypes, FirstOpsAre
    <3> QED
      BY <2>1, <3>1
  <2>7. ToldBy(<<>>)
    BY <2>1, <2>4, <2>5, <2>6 DEF UpdatesArrive
  <2> QED
    BY <1>0, <1>1, <2>1, <2>7, BringsFew DEF ToldBy
<1>4. BWrites \/ CWrites \/ Change \/ Write \/ RevupsFail \/ SnapshotFails => outdated' = outdated
  BY DEF BWrites, CWrites, Change, Write, RevupsFail, SnapshotFails
<1>5. Decide \/ Reply \/ Fail \/ Retry \/ Connect \/ Attach \/ Clear \/ Insert \/ Connected => outdated' = outdated
  BY DEF Decide, Reply, Fail, Retry, Connect, Attach, Clear, Insert, Connected
<1>6. SentAll \/ Revup \/ Take \/ Buffer => outdated' = outdated
  BY DEF SentAll, Revup, Take, Buffer
<1>7. Disordered \/ BackingUp \/ Restart => outdated'
  BY DEF Disordered, BackingUp, Reconnect, Restart
<1>8. (\E p \in {"b", "c"} : Arrive(p)) \/ (\E p \in {"me", "c"} : BReceives(p)) => outdated' = outdated
  BY DEF Arrive, BReceives
<1>9. UNCHANGED vars => outdated' = outdated
  BY DEF vars
<1> QED
  BY <1>2, <1>3, <1>4, <1>5, <1>6, <1>7, <1>8, <1>9 DEF Next, Environment, Process

\* In none of the circumstances of "Findings", of which late-delivery and before-attach
\* are known to break it: to be no longer outdated is to have all that b had when it
\* answered, and when all is quiet it is to have all that there is.  Neither an earlier
\* recovery nor the turn of a message in the buffer makes a clone say so too soon
\* (RemoteOperations.attach, DatasetEngine.acceptRemoteOperation).
THEOREM RecoveredInTruthOtherwise ==
  ASSUME Adverse = {}
  PROVE  Spec => RecoveredInTruth
<1> DEFINE Inv == Whole /\ Answered /\ Marked /\ UpdatesArrive /\ DueArrives
<1>1. Init => Inv
  BY WholeInit, AnsweredInit, MarkedInit
<1>2. Inv /\ [Next]_vars => Inv'
  <2> SUFFICES ASSUME Inv, [Next]_vars PROVE Inv'
    OBVIOUS
  <2>1. Whole' /\ Answered'
    BY WholeStep, AnsweredStep
  <2>2. CASE Next
    BY <2>1, <2>2, MarkedStep, UpdatesArriveStep, DueArrivesStep
  <2>3. CASE UNCHANGED vars
    BY <2>1, <2>3, MarkedUnchanged
  <2> QED
    BY <2>2, <2>3
<1>3. Inv /\ [Next]_vars => [outdated /\ ~ outdated' => AtMost(told, time')]_vars
  BY ToldIsCovered
<1>4. Spec => [][outdated /\ ~ outdated' => AtMost(told, time')]_vars
  BY <1>1, <1>2, <1>3, PTL DEF Spec
<1>5. Spec => RecoveredWhenSaid
  BY <1>4 DEF RecoveredWhenSaid
<1>6. Spec => []UpToDate
  BY UpToDateOtherwise
<1> QED
  BY <1>5, <1>6 DEF RecoveredInTruth

=============================================================================
