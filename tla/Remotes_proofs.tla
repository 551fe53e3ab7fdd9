--------------------------- MODULE Remotes_proofs ---------------------------
(***************************************************************************)
(* What a clone may rely on when it requests something of its peers: for   *)
(* any peers, any number of requests and streams of any length.            *)
(***************************************************************************)
EXTENDS Remotes, FiniteSetTheorems, SequenceTheorems, WellFoundedInduction, TLAPS

-----------------------------------------------------------------------------
(* The inductive invariant *)

Outcome == {"ok", "rejected", "null", "timeout"}

Answered == {"ok", "rejected", "null"}

Channel == {"data", "updates"}

ReplyMessage == [type : {"reply"}, from : Peer, id : 0 .. MaxRequests, res : Answered]

AckMessage == [type : {"ack"}, to : Peer, id : 1 .. MaxRequests]

Attempts == UNION {[P -> Outcome] : P \in SUBSET Peer}

RequestRecord ==
  [id : 1 .. MaxRequests, kind : Kind, waiting : Peer \cup {None},
   offer : {None} \cup [id : 0 .. MaxRequests, from : Peer, fromId : Peer],
   tried : Attempts, acksDue : SUBSET Peer, throughout : SUBSET Peer]

ConsumerOf(kind) ==
  [from : Peer, id : 1 .. MaxRequests, kind : {kind}, got : [Channels(kind) -> 0 .. MaxItems],
   ended : [Channels(kind) -> {"no", "slow", "complete", "error"}]]

Session ==
  {NoSession, Over} \cup [state : {"sent", "offered"}, kind : Kind]
    \cup [state : {"streaming"}, left : UNION {[C -> 0 .. MaxItems] : C \in SUBSET Channel}]

Typed ==
  /\ present \in Seq(Peer)
  /\ gone \subseteq Peer /\ recent \subseteq Peer
  /\ count \in 0 .. MaxRequests
  /\ req \in {None} \cup RequestRecord
  /\ last \in {None} \cup [kind : Kind, result : Outcome \cup {"not sent", "no visible clones"},
                           tried : Attempts, throughout : SUBSET Peer]
  /\ net \subseteq ReplyMessage \cup AckMessage
  /\ unwiring \subseteq [m : ReplyMessage, p : Peer, id : 1 .. MaxRequests]
  /\ session \in [Peer -> [1 .. MaxRequests -> Session]]
  /\ consumer \in {None} \cup UNION {ConsumerOf(kind) : kind \in Kind}

\* The request that is made, and what is left of the last one
Current ==
  /\ req # None =>
       /\ req.id = count /\ last = None /\ consumer = None
       /\ req.waiting \notin DOMAIN req.tried
       /\ req.offer # None => req.waiting = None /\ req.offer.id = req.id
  /\ consumer # None => consumer.id = count
  /\ last # None => count > 0

\* Peers are listed once
Listed == \A i, j \in DOMAIN present : present[i] = present[j] => i = j

\* Those that a request has been sent to
Asked == DOMAIN req.tried \cup ({req.waiting} \ {None})

\* Messages and sessions are of requests that were made, and a reply is unwrapped for
\* the request that it answers
Timely ==
  /\ \A m \in net : m.id <= count
  /\ \A u \in unwiring : u.m.id = u.id /\ u.id <= count
  /\ \A p \in Peer, id \in 1 .. MaxRequests : id > count => session[p][id] = NoSession

IsReply(m, p, id) == m.type = "reply" /\ m.from = p /\ m.id = id

\* The replies of a peer to a request, on their way
NoMail(p, id) ==
  /\ \A m \in net : ~IsReply(m, p, id)
  /\ \A u \in unwiring : ~IsReply(u.m, p, id)

\* There is no more than one, after the peer was asked
Sole(p, id) ==
  /\ \A m, n \in net : IsReply(m, p, id) /\ IsReply(n, p, id) => m = n
  /\ \A u, v \in unwiring : IsReply(u.m, p, id) /\ IsReply(v.m, p, id) => u = v
  /\ \A m \in net, u \in unwiring : ~(IsReply(m, p, id) /\ IsReply(u.m, p, id))

StateOf(p, id) == session[p][id].state

\* The peer has not finished with the request
Busy(p, id) == StateOf(p, id) \in {"sent", "offered", "streaming"}

\* What a reply says of the session of its sender
Told(m) == m.type = "reply" /\ m.id > 0 /\ m.res # "ok" => ~Busy(m.from, m.id)

Conversation(p) ==
  /\ \A id \in 0 .. MaxRequests : Sole(p, id)
  /\ \A id \in 1 .. MaxRequests : StateOf(p, id) = "sent" => NoMail(p, id)
  /\ req # None /\ p \notin Asked => StateOf(p, count) = "none" /\ NoMail(p, count)
  /\ req # None /\ StateOf(p, count) \in {"sent", "offered"} =>
       session[p][count].kind = req.kind
  /\ consumer # None /\ StateOf(p, count) \in {"sent", "offered"} =>
       session[p][count].kind = consumer.kind

Conversations ==
  /\ \A p \in Peer : Conversation(p)
  /\ \A m \in net : Told(m)
  /\ \A u \in unwiring : Told(u.m)

\* No peer streams before there is someone to notify
Quiet ==
  req # None =>
    /\ \A m \in net : m.type = "ack" => m.id < count
    /\ \A p \in Peer : StateOf(p, count) # "streaming"

\* What is consumed on a channel, and what is left to be
Whole(ch) ==
  /\ consumer.ended[ch] = "complete" => consumer.got[ch] = MaxItems
  /\ consumer.ended[ch] = "no" =>
       /\ StateOf(consumer.from, count) \in {"sent", "offered"} => consumer.got[ch] = 0
       /\ StateOf(consumer.from, count) = "streaming"
            /\ ch \in DOMAIN session[consumer.from][count].left =>
            consumer.got[ch] + session[consumer.from][count].left[ch] = MaxItems

Consumed == consumer # None => \A ch \in Channels(consumer.kind) : Whole(ch)

InTime(tried) == \A p \in DOMAIN tried : tried[p] # "timeout"

\* So long as no attempt times out there is one conversation at a time
OneByOne ==
  /\ req # None /\ InTime(req.tried) => \A p \in Peer :
       /\ Busy(p, count) => p = req.waiting \/ (req.offer # None /\ p = req.offer.from)
       /\ StateOf(p, count) = "sent" => p = req.waiting
       /\ p # req.waiting => NoMail(p, count)
  /\ last # None /\ InTime(last.tried) =>
       \A p, q \in Peer : Busy(p, count) /\ Busy(q, count) => p = q

IInv ==
  /\ Typed /\ Current /\ Listed /\ Timely
  /\ Conversations /\ Quiet /\ Consumed /\ OneByOne

-----------------------------------------------------------------------------
(* The round of the peers, if none comes back *)

\* recentlySentTo holds those that are listed first
Prefix == \A i, j \in DOMAIN present : i < j /\ present[j] \in recent => present[i] \in recent

SameSide(i, j) == present[i] \in recent <=> present[j] \in recent

\* Of those who were there throughout, the request goes on from the first that it was
\* sent to, of the two parts in turn
InTurn ==
  /\ \A i, j \in DOMAIN present :
       (i < j /\ SameSide(i, j) /\ present[i] \in Asked /\ present[j] \in req.throughout)
         => present[j] \in Asked
  /\ \/ Asked \cap Range(present) \subseteq recent
     \/ recent \cap Range(present) \subseteq Asked

Round ==
  /\ Prefix
  /\ recent \subseteq Range(present) \cup gone
  /\ req # None =>
       /\ InTurn
       /\ Asked \subseteq Range(present) \cup gone
       /\ req.throughout \subseteq Range(present)
  /\ EveryoneAsked

-----------------------------------------------------------------------------
(***************************************************************************)
(* Lemmas about the operators of the model                                 *)
(***************************************************************************)

\* A session is one of these, by its state.
LEMMA SessionStates ==
  ASSUME NEW s \in Session
  PROVE  /\ s.state \in {"none", "over", "sent", "offered", "streaming"}
         /\ s.state = "none" => s = NoSession
         /\ s.state \in {"sent", "offered"} => s \in [state : {"sent", "offered"}, kind : Kind]
         /\ s.state = "streaming" =>
              s \in [state : {"streaming"}, left : UNION {[C -> 0 .. MaxItems] : C \in SUBSET Channel}]
  BY DEF Session, NoSession, Over

\* One session is changed, and no other.
LEMMA SessionSet ==
  ASSUME session \in [Peer -> [1 .. MaxRequests -> Session]],
         NEW p \in Peer, NEW id \in 1 .. MaxRequests, NEW s \in Session,
         session' = [session EXCEPT ![p][id] = s]
  PROVE  /\ session' \in [Peer -> [1 .. MaxRequests -> Session]]
         /\ session'[p][id] = s
         /\ \A q \in Peer, k \in 1 .. MaxRequests :
              q # p \/ k # id => session'[q][k] = session[q][k]
  OBVIOUS

\* Tried adds an outcome to those that there are.
LEMMA TriedProperties ==
  ASSUME req \in RequestRecord, NEW p \in Peer, NEW res \in Outcome
  PROVE  /\ Tried(p, res) \in Attempts
         /\ DOMAIN Tried(p, res) = DOMAIN req.tried \cup {p}
         /\ Tried(p, res)[p] = res
         /\ \A q \in DOMAIN req.tried \ {p} : Tried(p, res)[q] = req.tried[q]
<1>1. PICK P \in SUBSET Peer : req.tried \in [P -> Outcome]
  BY DEF RequestRecord, Attempts
<1>2. Tried(p, res) \in [P \cup {p} -> Outcome] /\ P \cup {p} \in SUBSET Peer
  BY <1>1 DEF Tried
<1>3. Tried(p, res) \in Attempts
  BY <1>2 DEF Attempts
<1> QED
  BY <1>1, <1>2, <1>3 DEF Tried

\* The outcome of the attempt that was waited for is in time if all are.
LEMMA TriedInTime ==
  ASSUME req \in RequestRecord, NEW p \in Peer, NEW res \in Outcome, p \notin DOMAIN req.tried
  PROVE  InTime(Tried(p, res)) <=> InTime(req.tried) /\ res # "timeout"
<1> DEFINE t == Tried(p, res)
<1>1. /\ DOMAIN t = DOMAIN req.tried \cup {p} /\ t[p] = res
      /\ \A q \in DOMAIN req.tried \ {p} : t[q] = req.tried[q]
  BY TriedProperties
<1> HIDE DEF t
<1>2. \A q \in DOMAIN req.tried : t[q] = req.tried[q]
  BY <1>1
<1>3. InTime(t) <=> InTime(req.tried) /\ res # "timeout"
  BY <1>1, <1>2 DEF InTime
<1> QED
  BY <1>3 DEF t

\* What was tried is of peers, and has outcomes.
LEMMA AttemptsOfPeers ==
  ASSUME NEW tried \in Attempts
  PROVE  DOMAIN tried \subseteq Peer /\ \A p \in DOMAIN tried : tried[p] \in Outcome
  BY DEF Attempts

\* The fields of a request
LEMMA RequestFields ==
  ASSUME NEW r \in RequestRecord
  PROVE  /\ r # None
         /\ r.id \in 1 .. MaxRequests /\ r.kind \in Kind /\ r.waiting \in Peer \cup {None}
         /\ r.offer # None => r.offer \in [id : 0 .. MaxRequests, from : Peer, fromId : Peer]
         /\ r.tried \in Attempts /\ DOMAIN r.tried \subseteq Peer
         /\ r.acksDue \subseteq Peer /\ r.throughout \subseteq Peer
<1>1. r # None
  BY DEF RequestRecord, None
<1> QED
  BY <1>1, AttemptsOfPeers DEF RequestRecord

-----------------------------------------------------------------------------
(***************************************************************************)
(* What is kept by the steps that start nothing: no message is sent but    *)
(* acknowledgements, and sessions go on or wind down.                      *)
(***************************************************************************)

WindsDown(s, t) ==
  \/ t = s
  \/ /\ s.state # "none" /\ t.state \notin {"sent", "offered"}
     /\ t.state = "streaming" => s.state \in {"offered", "streaming"}

Quieter ==
  /\ count' = count
  /\ \A m \in net' : m.type = "reply" => m \in net
  /\ unwiring' \subseteq unwiring
  /\ \A p \in Peer, id \in 1 .. MaxRequests : WindsDown(session[p][id], session'[p][id])

\* A request or a consumer is of the time of the last request.
LEMMA Counted ==
  ASSUME Typed, Current
  PROVE  /\ count \in Nat
         /\ req # None => req \in RequestRecord /\ count \in 1 .. MaxRequests
         /\ consumer # None => consumer.from \in Peer /\ count \in 1 .. MaxRequests
<1>0. MaxRequests \in Nat
  BY RemotesAssumption
<1>1. ASSUME consumer # None
      PROVE  consumer.id \in 1 .. MaxRequests /\ consumer.from \in Peer
  <2>1. PICK kind \in Kind : consumer \in ConsumerOf(kind)
    BY <1>1 DEF Typed
  <2> QED
    BY <2>1 DEF ConsumerOf
<1>2. req # None => req \in RequestRecord /\ req.id \in 1 .. MaxRequests
  BY RequestFields DEF Typed
<1>3. count \in Nat
  <2>1. count \in 0 .. MaxRequests
    BY DEF Typed
  <2> QED
    BY <1>0, <2>1
<1> QED
  BY <1>1, <1>2, <1>3 DEF Current

\* Of the mail that there is, none is more than there was.
LEMMA MailKept ==
  ASSUME Quieter, NEW p \in Peer, NEW id \in 0 .. MaxRequests
  PROVE  /\ NoMail(p, id) => NoMail(p, id)'
         /\ Sole(p, id) => Sole(p, id)'
  BY DEF Quieter, NoMail, Sole, IsReply

\* A session that is busy was.
LEMMA BusyKept ==
  ASSUME Quieter, NEW p \in Peer, NEW id \in 1 .. MaxRequests
  PROVE  /\ Busy(p, id)' => Busy(p, id)
         /\ StateOf(p, id)' \in {"sent", "offered"} => session'[p][id] = session[p][id]
         /\ StateOf(p, id) = "none" => StateOf(p, id)' = "none"
         /\ StateOf(p, id)' = "streaming" => StateOf(p, id) \in {"offered", "streaming"}
<1>1. WindsDown(session[p][id], session'[p][id])
  BY DEF Quieter
<1> QED
  BY <1>1 DEF WindsDown, Busy, StateOf

\* What peers were told stays true, and who was asked was.
LEMMA ConversationsKept ==
  ASSUME Typed, Current, Conversations, Quieter,
         req' # None => req # None /\ req'.kind = req.kind /\ Asked \subseteq Asked',
         consumer' # None => \/ consumer # None /\ consumer'.kind = consumer.kind
                             \/ req # None /\ consumer'.kind = req.kind
  PROVE  Conversations'
<1>1. count' = count /\ (req # None \/ consumer # None => count \in 1 .. MaxRequests)
  BY Counted DEF Quieter
<1>2. ASSUME NEW p \in Peer
      PROVE  Conversation(p)'
  <2>0. Conversation(p)
    BY DEF Conversations
  <2>1. \A id \in 0 .. MaxRequests : Sole(p, id)'
    BY <2>0, MailKept DEF Conversation
  <2>2. ASSUME NEW id \in 1 .. MaxRequests, StateOf(p, id)' = "sent"
        PROVE  NoMail(p, id)'
    <3>1. StateOf(p, id) = "sent" /\ id \in 0 .. MaxRequests
      BY <2>2, BusyKept DEF StateOf
    <3> QED
      BY <3>1, <2>0, MailKept DEF Conversation
  <2>3. ASSUME req' # None, p \notin Asked'
        PROVE  StateOf(p, count)' = "none" /\ NoMail(p, count)'
    <3>1. req # None /\ p \notin Asked /\ count \in 1 .. MaxRequests /\ count \in 0 .. MaxRequests
      BY <1>1, <2>3
    <3>2. StateOf(p, count) = "none" /\ NoMail(p, count)
      BY <2>0, <3>1 DEF Conversation
    <3>3. NoMail(p, count)'
      BY <1>1, <3>1, <3>2, MailKept DEF NoMail
    <3>4. StateOf(p, count)' = "none"
      BY <1>1, <3>1, <3>2, BusyKept DEF StateOf
    <3> QED
      BY <3>3, <3>4
  <2>4. ASSUME req' # None \/ consumer' # None, StateOf(p, count)' \in {"sent", "offered"}
        PROVE  /\ session'[p][count] = session[p][count]
               /\ StateOf(p, count) \in {"sent", "offered"}
    <3>1. count \in 1 .. MaxRequests
      BY <1>1, <2>4
    <3> QED
      BY <1>1, <2>4, <3>1, BusyKept DEF StateOf
  <2>5. req' # None /\ StateOf(p, count)' \in {"sent", "offered"} =>
          session'[p][count].kind = req'.kind
    BY <2>0, <2>4 DEF Conversation
  <2>6. consumer' # None /\ StateOf(p, count)' \in {"sent", "offered"} =>
          session'[p][count].kind = consumer'.kind
    BY <2>0, <2>4 DEF Conversation
  <2> QED
    BY <1>1, <2>1, <2>2, <2>3, <2>5, <2>6 DEF Conversation
<1>3. ASSUME NEW m, Told(m), m \in ReplyMessage
      PROVE  Told(m)'
  <2>1. m.from \in Peer /\ (m.id > 0 => m.id \in 1 .. MaxRequests)
    BY <1>3, RemotesAssumption DEF ReplyMessage
  <2> QED
    BY <1>3, <2>1, BusyKept DEF Told
<1>4. \A m \in net' : Told(m)'
  <2> SUFFICES ASSUME NEW m \in net', m.type = "reply"
               PROVE  Told(m)'
    BY DEF Told
  <2>1. m \in net /\ Told(m)
    BY DEF Quieter, Conversations
  <2>2. m \in ReplyMessage
    BY <2>1 DEF Typed, AckMessage
  <2> QED
    BY <1>3, <2>1, <2>2
<1>5. \A u \in unwiring' : Told(u.m)'
  <2> SUFFICES ASSUME NEW u \in unwiring'
               PROVE  Told(u.m)'
    OBVIOUS
  <2>1. u \in unwiring /\ Told(u.m) /\ u.m \in ReplyMessage
    BY DEF Quieter, Conversations, Typed
  <2> QED
    BY <1>3, <2>1
<1> QED
  BY <1>2, <1>4, <1>5 DEF Conversations

\* While a request waits for one peer, no other is busy with it in time; and when it
\* ends no more than one is.
LEMMA OneByOneKept ==
  ASSUME Typed, Current, OneByOne, Quieter,
         req' # None /\ InTime(req'.tried) =>
           /\ req # None /\ InTime(req.tried)
           /\ req'.waiting = req.waiting /\ req'.offer = req.offer,
         last' # None /\ InTime(last'.tried) =>
           \/ last # None /\ InTime(last.tried)
           \/ req # None /\ InTime(req.tried)
  PROVE  OneByOne'
<1> SUFFICES ASSUME req # None \/ last # None
             PROVE  OneByOne'
  BY DEF OneByOne
<1>0. count \in 1 .. MaxRequests
  <2>1. count \in 0 .. MaxRequests /\ MaxRequests \in Nat
    BY RemotesAssumption DEF Typed
  <2>2. last # None => count > 0
    BY DEF Current
  <2>3. req # None => count \in 1 .. MaxRequests
    BY Counted
  <2> QED
    BY <2>1, <2>2, <2>3
<1>1. count' = count /\ count \in 0 .. MaxRequests
  BY <1>0 DEF Quieter
<1>2. \A p \in Peer : Busy(p, count)' => Busy(p, count)
  BY <1>0, <1>1, BusyKept DEF Busy, StateOf
<1>3. ASSUME req' # None, InTime(req'.tried), NEW p \in Peer
      PROVE  /\ Busy(p, count)' => p = req'.waiting \/ (req'.offer # None /\ p = req'.offer.from)
             /\ StateOf(p, count)' = "sent" => p = req'.waiting
             /\ p # req'.waiting => NoMail(p, count)'
  <2>1. p # req.waiting => NoMail(p, count)
    BY <1>3 DEF OneByOne
  <2>2. p # req.waiting => NoMail(p, count)'
    BY <1>1, <2>1, MailKept DEF NoMail
  <2>3. StateOf(p, count)' = "sent" => StateOf(p, count) = "sent"
    BY <1>0, <1>1, BusyKept DEF StateOf
  <2> QED
    BY <1>2, <1>3, <2>2, <2>3 DEF OneByOne
<1>4. ASSUME last' # None, InTime(last'.tried), NEW p \in Peer, NEW q \in Peer,
             Busy(p, count)', Busy(q, count)'
      PROVE  p = q
  <2>1. Busy(p, count) /\ Busy(q, count)
    BY <1>2, <1>4
  <2>2. CASE last # None /\ InTime(last.tried)
    BY <2>1, <2>2 DEF OneByOne
  <2>3. CASE req # None /\ InTime(req.tried)
    <3>1. /\ p = req.waiting \/ (req.offer # None /\ p = req.offer.from)
          /\ q = req.waiting \/ (req.offer # None /\ q = req.offer.from)
      BY <2>1, <2>3 DEF OneByOne
    <3>2. req.offer # None => req.waiting = None
      BY <2>3 DEF Current
    <3> QED
      BY <3>1, <3>2, RemotesAssumption
  <2> QED
    BY <1>4, <2>2, <2>3
<1> QED
  BY <1>3, <1>4 DEF OneByOne

\* Messages and sessions are still of requests that were made.
LEMMA TimelyKept ==
  ASSUME Typed, Timely, Quieter, \A m \in net' : m \in net \/ m.id <= count
  PROVE  Timely'
<1>1. \A m \in net' : m.id <= count'
  BY DEF Quieter, Timely
<1>2. \A u \in unwiring' : u.m.id = u.id /\ u.id <= count'
  BY DEF Quieter, Timely
<1>3. ASSUME NEW p \in Peer, NEW id \in 1 .. MaxRequests, id > count
      PROVE  session'[p][id] = NoSession
  <2>1. session[p][id].state = "none"
    BY <1>3 DEF Timely, NoSession
  <2> QED
    BY <1>3, <2>1 DEF Quieter, WindsDown, Timely
<1> QED
  BY <1>1, <1>2, <1>3 DEF Timely, Quieter

\* Nobody streams yet.
LEMMA QuietKept ==
  ASSUME Quiet, Quieter, req' # None => req # None,
         \A m \in net' : req' # None /\ m.type = "ack" => m \in net,
         \A p \in Peer : req' # None /\ session'[p][count].state = "streaming" =>
           session[p][count].state = "streaming"
  PROVE  Quiet'
  BY DEF Quiet, Quieter, StateOf

\* A session begins to stream with all that there is.
Onward(s, t) ==
  \/ t = s
  \/ t.state \notin {"sent", "offered", "streaming"}
  \/ s.state = "sent" /\ t.state = "offered"
  \/ /\ s.state = "offered" /\ t.state = "streaming"
     /\ \A ch \in DOMAIN t.left : t.left[ch] = MaxItems

\* What is consumed and what is left are still the whole, if nothing is notified.
LEMMA ConsumedKept ==
  ASSUME Typed, Current, Consumed, consumer' = consumer, count' = count,
         consumer # None =>
           \A p \in Peer : Onward(session[p][count], session'[p][count])
  PROVE  Consumed'
<1> SUFFICES ASSUME consumer # None, NEW ch \in Channels(consumer.kind)
             PROVE  Whole(ch)'
  BY DEF Consumed
<1> DEFINE s == session[consumer.from][count]
           t == session'[consumer.from][count]
<1>1. Onward(s, t)
  BY Counted
<1>2. Whole(ch) /\ 0 + MaxItems = MaxItems
  BY RemotesAssumption DEF Consumed
<1> QED
  BY <1>1, <1>2 DEF Whole, Onward, StateOf

\* The invariant is kept by a step that is quiet, if it leaves the request, the
\* consumer and those that were asked what they were, or ends the request.
LEMMA Kept ==
  ASSUME IInv, Quieter, Typed', Current', Listed', Consumed',
         req' # None => req # None /\ req'.kind = req.kind /\ Asked \subseteq Asked',
         consumer' # None => \/ consumer # None /\ consumer'.kind = consumer.kind
                             \/ req # None /\ consumer'.kind = req.kind,
         \A m \in net' : m \in net \/ (m.type = "ack" /\ m.id <= count /\ req' = None),
         req' # None /\ InTime(req'.tried) =>
           /\ InTime(req.tried) /\ req'.waiting = req.waiting /\ req'.offer = req.offer,
         last' # None /\ InTime(last'.tried) =>
           \/ last # None /\ InTime(last.tried)
           \/ req # None /\ InTime(req.tried),
         \A p \in Peer : req' # None /\ session'[p][count].state = "streaming" =>
           session[p][count].state = "streaming"
  PROVE  IInv'
<1>1. Typed /\ Current /\ Timely /\ Conversations /\ Quiet /\ OneByOne
  BY DEF IInv
<1>2. Timely'
  BY <1>1, TimelyKept
<1>3. Conversations'
  BY <1>1, ConversationsKept
<1>4. Quiet'
  BY <1>1, QuietKept
<1>5. OneByOne'
  BY <1>1, OneByOneKept
<1> QED
  BY <1>2, <1>3, <1>4, <1>5 DEF IInv

\* A session that is changed winds down.
LEMMA Winds ==
  ASSUME Typed, NEW p \in Peer, NEW id \in 1 .. MaxRequests, NEW s \in Session,
         session' = [session EXCEPT ![p][id] = s], WindsDown(session[p][id], s)
  PROVE  \A q \in Peer, k \in 1 .. MaxRequests : WindsDown(session[q][k], session'[q][k])
<1>1. session \in [Peer -> [1 .. MaxRequests -> Session]]
  BY DEF Typed
<1>2. /\ session'[p][id] = s
      /\ \A q \in Peer, k \in 1 .. MaxRequests : q # p \/ k # id => session'[q][k] = session[q][k]
  BY <1>1, SessionSet, ZenonT(60)
<1>3. ASSUME NEW q \in Peer, NEW k \in 1 .. MaxRequests
      PROVE  WindsDown(session[q][k], session'[q][k])
  <2>1. CASE q = p /\ k = id
    BY <1>2, <2>1
  <2>2. CASE q # p \/ k # id
    BY <1>2, <2>2 DEF WindsDown
  <2> QED
    BY <2>1, <2>2
<1> QED
  BY <1>3

\* A request that ends
LEMMA Ended ==
  ASSUME req \in RequestRecord, NEW result \in Outcome \cup {"not sent", "no visible clones"},
         End(result)
  PROVE  /\ req' = None
         /\ last' \in [kind : Kind, result : Outcome \cup {"not sent", "no visible clones"},
                       tried : Attempts, throughout : SUBSET Peer]
         /\ last'.tried = req.tried /\ last'.result = result
         /\ last'.kind = req.kind /\ last'.throughout = req.throughout
  BY RequestFields DEF End

\* A request whose attempt has an outcome
LEMMA AttemptEnds ==
  ASSUME req \in RequestRecord, req.waiting \in Peer, req.waiting \notin DOMAIN req.tried,
         NEW res \in Outcome,
         req' = [req EXCEPT !.tried = Tried(req.waiting, res), !.waiting = None]
  PROVE  /\ req' \in RequestRecord
         /\ req'.id = req.id /\ req'.kind = req.kind /\ req'.offer = req.offer
         /\ req'.throughout = req.throughout
         /\ req'.waiting = None /\ req'.tried = Tried(req.waiting, res)
         /\ Asked' = Asked
         /\ InTime(req'.tried) <=> InTime(req.tried) /\ res # "timeout"
         /\ req'.waiting \notin DOMAIN req'.tried
<1>1. Tried(req.waiting, res) \in Attempts
  BY TriedProperties
<1>2. DOMAIN Tried(req.waiting, res) = DOMAIN req.tried \cup {req.waiting}
  BY TriedProperties
<1>3. InTime(Tried(req.waiting, res)) <=> InTime(req.tried) /\ res # "timeout"
  BY TriedInTime
<1> DEFINE t == Tried(req.waiting, res)
<1> HIDE DEF t
<1>4. [req EXCEPT !.tried = t] \in RequestRecord
  BY <1>1 DEF RequestRecord, t
<1>5. [[req EXCEPT !.tried = t] EXCEPT !.waiting = None] \in RequestRecord
  BY <1>4 DEF RequestRecord
<1>6. req' = [[req EXCEPT !.tried = t] EXCEPT !.waiting = None]
  BY DEF t
<1>7. /\ req' \in RequestRecord
      /\ req'.id = req.id /\ req'.kind = req.kind /\ req'.offer = req.offer
      /\ req'.throughout = req.throughout /\ req'.waiting = None /\ req'.tried = t
  BY <1>4, <1>5, <1>6 DEF RequestRecord
<1>8. DOMAIN req.tried \subseteq Peer
  BY RequestFields
<1>9. Asked' = Asked /\ req'.waiting \notin DOMAIN req'.tried
  BY <1>2, <1>7, <1>8, RemotesAssumption DEF Asked, t
<1> QED
  BY <1>3, <1>7, <1>9 DEF t

-----------------------------------------------------------------------------
(***************************************************************************)
(* The steps keep the invariant: those of the clone that asks              *)
(***************************************************************************)

\* TimeOut puts down what it waited for as an attempt.
LEMMA TimeOutSound ==
  ASSUME IInv, TimeOut
  PROVE  IInv'
<1>1. Typed /\ Current /\ Listed /\ Consumed
  BY DEF IInv
<1>2. req \in RequestRecord /\ req.waiting \in Peer /\ req.waiting \notin DOMAIN req.tried
  BY <1>1, RequestFields DEF Typed, Current, TimeOut
<1>3. "timeout" \in Outcome
  BY DEF Outcome
<1>4. /\ req' \in RequestRecord
      /\ req'.id = req.id /\ req'.kind = req.kind /\ req'.offer = req.offer
      /\ req'.waiting = None
      /\ Asked' = Asked
      /\ ~InTime(req'.tried)
      /\ req'.waiting \notin DOMAIN req'.tried
  BY <1>2, <1>3, AttemptEnds DEF TimeOut
<1>5. Typed'
  BY <1>1, <1>4 DEF Typed, TimeOut, peers
<1>6. Current'
  BY <1>1, <1>2, <1>4 DEF Current, TimeOut
<1>7. Listed' /\ Consumed'
  BY <1>1 DEF Listed, Consumed, Whole, StateOf, TimeOut, peers
<1>8. Quieter
  BY DEF Quieter, WindsDown, TimeOut
<1> QED
  BY <1>4, <1>5, <1>6, <1>7, <1>8, Kept DEF TimeOut

\* PublishFails ends the request, and its peer has not heard of it.
LEMMA PublishFailsSound ==
  ASSUME IInv, PublishFails
  PROVE  IInv'
<1>1. Typed /\ Current /\ Listed /\ Consumed
  BY DEF IInv
<1>2. /\ req \in RequestRecord /\ req.waiting \in Peer
      /\ req.id = count /\ count \in 1 .. MaxRequests
  BY <1>1, RequestFields, Counted DEF Typed, Current, PublishFails
<1>3. /\ req' = None
      /\ last' \in [kind : Kind, result : Outcome \cup {"not sent", "no visible clones"},
                    tried : Attempts, throughout : SUBSET Peer]
      /\ last'.tried = req.tried
  BY <1>2, Ended DEF PublishFails
<1>4. session' = [session EXCEPT ![req.waiting][count] = NoSession]
  BY <1>2 DEF PublishFails
<1>5. NoSession \in Session /\ WindsDown(session[req.waiting][count], NoSession)
  BY <1>2 DEF Session, WindsDown, NoSession, PublishFails
<1>6. /\ session' \in [Peer -> [1 .. MaxRequests -> Session]]
      /\ Quieter
  <2>1. \A q \in Peer, k \in 1 .. MaxRequests : WindsDown(session[q][k], session'[q][k])
    BY <1>1, <1>2, <1>4, <1>5, Winds
  <2>2. session' \in [Peer -> [1 .. MaxRequests -> Session]]
    BY <1>1, <1>2, <1>4, <1>5, SessionSet DEF Typed
  <2> QED
    BY <2>1, <2>2 DEF Quieter, PublishFails
<1>7. Typed'
  BY <1>1, <1>3, <1>6 DEF Typed, PublishFails, peers
<1>8. count \in Nat /\ count > 0
  BY <1>2, RemotesAssumption
<1>9. Current'
  BY <1>1, <1>2, <1>3, <1>8 DEF Current, PublishFails
<1>10. Listed' /\ Consumed'
  BY <1>1, <1>2, <1>3 DEF Current, Listed, Consumed, PublishFails, peers
<1> QED
  BY <1>2, <1>3, <1>6, <1>7, <1>9, <1>10, Kept DEF PublishFails

\* Subscribe has its consumer before anything is streamed.
LEMMA SubscribeSound ==
  ASSUME IInv, Subscribe
  PROVE  IInv'
<1>1. Typed /\ Current /\ Listed /\ Quiet
  BY DEF IInv
<1>2. /\ req # None /\ req \in RequestRecord /\ req.offer # None
      /\ req.id = count /\ count \in 1 .. MaxRequests
      /\ req.kind \in Kind /\ req.offer.from \in Peer /\ req.acksDue \subseteq Peer
  BY <1>1, RequestFields, Counted DEF Typed, Current, Subscribe
<1>3. /\ req' = None
      /\ last' \in [kind : Kind, result : Outcome \cup {"not sent", "no visible clones"},
                    tried : Attempts, throughout : SUBSET Peer]
      /\ last'.tried = req.tried
  BY <1>2, Ended DEF Subscribe, Outcome
<1>4. consumer' \in ConsumerOf(req.kind)
  <2>1. MaxItems \in Nat
    BY RemotesAssumption
  <2> QED
    BY <1>2, <2>1 DEF ConsumerOf, Subscribe
<1>5. /\ consumer'.from = req.offer.from /\ consumer'.id = count /\ consumer'.kind = req.kind
      /\ \A ch \in Channels(req.kind) : consumer'.got[ch] = 0 /\ consumer'.ended[ch] = "no"
  BY <1>2 DEF Subscribe
<1>6. \A m \in net' : m \in net \/ (m \in AckMessage /\ m.type = "ack" /\ m.id = count)
  BY <1>2 DEF Subscribe, Ack, AckMessage
<1>7. Typed'
  BY <1>1, <1>2, <1>3, <1>4, <1>6 DEF Typed, Subscribe, peers
<1>0. count \in Nat /\ count > 0 /\ count <= count
  BY <1>2, RemotesAssumption
<1>8. Current'
  BY <1>0, <1>1, <1>2, <1>3, <1>5 DEF Current, Subscribe
<1>9. Consumed'
  BY <1>1, <1>2, <1>5 DEF Consumed, Whole, Quiet, StateOf, Subscribe
<1>10. Listed'
  BY <1>1 DEF Listed, Subscribe, peers
<1>11. Quieter
  BY <1>6 DEF Quieter, WindsDown, Subscribe
<1>12. \A m \in net' : m \in net \/ (m.type = "ack" /\ m.id <= count /\ req' = None)
  BY <1>0, <1>2, <1>3, <1>6
<1> QED
  BY <1>2, <1>3, <1>5, <1>7, <1>8, <1>9, <1>10, <1>11, <1>12, Kept DEF Subscribe

\* Drop takes a reply that nobody waits for.
LEMMA DropSound ==
  ASSUME IInv, NEW m \in net, Drop(m)
  PROVE  IInv'
<1>1. Typed /\ Current /\ Listed /\ Consumed
  BY DEF IInv
<1>2. Typed' /\ Listed' /\ Consumed' /\ Current' /\ Asked' = Asked
  BY <1>1 DEF Typed, Listed, Consumed, Whole, StateOf, Current, Asked, Drop, peers
<1>3. Quieter
  BY DEF Quieter, WindsDown, Drop
<1> QED
  BY <1>2, <1>3, Kept DEF Drop

\* Slow gives up a channel.
LEMMA SlowSound ==
  ASSUME IInv, NEW ch \in {"data", "updates"}, Slow(ch)
  PROVE  IInv'
<1>1. Typed /\ Current /\ Listed /\ Consumed
  BY DEF IInv
<1>2. PICK kind \in Kind : consumer \in ConsumerOf(kind)
  BY <1>1 DEF Typed, Slow
<1>3. /\ consumer' \in ConsumerOf(kind)
      /\ consumer'.from = consumer.from /\ consumer'.id = consumer.id
      /\ consumer'.kind = consumer.kind /\ consumer'.got = consumer.got
      /\ ch \in Channels(kind) /\ consumer.kind = kind
      /\ consumer'.ended = [consumer.ended EXCEPT ![ch] = "slow"]
  BY <1>2 DEF Slow, ConsumerOf
<1>4. Typed'
  BY <1>1, <1>3 DEF Typed, Slow, peers
<1>5. Current' /\ Listed' /\ Asked' = Asked
  BY <1>1, <1>3 DEF Current, Listed, Asked, Slow, peers
<1>6. Consumed'
  <2> SUFFICES ASSUME NEW k \in Channels(kind)
               PROVE  Whole(k)'
    BY <1>3 DEF Consumed
  <2>1. consumer'.ended[k] = IF k = ch THEN "slow" ELSE consumer.ended[k]
    BY <1>2, <1>3 DEF ConsumerOf
  <2>2. Whole(k)
    BY <1>1, <1>3 DEF Consumed, Slow
  <2> QED
    BY <1>3, <2>1, <2>2 DEF Whole, StateOf, Slow
<1>7. Quieter
  BY DEF Quieter, WindsDown, Slow
<1> QED
  BY <1>3, <1>4, <1>5, <1>6, <1>7, Kept DEF Slow

\* There is a first place of any.
LEMMA MinIsFirst ==
  ASSUME NEW S \in SUBSET Nat, S # {}
  PROVE  Min(S) \in S /\ \A n \in S : Min(S) <= n
<1>1. PICK m \in S : \A n \in S : <<n, m>> \notin OpToRel(<, Nat)
  BY NatLessThanWellFounded, WFMin
<1>2. \A n \in S : ~(n < m)
  BY <1>1 DEF OpToRel
<1>3. \A n \in S : m <= n
  BY <1>2
<1>4. \E x \in S : \A y \in S : x =< y
  BY <1>3
<1> QED
  BY <1>4 DEF Min

\* The peer that is next, if there is any, is the first that has not been sent to.
Sent == IF Range(present) \subseteq recent THEN {} ELSE recent

IsNext(i) ==
  /\ i \in DOMAIN present /\ present[i] \notin Sent
  /\ \A j \in DOMAIN present : j < i => present[j] \in Sent

\* An attempt is made with a peer that has not been asked.
Attempt(p) ==
  /\ ~HasTried(p)
  /\ req' = [req EXCEPT !.waiting = p]
  /\ session' = [session EXCEPT ![p][req.id] = [state |-> "sent", kind |-> req.kind]]
  /\ UNCHANGED last

\* Ask ends the request, or makes an attempt with a peer that has not been asked.
LEMMA AskCases ==
  ASSUME Typed, Ask
  PROVE  \/ End("no visible clones") /\ UNCHANGED session /\ recent' = Sent
         \/ \E i \in DOMAIN present :
              /\ IsNext(i) /\ recent' = Sent \cup {present[i]}
              /\ \/ HasTried(present[i]) /\ End(req.tried[present[i]]) /\ UNCHANGED session
                 \/ Attempt(present[i])
<1> DEFINE next == Candidates(Sent)
           i == Min(next)
<1>1. CASE next = {}
  BY <1>1 DEF Ask, Sent
<1>2. CASE next # {}
  <2>0. DOMAIN present = 1 .. Len(present) /\ Len(present) \in Nat
    <3>1. present \in Seq(Peer)
      BY DEF Typed
    <3> QED
      BY <3>1, LenProperties
  <2>1. next \in SUBSET Nat
    BY <2>0 DEF Candidates
  <2>2. i \in next /\ \A n \in next : i <= n
    <3> HIDE DEF next
    <3> QED
      BY <1>2, <2>1, MinIsFirst
  <2>3. IsNext(i)
    <3> HIDE DEF i
    <3>1. i \in DOMAIN present /\ present[i] \notin Sent
      BY <2>2 DEF Candidates
    <3>2. ASSUME NEW j \in DOMAIN present, j < i
          PROVE  present[j] \in Sent
      BY <2>0, <2>2, <3>1, <3>2 DEF Candidates
    <3> QED
      BY <3>1, <3>2 DEF IsNext
  <2>4. recent' = Sent \cup {present[i]}
    BY <1>2 DEF Ask, Sent
  <2>5. \/ HasTried(present[i]) /\ End(req.tried[present[i]]) /\ UNCHANGED session
        \/ Attempt(present[i])
    BY <1>2 DEF Ask, Sent, Attempt
  <2> QED
    BY <2>3, <2>4, <2>5 DEF IsNext
<1> QED
  BY <1>1, <1>2

\* Ask asks a peer once, which is then waited for.
LEMMA AttemptSound ==
  ASSUME IInv, req # None, req.waiting = None, req.offer = None, NEW p \in Peer, Attempt(p),
         UNCHANGED <<peers, count, net, unwiring, consumer>>, recent' \subseteq Peer
  PROVE  IInv'
<1>1. Typed /\ Current /\ Listed /\ Timely /\ Conversations /\ Quiet /\ Consumed /\ OneByOne
  BY DEF IInv
<1>2. /\ req \in RequestRecord /\ count \in 1 .. MaxRequests /\ req.id = count
      /\ req.kind \in Kind /\ consumer = None /\ last = None
      /\ count \in Nat /\ count > 0 /\ count <= count
  BY <1>1, RequestFields, Counted, RemotesAssumption DEF Current
<1>3. /\ req' \in RequestRecord
      /\ req'.id = count /\ req'.kind = req.kind /\ req'.offer = None
      /\ req'.tried = req.tried /\ req'.waiting = p
  BY <1>2 DEF RequestRecord, Attempt
<1>4. p \notin Asked /\ Asked' = Asked \cup {p}
  BY <1>3, RemotesAssumption DEF Asked, Attempt, HasTried
<1> DEFINE s == [state |-> "sent", kind |-> req.kind]
<1>5. s \in Session /\ s.state = "sent" /\ s.kind = req.kind
  BY <1>2 DEF Session
<1>6. session' = [session EXCEPT ![p][count] = s]
  BY <1>2 DEF Attempt
<1> HIDE DEF s
<1>7. /\ session' \in [Peer -> [1 .. MaxRequests -> Session]]
      /\ session'[p][count] = s
      /\ \A q \in Peer, k \in 1 .. MaxRequests : q # p \/ k # count => session'[q][k] = session[q][k]
  <2>1. session \in [Peer -> [1 .. MaxRequests -> Session]]
    BY <1>1 DEF Typed
  <2>2. count \in 1 .. MaxRequests
    BY <1>2
  <2>3. s \in Session
    BY <1>5
  <2> QED
    BY <1>6, <2>1, <2>2, <2>3, SessionSet, ZenonT(60)
<1>8. Typed'
  BY <1>1, <1>3, <1>7 DEF Typed, Attempt, peers
<1>9. Current' /\ Listed' /\ Consumed'
  BY <1>1, <1>2, <1>3 DEF Current, Listed, Consumed, Attempt, HasTried, peers
<1>10. Timely'
  BY <1>1, <1>2, <1>7 DEF Timely
<1>11. NoMail(p, count)
  BY <1>1, <1>2, <1>4 DEF Conversations, Conversation
<1>12. \A q \in Peer, id \in 0 .. MaxRequests : (NoMail(q, id)' <=> NoMail(q, id)) /\ (Sole(q, id)' <=> Sole(q, id))
  BY DEF NoMail, Sole, IsReply
<1>13. ASSUME NEW q \in Peer
       PROVE  Conversation(q)'
  <2>1. Conversation(q)
    BY <1>1 DEF Conversations
  <2>2. ASSUME NEW id \in 1 .. MaxRequests, StateOf(q, id)' = "sent"
        PROVE  NoMail(q, id)'
    <3>1. id \in 0 .. MaxRequests
      OBVIOUS
    <3>2. CASE q = p /\ id = count
      BY <1>11, <1>12, <3>1, <3>2
    <3>3. CASE q # p \/ id # count
      BY <1>7, <1>12, <2>1, <2>2, <3>1, <3>3 DEF Conversation, StateOf
    <3> QED
      BY <3>2, <3>3
  <2>3. ASSUME q \notin Asked'
        PROVE  StateOf(q, count)' = "none" /\ NoMail(q, count)'
    <3>1. q # p /\ q \notin Asked /\ count \in 0 .. MaxRequests
      BY <1>2, <1>4, <2>3
    <3>2. StateOf(q, count) = "none" /\ NoMail(q, count)
      BY <1>2, <2>1, <3>1 DEF Conversation
    <3>3. count' = count
      OBVIOUS
    <3> QED
      BY <1>2, <1>7, <3>1, <3>2, <3>3 DEF StateOf, NoMail, IsReply
  <2>4. StateOf(q, count)' \in {"sent", "offered"} => session'[q][count].kind = req'.kind
    BY <1>2, <1>3, <1>5, <1>7, <2>1 DEF Conversation, StateOf
  <2> QED
    BY <1>2, <1>12, <2>1, <2>2, <2>3, <2>4 DEF Conversation
<1>14. ASSUME NEW m \in ReplyMessage, Told(m), ~IsReply(m, p, count)
       PROVE  Told(m)'
  <2>1. m.from \in Peer /\ m.type = "reply" /\ (m.id > 0 => m.id \in 1 .. MaxRequests)
    BY RemotesAssumption DEF ReplyMessage
  <2>2. m.id > 0 => session'[m.from][m.id] = session[m.from][m.id]
    BY <1>7, <1>14, <2>1 DEF IsReply
  <2> QED
    BY <1>14, <2>2 DEF Told, Busy, StateOf
<1>15. Conversations'
  <2>1. \A m \in net : Told(m)'
    <3> SUFFICES ASSUME NEW m \in net, m.type = "reply"
                 PROVE  Told(m)'
      BY DEF Told
    <3>1. m \in ReplyMessage
      BY <1>1 DEF Typed, AckMessage
    <3> QED
      BY <1>1, <1>11, <1>14, <3>1 DEF Conversations, NoMail
  <2>2. \A u \in unwiring : Told(u.m)'
    BY <1>1, <1>11, <1>14 DEF Conversations, NoMail, Typed
  <2> QED
    BY <1>13, <2>1, <2>2 DEF Conversations
<1>16. Quiet'
  BY <1>1, <1>2, <1>5, <1>7 DEF Quiet, StateOf
<1>17. OneByOne'
  <2>1. ASSUME InTime(req.tried), NEW q \in Peer
        PROVE  /\ Busy(q, count)' => q = p
               /\ StateOf(q, count)' = "sent" => q = p
               /\ NoMail(q, count)
    <3>1. /\ Busy(q, count) => q = req.waiting
          /\ q # req.waiting => NoMail(q, count)
      BY <1>1, <2>1 DEF OneByOne
    <3>2. ~Busy(q, count) /\ NoMail(q, count)
      BY <3>1, RemotesAssumption
    <3> QED
      BY <1>2, <1>7, <3>2 DEF Busy, StateOf
  <2>2. \A q \in Peer : NoMail(q, count)' <=> NoMail(q, count)
    BY DEF NoMail, IsReply
  <2>3. last' = None
    BY <1>2 DEF Attempt
  <2> QED
    BY <1>3, <2>1, <2>2, <2>3 DEF OneByOne
<1> QED
  BY <1>8, <1>9, <1>10, <1>15, <1>16, <1>17 DEF IInv

\* Ask makes the next attempt, or ends the request.
LEMMA AskSound ==
  ASSUME IInv, Ask
  PROVE  IInv'
<1>1. Typed /\ Current /\ Listed /\ Consumed
  BY DEF IInv
<1>2. /\ req # None /\ req \in RequestRecord /\ req.waiting = None /\ req.offer = None
      /\ count \in Nat /\ count > 0 /\ consumer = None
  <2>1. req # None /\ req.waiting = None /\ req.offer = None /\ consumer = None
    BY <1>1 DEF Ask, Current
  <2>2. req \in RequestRecord /\ count \in 1 .. MaxRequests
    BY <1>1, <2>1, Counted
  <2> QED
    BY <2>1, <2>2, RemotesAssumption
<1>3. /\ UNCHANGED <<peers, count, net, unwiring, consumer>>
      /\ recent' \subseteq Peer
  <2>1. Sent \subseteq Peer /\ \A i \in DOMAIN present : present[i] \in Peer
    BY <1>1, ElementOfSeq, LenProperties, ZenonT(60) DEF Typed, Sent
  <2> QED
    BY <1>1, <2>1, AskCases DEF Ask
<1>4. ASSUME NEW result \in Outcome \cup {"not sent", "no visible clones"},
             End(result), UNCHANGED session
      PROVE  IInv'
  <2>1. /\ req' = None
        /\ last' \in [kind : Kind, result : Outcome \cup {"not sent", "no visible clones"},
                      tried : Attempts, throughout : SUBSET Peer]
        /\ last'.tried = req.tried
    BY <1>2, <1>4, Ended
  <2>2. Typed'
    BY <1>1, <1>3, <1>4, <2>1 DEF Typed, peers
  <2>3. Current' /\ Listed' /\ Consumed'
    BY <1>1, <1>2, <1>3, <2>1 DEF Current, Listed, Consumed, peers
  <2>4. Quieter
    BY <1>3, <1>4 DEF Quieter, WindsDown
  <2> QED
    BY <1>2, <1>3, <1>4, <2>1, <2>2, <2>3, <2>4, Kept
<1>5. CASE End("no visible clones") /\ UNCHANGED session
  BY <1>4, <1>5
<1>6. ASSUME NEW i \in DOMAIN present, HasTried(present[i]),
             End(req.tried[present[i]]), UNCHANGED session
      PROVE  IInv'
  <2>1. req.tried[present[i]] \in Outcome
    BY <1>2, <1>6, RequestFields, AttemptsOfPeers DEF HasTried
  <2> QED
    BY <1>4, <1>6, <2>1
<1>7. ASSUME NEW i \in DOMAIN present, Attempt(present[i])
      PROVE  IInv'
  <2>1. present[i] \in Peer
    BY <1>1, ElementOfSeq, LenProperties DEF Typed
  <2> QED
    BY <1>2, <1>3, <1>7, <2>1, AttemptSound
<1> QED
  BY <1>1, <1>5, <1>6, <1>7, AskCases

\* The identities of messages
LEMMA MessageTyped ==
  ASSUME Typed
  PROVE  /\ \A m \in net : m.id \in Nat /\ (m.type = "reply" => m \in ReplyMessage)
         /\ \A u \in unwiring : u.m \in ReplyMessage /\ u.id \in Nat /\ u.id > 0 /\ u.p \in Peer
<1>1. MaxRequests \in Nat
  BY RemotesAssumption
<1>2. ASSUME NEW m \in net
      PROVE  m.id \in Nat /\ (m.type = "reply" => m \in ReplyMessage)
  <2>1. m \in ReplyMessage \/ m \in AckMessage
    BY DEF Typed
  <2> QED
    BY <1>1, <2>1 DEF ReplyMessage, AckMessage
<1>3. ASSUME NEW u \in unwiring
      PROVE  u.m \in ReplyMessage /\ u.id \in Nat /\ u.id > 0 /\ u.p \in Peer
  <2>1. u \in [m : ReplyMessage, p : Peer, id : 1 .. MaxRequests]
    BY DEF Typed
  <2> QED
    BY <1>1, <2>1
<1> QED
  BY <1>2, <1>3

\* Request begins with nobody who knows of it.
LEMMA RequestSound ==
  ASSUME IInv, NEW kind \in Kind, Request(kind)
  PROVE  IInv'
<1>1. Typed /\ Current /\ Listed /\ Timely /\ Conversations
  BY DEF IInv
<1> DEFINE n == count + 1
<1>2. /\ count \in Nat /\ MaxRequests \in Nat /\ n \in 1 .. MaxRequests /\ n > count /\ n > 0
      /\ \A id \in Nat : id <= count => id < n
      /\ \A id \in Nat : id > n => id > count
      /\ \A id \in Nat : id <= count => id <= n
  <2>1. count \in 0 .. MaxRequests /\ MaxRequests \in Nat /\ count < MaxRequests
    BY <1>1, RemotesAssumption DEF Typed, Request
  <2> QED
    BY <2>1
<1>3. count' = n
  BY DEF Request
<1> HIDE DEF n
<1>4. /\ req' \in RequestRecord
      /\ req'.id = n /\ req'.kind = kind /\ req'.waiting = None /\ req'.offer = None
      /\ DOMAIN req'.tried = {}
  <2>1. [p \in {} |-> None] \in Attempts
    <3>1. [p \in {} |-> None] \in [{} -> Outcome]
      OBVIOUS
    <3> QED
      BY <3>1 DEF Attempts
  <2>2. Range(present) \in SUBSET Peer
    <3>1. present \in Seq(Peer)
      BY <1>1 DEF Typed
    <3> QED
      BY <3>1, ElementOfSeq, LenProperties DEF Range
  <2>3. req' = [id |-> n, kind |-> kind, waiting |-> None, offer |-> None,
                tried |-> [p \in {} |-> None], acksDue |-> {}, throughout |-> Range(present)]
    BY DEF Request, n
  <2> QED
    BY <1>2, <2>1, <2>2, <2>3 DEF RequestRecord
<1>5. /\ session' \in [Peer -> [1 .. MaxRequests -> Session]]
      /\ \A p \in Peer, id \in 1 .. MaxRequests :
           /\ session'[p][id] = IF session[p][id].state = "streaming" THEN Over ELSE session[p][id]
           /\ WindsDown(session[p][id], session'[p][id])
  <2>1. \A p \in Peer, id \in 1 .. MaxRequests : session[p][id] \in Session /\ Over \in Session
    <3>1. session \in [Peer -> [1 .. MaxRequests -> Session]]
      BY <1>1 DEF Typed
    <3>2. Over \in Session
      BY DEF Session
    <3> QED
      BY <3>1, <3>2
  <2>2. session' \in [Peer -> [1 .. MaxRequests -> Session]]
    BY <2>1 DEF Request
  <2>3. \A p \in Peer, id \in 1 .. MaxRequests :
          session'[p][id] = IF session[p][id].state = "streaming" THEN Over ELSE session[p][id]
    BY DEF Request
  <2> QED
    BY <2>2, <2>3 DEF WindsDown, Over
<1>6. Typed'
  <2>1. count' \in 0 .. MaxRequests
    BY <1>2, <1>3
  <2>2. last' = None /\ consumer' = None /\ UNCHANGED <<present, gone, recent, net, unwiring>>
    BY DEF Request, peers
  <2> QED
    BY <1>1, <1>4, <1>5, <2>1, <2>2 DEF Typed
<1>7. Current'
  BY <1>2, <1>3, <1>4 DEF Current, Request
<1>8. Listed' /\ Consumed'
  BY <1>1 DEF Listed, Consumed, Request, peers
<1>9. \A p \in Peer : session'[p][n] = NoSession /\ NoMail(p, n)
  <2> TAKE p \in Peer
  <2>1. session[p][n] = NoSession
    BY <1>1, <1>2 DEF Timely
  <2>2. NoMail(p, n)
    BY <1>1, <1>2 DEF Timely, NoMail, IsReply
  <2> QED
    BY <1>2, <1>5, <2>1, <2>2 DEF NoSession
<1>10. \A p \in Peer, id \in 0 .. MaxRequests : (NoMail(p, id)' <=> NoMail(p, id)) /\ (Sole(p, id)' <=> Sole(p, id))
  BY DEF NoMail, Sole, IsReply, Request
<1>11. Timely'
  <2>1. \A m \in net' : m.id <= n
    <3> SUFFICES ASSUME NEW m \in net
                 PROVE  m.id <= n
      BY DEF Request
    <3>1. m.id \in Nat /\ m.id <= count
      BY <1>1, MessageTyped DEF Timely
    <3> QED
      BY <1>2, <3>1
  <2>2. \A u \in unwiring' : u.m.id = u.id /\ u.id <= n
    <3> SUFFICES ASSUME NEW u \in unwiring
                 PROVE  u.m.id = u.id /\ u.id <= n
      BY DEF Request
    <3>1. u.id \in Nat /\ u.id <= count /\ u.m.id = u.id
      BY <1>1, MessageTyped DEF Timely
    <3> QED
      BY <1>2, <3>1
  <2>3. ASSUME NEW p \in Peer, NEW id \in 1 .. MaxRequests, id > n
        PROVE  session'[p][id] = NoSession
    <3>1. session[p][id] = NoSession
      BY <1>1, <1>2, <2>3 DEF Timely
    <3> QED
      BY <1>5, <3>1 DEF NoSession
  <2> QED
    BY <1>3, <2>1, <2>2, <2>3 DEF Timely
<1>12. ASSUME NEW p \in Peer, NEW id \in 1 .. MaxRequests
       PROVE  /\ Busy(p, id)' => Busy(p, id)
              /\ StateOf(p, id)' = "sent" => StateOf(p, id) = "sent"
  BY <1>5 DEF Busy, StateOf, Over
<1>13. ASSUME NEW p \in Peer
       PROVE  Conversation(p)'
  <2>1. Conversation(p)
    BY <1>1 DEF Conversations
  <2>2. \A id \in 1 .. MaxRequests : StateOf(p, id)' = "sent" => NoMail(p, id)'
    <3> SUFFICES ASSUME NEW id \in 1 .. MaxRequests, StateOf(p, id)' = "sent"
                 PROVE  NoMail(p, id)'
      OBVIOUS
    <3>1. id \in 0 .. MaxRequests
      OBVIOUS
    <3> QED
      BY <1>10, <1>12, <2>1, <3>1 DEF Conversation
  <2>3. StateOf(p, count)' = "none" /\ NoMail(p, count)'
    BY <1>3, <1>9 DEF StateOf, NoSession, NoMail, IsReply, Request
  <2> QED
    BY <1>10, <2>1, <2>2, <2>3 DEF Conversation
<1>14. Conversations'
  <2>1. ASSUME NEW m \in ReplyMessage, Told(m)
        PROVE  Told(m)'
    <3>1. m.from \in Peer /\ (m.id > 0 => m.id \in 1 .. MaxRequests)
      BY <1>2 DEF ReplyMessage
    <3> QED
      BY <1>12, <2>1, <3>1 DEF Told
  <2>2. \A m \in net : Told(m)'
    <3> SUFFICES ASSUME NEW m \in net, m.type = "reply"
                 PROVE  Told(m)'
      BY DEF Told
    <3>1. m \in ReplyMessage
      BY <1>1 DEF Typed, AckMessage
    <3> QED
      BY <1>1, <2>1, <3>1 DEF Conversations
  <2>3. \A u \in unwiring : Told(u.m)'
    BY <1>1, <2>1 DEF Conversations, Typed
  <2> QED
    BY <1>13, <2>2, <2>3 DEF Conversations, Request
<1>15. Quiet'
  <2>1. \A m \in net' : m.type = "ack" => m.id < n
    <3> SUFFICES ASSUME NEW m \in net
                 PROVE  m.id < n
      BY DEF Request
    <3>1. m.id \in Nat /\ m.id <= count
      BY <1>1, MessageTyped DEF Timely
    <3> QED
      BY <1>2, <3>1
  <2> QED
    BY <1>3, <1>9, <2>1 DEF Quiet, StateOf, NoSession
<1>16. OneByOne'
  BY <1>3, <1>9 DEF OneByOne, Busy, StateOf, NoSession, NoMail, IsReply, Request
<1> QED
  BY <1>6, <1>7, <1>8, <1>11, <1>14, <1>15, <1>16 DEF IInv

\* Reply takes a reply from the network and has it unwrapped.
LEMMA ReplySound ==
  ASSUME IInv, NEW m \in net, Reply(m)
  PROVE  IInv'
<1>1. Typed /\ Current /\ Listed /\ Timely /\ Conversations /\ Quiet /\ Consumed /\ OneByOne
  BY DEF IInv
<1> DEFINE u == [m |-> m, p |-> req.waiting, id |-> req.id]
<1>2. /\ net' = net \ {m} /\ unwiring' = unwiring \cup {u}
      /\ m.type = "reply" /\ req # None /\ req.waiting # None /\ m.id = req.id
      /\ UNCHANGED <<peers, recent, count, req, last, session, consumer>>
  BY DEF Reply, Resolvable
<1>3. req \in RequestRecord /\ count \in 1 .. MaxRequests /\ req.id = count /\ req.waiting \in Peer
  BY <1>1, <1>2, Counted, RequestFields DEF Current
<1>4. m \in ReplyMessage
  BY <1>1, <1>2 DEF Typed, AckMessage
<1>5. u \in [m : ReplyMessage, p : Peer, id : 1 .. MaxRequests] /\ u.m = m /\ u.id = count
  BY <1>3, <1>4
<1> HIDE DEF u
<1>6. Typed'
  BY <1>1, <1>2, <1>5 DEF Typed, peers
<1>7. Current' /\ Listed' /\ Consumed' /\ Quiet' /\ Asked' = Asked
  BY <1>1, <1>2 DEF Current, Listed, Consumed, Whole, Quiet, StateOf, Asked, peers
<1>8. count <= count
  BY <1>3, RemotesAssumption
<1>9. Timely'
  BY <1>1, <1>2, <1>3, <1>5, <1>8 DEF Timely
<1>10. \A p \in Peer, id \in 0 .. MaxRequests : NoMail(p, id)' <=> NoMail(p, id)
  BY <1>2, <1>5 DEF NoMail, IsReply
<1>11. ASSUME NEW p \in Peer, NEW id \in 0 .. MaxRequests, Sole(p, id)
       PROVE  Sole(p, id)'
  BY <1>2, <1>5, <1>11 DEF Sole, IsReply
<1>12. count' = count /\ count \in 0 .. MaxRequests
  BY <1>2, <1>3
<1>13. \A p \in Peer : Conversation(p)'
  <2> SUFFICES ASSUME NEW p \in Peer
               PROVE  Conversation(p)'
    OBVIOUS
  <2>1. Conversation(p)
    BY <1>1 DEF Conversations
  <2>2. \A id \in 1 .. MaxRequests : StateOf(p, id)' = "sent" => NoMail(p, id)'
    <3> SUFFICES ASSUME NEW id \in 1 .. MaxRequests, StateOf(p, id)' = "sent"
                 PROVE  NoMail(p, id)'
      OBVIOUS
    <3>1. id \in 0 .. MaxRequests
      OBVIOUS
    <3> QED
      BY <1>2, <1>10, <2>1, <3>1 DEF Conversation, StateOf
  <2>3. p \notin Asked' => StateOf(p, count)' = "none" /\ NoMail(p, count)'
    BY <1>2, <1>7, <1>10, <1>12, <2>1 DEF Conversation, StateOf, NoMail
  <2> QED
    BY <1>2, <1>11, <2>1, <2>2, <2>3 DEF Conversation, StateOf
<1>14. Conversations'
  BY <1>1, <1>2, <1>5, <1>13 DEF Conversations, Told, Busy, StateOf
<1>15. OneByOne'
  <2>1. \A p \in Peer : NoMail(p, count)' <=> NoMail(p, count)
    BY <1>10, <1>12 DEF NoMail
  <2> QED
    BY <1>1, <1>2, <2>1 DEF OneByOne, Busy, StateOf
<1> QED
  BY <1>6, <1>7, <1>9, <1>14, <1>15 DEF IInv

\* The request whose attempt has an answer of q
WithAnswer(res, q) ==
  [req EXCEPT !.waiting = None, !.tried = Tried(req.waiting, res), !.acksDue = @ \cup {q}]

\* It has one more outcome.
LEMMA AttemptAnswered ==
  ASSUME req \in RequestRecord, req.waiting \in Peer, req.waiting \notin DOMAIN req.tried,
         NEW res \in Outcome, NEW q \in Peer
  PROVE  /\ WithAnswer(res, q) \in RequestRecord
         /\ WithAnswer(res, q).id = req.id /\ WithAnswer(res, q).kind = req.kind
         /\ WithAnswer(res, q).offer = req.offer /\ WithAnswer(res, q).throughout = req.throughout
         /\ WithAnswer(res, q).waiting = None /\ WithAnswer(res, q).tried = Tried(req.waiting, res)
         /\ DOMAIN WithAnswer(res, q).tried = DOMAIN req.tried \cup {req.waiting}
         /\ InTime(WithAnswer(res, q).tried) <=> InTime(req.tried) /\ res # "timeout"
<1> DEFINE kept == WithAnswer(res, q)
<1>1. Tried(req.waiting, res) \in Attempts
  BY TriedProperties
<1>2. DOMAIN Tried(req.waiting, res) = DOMAIN req.tried \cup {req.waiting}
  BY TriedProperties
<1>3. InTime(Tried(req.waiting, res)) <=> InTime(req.tried) /\ res # "timeout"
  BY TriedInTime
<1> DEFINE t == Tried(req.waiting, res)
           due == req.acksDue \cup {q}
<1>4. due \in SUBSET Peer
  BY DEF RequestRecord
<1>5. kept = [[[req EXCEPT !.waiting = None] EXCEPT !.tried = t] EXCEPT !.acksDue = due]
  BY DEF t, due, WithAnswer, RequestRecord
<1> HIDE DEF t, due, kept
<1>6. [req EXCEPT !.waiting = None] \in RequestRecord
  BY DEF RequestRecord
<1>7. [[req EXCEPT !.waiting = None] EXCEPT !.tried = t] \in RequestRecord
  BY <1>1, <1>6 DEF RequestRecord, t
<1>8. kept \in RequestRecord
  BY <1>4, <1>5, <1>7 DEF RequestRecord
<1>9. /\ kept.id = req.id /\ kept.kind = req.kind /\ kept.offer = req.offer
      /\ kept.throughout = req.throughout /\ kept.waiting = None /\ kept.tried = t
  BY <1>5, <1>6, <1>7 DEF RequestRecord
<1> QED
  BY <1>2, <1>3, <1>8, <1>9 DEF t, kept

\* The peer that is waited for has answered, if none was late, and no other mail is left.
LEMMA AnswerOfWaiting ==
  ASSUME IInv, NEW u \in unwiring, req # None, req.id = u.id, req.waiting = u.p,
         InTime(req.tried), unwiring' = unwiring \ {u}, \A m \in net' : m \in net
  PROVE  /\ u.m.from = u.p
         /\ \A q \in Peer : Busy(q, count) => q = u.p
         /\ \A q \in Peer : NoMail(q, u.id)'
<1>1. Typed /\ Current /\ Timely /\ Conversations /\ OneByOne
  BY DEF IInv
<1>2. u.m \in ReplyMessage /\ u.p \in Peer /\ u.m.id = u.id /\ u.id = count
  BY <1>1, MessageTyped DEF Current, Timely
<1>3. /\ req.offer = None /\ u.m.from \in Peer /\ u.m.type = "reply"
      /\ count \in 0 .. MaxRequests
  BY <1>1, <1>2, RemotesAssumption DEF Current, ReplyMessage, Typed
<1>4. \A q \in Peer : /\ Busy(q, count) => q = u.p
                      /\ q # u.p => NoMail(q, count)
  BY <1>1, <1>3 DEF OneByOne
<1>5. u.m.from = u.p
  BY <1>2, <1>3, <1>4 DEF NoMail, IsReply
<1>6. \A q \in Peer : q # u.p => NoMail(q, u.id)'
  BY <1>2, <1>4 DEF NoMail, IsReply
<1>7. NoMail(u.p, u.id)'
  <2>1. Sole(u.p, u.id)
    BY <1>1, <1>2, <1>3 DEF Conversations, Conversation
  <2>2. IsReply(u.m, u.p, u.id)
    BY <1>2, <1>3, <1>5 DEF IsReply
  <2>3. \A m \in net' : ~IsReply(m, u.p, u.id)
    BY <2>1, <2>2 DEF Sole
  <2>4. \A v \in unwiring' : ~IsReply(v.m, u.p, u.id)
    BY <2>1, <2>2 DEF Sole
  <2> QED
    BY <2>3, <2>4 DEF NoMail, IsReply
<1> QED
  BY <1>4, <1>5, <1>6, <1>7

\* An attempt that has its answer leaves the request to go on, end or consume.
LEMMA ResolveSound ==
  ASSUME IInv, NEW u \in unwiring, req # None, req.id = u.id, req.waiting = u.p,
         Resolve(u.m, u.p), unwiring' = unwiring \ {u},
         UNCHANGED <<peers, recent, count, session, consumer>>
  PROVE  IInv'
<1>1. Typed /\ Current /\ Listed /\ Timely /\ Conversations /\ Quiet /\ Consumed /\ OneByOne
  BY DEF IInv
<1>2. u.m \in ReplyMessage /\ u.p \in Peer /\ u.m.id = u.id /\ u.id = count
  BY <1>1, MessageTyped DEF Current, Timely
<1>3. /\ req \in RequestRecord /\ req.waiting \in Peer /\ req.waiting \notin DOMAIN req.tried
      /\ count \in 1 .. MaxRequests /\ count \in Nat /\ count > 0
      /\ last = None /\ consumer = None /\ req.offer = None
  <2>1. req \in RequestRecord /\ count \in 1 .. MaxRequests
    BY <1>1, Counted
  <2> QED
    BY <1>1, <1>2, <2>1, RemotesAssumption DEF Current
<1>4. u.m.res \in Outcome /\ u.m.res # "timeout" /\ u.m.from \in Peer /\ u.m.type = "reply"
  BY <1>2 DEF ReplyMessage, Answered, Outcome
<1> DEFINE kept == WithAnswer(u.m.res, u.m.from)
<1>5. /\ kept \in RequestRecord
      /\ kept.id = req.id /\ kept.kind = req.kind /\ kept.offer = req.offer
      /\ kept.waiting = None
      /\ DOMAIN kept.tried = DOMAIN req.tried \cup {req.waiting}
      /\ InTime(kept.tried) <=> InTime(req.tried)
  BY <1>3, <1>4, AttemptAnswered
<1>6. net' = net \ {u.m}
  BY DEF Resolve, AcksAtOnce
<1>7. \/ ~Satisfies(req.kind, u.m.res) /\ req' = kept /\ UNCHANGED last
      \/ End("ok")
      \/ req' = [kept EXCEPT !.offer = [id |-> u.m.id, from |-> u.m.from, fromId |-> u.p]] /\ UNCHANGED last
  BY DEF Resolve, WithAnswer
<1> HIDE DEF kept
<1>8. Quieter
  BY <1>6 DEF Quieter, WindsDown
<1>9. Listed' /\ Consumed'
  BY <1>1, <1>3 DEF Listed, Consumed, peers
<1>10. CASE End("ok")
  <2>1. /\ req' = None
        /\ last' \in [kind : Kind, result : Outcome \cup {"not sent", "no visible clones"},
                      tried : Attempts, throughout : SUBSET Peer]
        /\ last'.tried = req.tried
    BY <1>3, <1>10, Ended DEF Outcome
  <2>2. Typed'
    BY <1>1, <1>6, <2>1 DEF Typed, peers
  <2>3. Current'
    BY <1>3, <2>1 DEF Current
  <2> QED
    BY <1>3, <1>6, <1>8, <1>9, <2>1, <2>2, <2>3, Kept
<1>11. ASSUME NEW offer \in {None} \cup [id : 0 .. MaxRequests, from : Peer, fromId : Peer],
              req' \in RequestRecord,
              req'.id = req.id, req'.kind = req.kind, req'.offer = offer,
              req'.waiting = None, req'.tried = kept.tried,
              UNCHANGED last,
              offer = None => u.m.res # "ok",
              offer # None => offer.id = req.id /\ offer.from = u.m.from
       PROVE  IInv'
  <2>1. Typed'
    BY <1>1, <1>6, <1>11 DEF Typed, peers
  <2>2. Asked' = Asked /\ req'.waiting \notin DOMAIN req'.tried
    <3>1. DOMAIN req.tried \subseteq Peer
      BY <1>3, RequestFields
    <3> QED
      BY <1>3, <1>5, <1>11, <3>1, RemotesAssumption DEF Asked
  <2>3. Current'
    BY <1>1, <1>3, <1>11, <2>2 DEF Current
  <2>4. Timely'
    BY <1>1, <1>6, <1>8, TimelyKept
  <2>5. Conversations'
    BY <1>1, <1>3, <1>8, <1>11, <2>2, ConversationsKept
  <2>6. Quiet'
    BY <1>1, <1>6, <1>8, QuietKept
  <2>7. OneByOne'
    <3> SUFFICES ASSUME InTime(req.tried), NEW q \in Peer
                 PROVE  /\ Busy(q, count)' => offer # None /\ q = offer.from
                        /\ StateOf(q, count)' # "sent"
                        /\ NoMail(q, count)'
      BY <1>3, <1>5, <1>11 DEF OneByOne
    <3>1. \A m \in net' : m \in net
      BY <1>6
    <3>2. u.m.from = u.p /\ (Busy(q, count) => q = u.p) /\ NoMail(q, u.id)'
      BY <3>1, AnswerOfWaiting
    <3>3. u.m.res # "ok" => ~Busy(u.p, count)
      BY <1>1, <1>2, <1>3, <1>4, <3>2 DEF Conversations, Told
    <3>4. Busy(q, count)' => Busy(q, count)
      BY DEF Busy, StateOf
    <3>5. NoMail(q, count)'
      BY <1>2, <3>2 DEF NoMail, IsReply
    <3>6. StateOf(q, count) # "sent"
      <4>1. StateOf(q, count) = "sent" => q = u.p /\ NoMail(q, count)
        BY <1>1, <1>3, <3>2 DEF Busy, Conversations, Conversation
      <4>2. ~NoMail(u.p, count)
        BY <1>2, <1>4, <3>2 DEF NoMail, IsReply
      <4> QED
        BY <4>1, <4>2
    <3> QED
      BY <1>11, <3>2, <3>3, <3>4, <3>5, <3>6 DEF StateOf
  <2> QED
    BY <1>9, <2>1, <2>3, <2>4, <2>5, <2>6, <2>7 DEF IInv
<1>12. CASE ~Satisfies(req.kind, u.m.res) /\ req' = kept /\ UNCHANGED last
  BY <1>3, <1>5, <1>11, <1>12 DEF Satisfies
<1>13. CASE req' = [kept EXCEPT !.offer = [id |-> u.m.id, from |-> u.m.from, fromId |-> u.p]] /\ UNCHANGED last
  <2> DEFINE offer == [id |-> u.m.id, from |-> u.m.from, fromId |-> u.p]
  <2>1. /\ offer \in [id : 0 .. MaxRequests, from : Peer, fromId : Peer]
        /\ offer # None /\ offer.id = req.id /\ offer.from = u.m.from
    BY <1>2, <1>3, <1>4 DEF None
  <2> HIDE DEF offer
  <2>2. req' = [kept EXCEPT !.offer = offer]
    BY <1>13 DEF offer
  <2>3. /\ req' \in RequestRecord
        /\ req'.id = req.id /\ req'.kind = req.kind /\ req'.offer = offer
        /\ req'.waiting = None /\ req'.tried = kept.tried
    BY <1>5, <2>1, <2>2 DEF RequestRecord
  <2> QED
    BY <1>11, <1>13, <2>1, <2>3
<1> QED
  BY <1>7, <1>10, <1>12, <1>13

\* Unwired resolves the attempt, or is too late for it.
LEMMA UnwiredSound ==
  ASSUME IInv, NEW u \in unwiring, Unwired(u)
  PROVE  IInv'
<1>1. Typed /\ Current /\ Listed /\ Timely /\ Consumed
  BY DEF IInv
<1>2. /\ unwiring' = unwiring \ {u}
      /\ UNCHANGED <<peers, recent, count, session, consumer>>
  BY DEF Unwired
<1>3. /\ u.m \in ReplyMessage /\ u.p \in Peer /\ u.m.id = u.id /\ u.id <= count
      /\ u.m.from \in Peer /\ u.m.id \in 1 .. MaxRequests
  <2>1. u \in [m : ReplyMessage, p : Peer, id : 1 .. MaxRequests]
    BY <1>1 DEF Typed
  <2> QED
    BY <1>1, <2>1 DEF Timely, ReplyMessage
<1>4. Listed' /\ Consumed'
  BY <1>1, <1>2 DEF Listed, Consumed, Whole, StateOf, peers
<1>5. CASE req # None /\ req.id = u.id /\ req.waiting = u.p
  BY <1>2, <1>5, ResolveSound DEF Unwired
<1>6. CASE req # None /\ req.id = u.id /\ req.waiting # u.p
  <2>1. req' = [req EXCEPT !.acksDue = @ \cup {u.m.from}] /\ UNCHANGED <<last, net>>
    BY <1>6 DEF Unwired
  <2>2. req \in RequestRecord
    BY <1>1, <1>6, Counted
  <2>3. /\ req' \in RequestRecord
        /\ req'.id = req.id /\ req'.kind = req.kind /\ req'.offer = req.offer
        /\ req'.waiting = req.waiting /\ req'.tried = req.tried
    BY <1>3, <2>1, <2>2 DEF RequestRecord
  <2>4. Typed'
    BY <1>1, <1>2, <2>1, <2>3 DEF Typed, peers
  <2>5. Current' /\ Asked' = Asked
    BY <1>1, <1>2, <1>6, <2>1, <2>3 DEF Current, Asked
  <2>6. Quieter
    BY <1>2, <2>1 DEF Quieter, WindsDown
  <2> QED
    BY <1>2, <1>4, <1>6, <2>1, <2>3, <2>4, <2>5, <2>6, Kept
<1>7. CASE ~(req # None /\ req.id = u.id)
  <2>1. UNCHANGED <<req, last>> /\ \A m \in net' : m \in net \/ (m = Ack(u.m.from, u.m.id) /\ count = u.id)
    BY <1>7 DEF Unwired
  <2>2. Ack(u.m.from, u.m.id) \in AckMessage /\ Ack(u.m.from, u.m.id).type = "ack" /\ Ack(u.m.from, u.m.id).id = u.m.id
    BY <1>3 DEF Ack, AckMessage
  <2>3. Typed'
    BY <1>1, <1>2, <2>1, <2>2 DEF Typed, peers
  <2>4. Current' /\ Asked' = Asked
    BY <1>1, <1>2, <2>1 DEF Current, Asked
  <2>5. Quieter
    BY <1>2, <2>1, <2>2 DEF Quieter, WindsDown
  <2>6. \A m \in net' : m \in net \/ (m.type = "ack" /\ m.id <= count /\ req' = None)
    BY <1>1, <1>3, <1>7, <2>1, <2>2 DEF Current
  <2> QED
    BY <1>2, <1>4, <2>1, <2>3, <2>4, <2>5, <2>6, Kept
<1> QED
  BY <1>5, <1>6, <1>7

-----------------------------------------------------------------------------
(***************************************************************************)
(* The steps keep the invariant: those of the peers                        *)
(***************************************************************************)

\* Serve answers once, and nothing is rejected by a peer that goes on.
LEMMA ServeSound ==
  ASSUME IInv, NEW p \in Peer, NEW id \in 1 .. MaxRequests, Serve(p, id)
  PROVE  IInv'
<1>1. Typed /\ Current /\ Listed /\ Timely /\ Conversations /\ Quiet /\ Consumed /\ OneByOne
  BY DEF IInv
<1> DEFINE s == session[p][id]
<1>2. PICK res \in Answers(s.kind) :
        /\ net' = net \cup {[type |-> "reply", from |-> p, id |-> id, res |-> res]}
        /\ session' = [session EXCEPT ![p][id] =
                         IF res # "ok" \/ Channels(@.kind) = {} THEN Over
                         ELSE [@ EXCEPT !.state = "offered"]]
  BY DEF Serve
<1> DEFINE m == [type |-> "reply", from |-> p, id |-> id, res |-> res]
           t == IF res # "ok" \/ Channels(s.kind) = {} THEN Over
                ELSE [s EXCEPT !.state = "offered"]
<1>3. session' = [session EXCEPT ![p][id] = t]
  BY <1>2
<1>4. /\ session \in [Peer -> [1 .. MaxRequests -> Session]] /\ s \in Session
      /\ s.state = "sent" /\ s \in [state : {"sent", "offered"}, kind : Kind]
  <2>1. session \in [Peer -> [1 .. MaxRequests -> Session]]
    BY <1>1 DEF Typed
  <2>2. s \in Session
    BY <2>1
  <2> QED
    BY <2>1, <2>2, SessionStates DEF Serve
<1>5. /\ t \in Session /\ t.state \in {"over", "offered"}
      /\ res # "ok" => t.state = "over"
      /\ t.state = "offered" => t.kind = s.kind
  BY <1>4 DEF Session, Over
<1>6. /\ m \in ReplyMessage /\ m.type = "reply" /\ m.from = p /\ m.id = id /\ m.res = res
      /\ net' = net \cup {m}
  <2>1. id \in 0 .. MaxRequests /\ res \in Answered
    BY DEF Answers, Answered
  <2> QED
    BY <1>2, <2>1 DEF ReplyMessage
<1>7. id <= count /\ count \in Nat /\ count' = count
  <2>1. count \in Nat /\ id \in Nat
    BY <1>1, Counted, RemotesAssumption
  <2>2. ~(id > count)
    BY <1>1, <1>4 DEF Timely, NoSession
  <2> QED
    BY <2>1, <2>2 DEF Serve
<1> HIDE DEF s, m, t
<1>8. /\ session' \in [Peer -> [1 .. MaxRequests -> Session]]
      /\ session'[p][id] = t
      /\ \A q \in Peer, k \in 1 .. MaxRequests : q # p \/ k # id => session'[q][k] = session[q][k]
  BY <1>3, <1>4, <1>5, SessionSet, ZenonT(60)
<1>9. UNCHANGED <<peers, recent, count, req, last, unwiring, consumer>>
  BY DEF Serve
<1>10. Typed'
  BY <1>1, <1>6, <1>8, <1>9 DEF Typed, peers
<1>11. Current' /\ Listed' /\ Asked' = Asked
  BY <1>1, <1>9 DEF Current, Listed, Asked, peers
<1>12. Timely'
  <2>1. \A q \in Peer, k \in 1 .. MaxRequests : k > count => session'[q][k] = NoSession
    BY <1>1, <1>7, <1>8 DEF Timely
  <2> QED
    BY <1>1, <1>6, <1>7, <1>9, <2>1 DEF Timely
<1>13. \A q \in Peer, k \in 1 .. MaxRequests :
         /\ Busy(q, k)' => Busy(q, k)
         /\ StateOf(q, k)' = "sent" => StateOf(q, k) = "sent" /\ (q # p \/ k # id)
         /\ StateOf(q, k) = "none" => StateOf(q, k)' = "none"
         /\ StateOf(q, k)' = "streaming" => StateOf(q, k) = "streaming"
         /\ StateOf(q, k)' \in {"sent", "offered"} =>
              StateOf(q, k) \in {"sent", "offered"} /\ session'[q][k].kind = session[q][k].kind
  BY <1>4, <1>5, <1>8 DEF StateOf, Busy, s
<1>14. \A q \in Peer, k \in 0 .. MaxRequests : NoMail(q, k) /\ (q # p \/ k # id) => NoMail(q, k)'
  BY <1>6, <1>9 DEF NoMail, IsReply
<1>15. NoMail(p, id)
  BY <1>1, <1>4 DEF Conversations, Conversation, StateOf, s
<1>16. \A q \in Peer, k \in 0 .. MaxRequests : Sole(q, k) => Sole(q, k)'
  BY <1>6, <1>9, <1>15 DEF Sole, NoMail, IsReply
<1>17. ASSUME NEW q \in Peer
       PROVE  Conversation(q)'
  <2>1. Conversation(q)
    BY <1>1 DEF Conversations
  <2>2. \A k \in 1 .. MaxRequests : StateOf(q, k)' = "sent" => NoMail(q, k)'
    <3> SUFFICES ASSUME NEW k \in 1 .. MaxRequests, StateOf(q, k)' = "sent"
                 PROVE  NoMail(q, k)'
      OBVIOUS
    <3>1. k \in 0 .. MaxRequests
      OBVIOUS
    <3> QED
      BY <1>13, <1>14, <2>1, <3>1 DEF Conversation
  <2>3. ASSUME req # None, q \notin Asked
        PROVE  StateOf(q, count)' = "none" /\ NoMail(q, count)'
    <3>1. count \in 1 .. MaxRequests /\ count \in 0 .. MaxRequests
      BY <1>1, <2>3, Counted
    <3>2. StateOf(q, count) = "none" /\ NoMail(q, count)
      BY <2>1, <2>3 DEF Conversation
    <3>3. q # p \/ count # id
      BY <1>4, <3>2 DEF StateOf, s
    <3>4. NoMail(q, count)'
      BY <1>7, <1>14, <3>1, <3>2, <3>3 DEF NoMail
    <3> QED
      BY <1>7, <1>13, <3>1, <3>2, <3>4 DEF StateOf
  <2>4. ASSUME req # None \/ consumer # None, StateOf(q, count)' \in {"sent", "offered"}
        PROVE  StateOf(q, count) \in {"sent", "offered"} /\ session'[q][count].kind = session[q][count].kind
    <3>1. count \in 1 .. MaxRequests
      BY <1>1, <2>4, Counted
    <3> QED
      BY <1>7, <1>13, <2>4, <3>1 DEF StateOf
  <2> QED
    BY <1>7, <1>9, <1>11, <1>16, <2>1, <2>2, <2>3, <2>4 DEF Conversation
<1>18. Conversations'
  <2>1. ASSUME NEW n \in ReplyMessage, Told(n)
        PROVE  Told(n)'
    <3>1. n.from \in Peer /\ (n.id > 0 => n.id \in 1 .. MaxRequests)
      BY RemotesAssumption DEF ReplyMessage
    <3> QED
      BY <1>13, <2>1, <3>1 DEF Told
  <2>2. \A n \in net : Told(n)'
    <3> SUFFICES ASSUME NEW n \in net, n.type = "reply"
                 PROVE  Told(n)'
      BY DEF Told
    <3> QED
      BY <1>1, <2>1, MessageTyped DEF Conversations
  <2>3. \A u \in unwiring : Told(u.m)'
    BY <1>1, <2>1, MessageTyped DEF Conversations
  <2>4. Told(m)'
    BY <1>5, <1>6, <1>8 DEF Told, Busy, StateOf
  <2> QED
    BY <1>6, <1>9, <1>17, <2>2, <2>3, <2>4 DEF Conversations
<1>19. Quiet'
  <2> SUFFICES ASSUME req # None
               PROVE  Quiet'
    BY <1>9 DEF Quiet
  <2>1. count \in 1 .. MaxRequests
    BY <1>1, Counted
  <2> QED
    BY <1>1, <1>6, <1>7, <1>9, <1>13, <2>1 DEF Quiet, StateOf
<1>20. Consumed'
  <2> SUFFICES ASSUME consumer # None
               PROVE  Consumed'
    BY <1>9 DEF Consumed
  <2>1. count \in 1 .. MaxRequests
    BY <1>1, Counted
  <2>2. \A q \in Peer : Onward(session[q][count], session'[q][count])
    BY <1>4, <1>5, <1>8, <2>1 DEF Onward, s
  <2> QED
    BY <1>1, <1>9, <2>2, ConsumedKept
<1>21. OneByOne'
  <2> SUFFICES ASSUME req # None \/ last # None
               PROVE  OneByOne'
    BY <1>9 DEF OneByOne
  <2>1. count \in 1 .. MaxRequests /\ count \in 0 .. MaxRequests
    <3>1. count \in 0 .. MaxRequests /\ count \in Nat /\ MaxRequests \in Nat
      BY <1>1, <1>7, RemotesAssumption DEF Typed
    <3>2. req # None => count \in 1 .. MaxRequests
      BY <1>1, Counted
    <3>3. last # None => count > 0
      BY <1>1 DEF Current
    <3> QED
      BY <3>1, <3>2, <3>3
  <2>2. ASSUME req # None, InTime(req.tried), NEW q \in Peer
        PROVE  /\ Busy(q, count)' => q = req.waiting \/ (req.offer # None /\ q = req.offer.from)
               /\ StateOf(q, count)' = "sent" => q = req.waiting
               /\ q # req.waiting => NoMail(q, count)'
    <3>1. /\ Busy(q, count) => q = req.waiting \/ (req.offer # None /\ q = req.offer.from)
          /\ StateOf(q, count) = "sent" => q = req.waiting
          /\ q # req.waiting => NoMail(q, count)
      BY <1>1, <2>2 DEF OneByOne
    <3>2. q # req.waiting => q # p \/ count # id
      BY <1>4, <3>1 DEF StateOf, s
    <3>3. q # req.waiting => NoMail(q, count)'
      BY <1>7, <1>14, <2>1, <3>1, <3>2 DEF NoMail
    <3> QED
      BY <1>7, <1>13, <2>1, <3>1, <3>3 DEF Busy, StateOf
  <2>3. ASSUME last # None, InTime(last.tried), NEW q \in Peer, NEW r \in Peer,
               Busy(q, count)', Busy(r, count)'
        PROVE  q = r
    <3>1. Busy(q, count) /\ Busy(r, count)
      BY <1>7, <1>13, <2>1, <2>3 DEF Busy, StateOf
    <3> QED
      BY <1>1, <2>3, <3>1 DEF OneByOne
  <2> QED
    BY <1>9, <2>2, <2>3 DEF OneByOne
<1> QED
  BY <1>10, <1>11, <1>12, <1>18, <1>19, <1>20, <1>21 DEF IInv

\* A session that winds down, while nothing is consumed of it
LEMMA SessionWinds ==
  ASSUME IInv, NEW p \in Peer, NEW id \in 1 .. MaxRequests, NEW t \in Session,
         session' = [session EXCEPT ![p][id] = t],
         WindsDown(session[p][id], t), Onward(session[p][id], t),
         \A m \in net' : m \in net,
         req # None /\ t.state = "streaming" => id # count,
         UNCHANGED <<peers, recent, count, req, last, unwiring, consumer>>
  PROVE  IInv'
<1>1. Typed /\ Current /\ Listed /\ Consumed
  BY DEF IInv
<1>2. session \in [Peer -> [1 .. MaxRequests -> Session]]
  BY <1>1 DEF Typed
<1>3. /\ session' \in [Peer -> [1 .. MaxRequests -> Session]]
      /\ session'[p][id] = t
      /\ \A q \in Peer, k \in 1 .. MaxRequests : q # p \/ k # id => session'[q][k] = session[q][k]
  BY <1>2, SessionSet, ZenonT(60)
<1>4. Typed'
  BY <1>1, <1>3 DEF Typed, peers
<1>5. Current' /\ Listed' /\ Asked' = Asked
  BY <1>1 DEF Current, Listed, Asked, peers
<1>6. Quieter
  <2>1. \A q \in Peer, k \in 1 .. MaxRequests : WindsDown(session[q][k], session'[q][k])
    BY <1>1, Winds
  <2> QED
    BY <2>1 DEF Quieter
<1>7. Consumed'
  <2> SUFFICES ASSUME consumer # None
               PROVE  Consumed'
    BY DEF Consumed
  <2>1. count \in 1 .. MaxRequests
    BY <1>1, Counted
  <2>2. \A q \in Peer : Onward(session[q][count], session'[q][count])
    BY <1>3, <2>1 DEF Onward
  <2> QED
    BY <1>1, <2>2, ConsumedKept
<1>8. \A q \in Peer : req' # None /\ session'[q][count].state = "streaming" =>
        session[q][count].state = "streaming"
  <2> SUFFICES ASSUME req # None, NEW q \in Peer, session'[q][count].state = "streaming"
               PROVE  session[q][count].state = "streaming"
    OBVIOUS
  <2>1. count \in 1 .. MaxRequests
    BY <1>1, Counted
  <2> QED
    BY <1>3, <2>1
<1> QED
  BY <1>4, <1>5, <1>6, <1>7, <1>8, Kept

\* AckTimeOut gives up an offer.
LEMMA AckTimeOutSound ==
  ASSUME IInv, NEW p \in Peer, NEW id \in 1 .. MaxRequests, AckTimeOut(p, id)
  PROVE  IInv'
<1>1. /\ Over \in Session /\ WindsDown(session[p][id], Over) /\ Onward(session[p][id], Over)
      /\ Over.state = "over"
  BY DEF Session, WindsDown, Onward, Over, AckTimeOut
<1>2. session' = [session EXCEPT ![p][id] = Over]
  BY DEF AckTimeOut
<1> QED
  BY <1>1, <1>2, SessionWinds DEF AckTimeOut

\* Acked starts the stream of an offer, or does nothing.
LEMMA AckedSound ==
  ASSUME IInv, NEW m \in net, Acked(m)
  PROVE  IInv'
<1>1. Typed /\ Current /\ Listed /\ Timely /\ Quiet /\ Consumed
  BY DEF IInv
<1>2. m.to \in Peer /\ m.id \in 1 .. MaxRequests /\ m.type = "ack"
  <2>1. m \in ReplyMessage \/ m \in AckMessage
    BY <1>1 DEF Typed
  <2> QED
    BY <2>1 DEF ReplyMessage, AckMessage, Acked
<1>3. /\ net' = net \ {m}
      /\ UNCHANGED <<peers, recent, count, req, last, unwiring, consumer>>
  BY DEF Acked
<1>4. CASE session[m.to][m.id].state = "offered"
  <2> DEFINE t == [state |-> "streaming",
                   left |-> [ch \in Channels(session[m.to][m.id].kind) |-> MaxItems]]
  <2>1. session' = [session EXCEPT ![m.to][m.id] = t]
    BY <1>4 DEF Acked
  <2>2. t \in Session /\ t.state = "streaming" /\ \A ch \in DOMAIN t.left : t.left[ch] = MaxItems
    <3>1. Channels(session[m.to][m.id].kind) \in SUBSET Channel
      BY DEF Channels, Channel
    <3>2. t.left \in [Channels(session[m.to][m.id].kind) -> 0 .. MaxItems]
      BY RemotesAssumption
    <3> QED
      BY <3>1, <3>2 DEF Session
  <2> HIDE DEF t
  <2>3. WindsDown(session[m.to][m.id], t) /\ Onward(session[m.to][m.id], t)
    BY <1>4, <2>2 DEF WindsDown, Onward
  <2>4. req # None => m.id # count
    <3>1. req # None => m.id < count /\ count \in Nat
      BY <1>1, <1>2, Counted DEF Quiet
    <3> QED
      BY <1>2, <3>1
  <2> QED
    BY <1>2, <1>3, <2>1, <2>2, <2>3, <2>4, SessionWinds
<1>5. CASE session[m.to][m.id].state # "offered"
  <2>1. UNCHANGED session
    BY <1>5 DEF Acked
  <2>2. Typed' /\ Listed' /\ Consumed' /\ Current' /\ Asked' = Asked
    BY <1>1, <1>3, <2>1 DEF Typed, Listed, Consumed, Whole, StateOf, Current, Asked, peers
  <2>3. Quieter
    BY <1>3, <2>1 DEF Quieter, WindsDown
  <2> QED
    BY <1>3, <2>1, <2>2, <2>3, Kept
<1> QED
  BY <1>4, <1>5

\* What is left of a stream, when the peer has notified n of a channel
LeftAfter(left, ch, n) ==
  IF n = "next" THEN [left EXCEPT ![ch] = @ - 1]
  ELSE [c \in DOMAIN left \ {ch} |-> left[c]]

\* l is what is left after left, when n has been notified of ch
Less(l, left, ch, n) ==
  /\ l \in UNION {[D -> 0 .. MaxItems] : D \in SUBSET Channel}
  /\ DOMAIN l \subseteq DOMAIN left
  /\ \A k \in DOMAIN l \ {ch} : l[k] = left[k]
  /\ ch \in DOMAIN l => n = "next" /\ l[ch] = left[ch] - 1

\* Notifications take from what is left, or end the channel.
LEMMA LeftAfterTyped ==
  ASSUME NEW C \in SUBSET Channel, NEW left \in [C -> 0 .. MaxItems], NEW ch \in C,
         NEW n \in {"next", "complete", "error"}, n = "next" => left[ch] # 0
  PROVE  Less(LeftAfter(left, ch, n), left, ch, n)
<1>1. CASE n = "next"
  <2>1. left[ch] - 1 \in 0 .. MaxItems
    BY <1>1, RemotesAssumption
  <2>2. LeftAfter(left, ch, n) = [left EXCEPT ![ch] = left[ch] - 1]
    BY <1>1 DEF LeftAfter
  <2>3. LeftAfter(left, ch, n) \in [C -> 0 .. MaxItems]
    BY <2>1, <2>2
  <2> QED
    BY <1>1, <2>2, <2>3 DEF Less
<1>2. CASE n # "next"
  <2>1. LeftAfter(left, ch, n) \in [C \ {ch} -> 0 .. MaxItems] /\ C \ {ch} \in SUBSET Channel
    BY <1>2 DEF LeftAfter
  <2>2. \A k \in C \ {ch} : LeftAfter(left, ch, n)[k] = left[k]
    BY <1>2 DEF LeftAfter
  <2> QED
    BY <2>1, <2>2 DEF Less
<1> QED
  BY <1>1, <1>2

\* d is what consumer c is, when n has been notified of ch
More(d, c, kind, ch, n) ==
  /\ d \in ConsumerOf(kind)
  /\ d.from = c.from /\ d.id = c.id /\ d.kind = c.kind
  /\ \A k \in Channels(kind) :
       /\ d.got[k] = IF k = ch /\ n = "next" THEN c.got[k] + 1 ELSE c.got[k]
       /\ d.ended[k] = IF k = ch /\ n # "next" THEN n ELSE c.ended[k]

\* A consumer that is notified gets an item, or its channel ends.
LEMMA NotifiedTyped ==
  ASSUME NEW kind \in Kind, NEW c \in ConsumerOf(kind), NEW ch,
         NEW n \in {"next", "complete", "error"},
         n = "next" /\ ch \in Channels(kind) => c.got[ch] + 1 \in 0 .. MaxItems
  PROVE  More(Notified(c, ch, n), c, kind, ch, n)
<1>1. c.got \in [Channels(kind) -> 0 .. MaxItems]
      /\ c.ended \in [Channels(kind) -> {"no", "slow", "complete", "error"}]
  BY DEF ConsumerOf
<1>2. CASE n = "next"
  <2> DEFINE g == [c.got EXCEPT ![ch] = c.got[ch] + 1]
  <2>1. g \in [Channels(kind) -> 0 .. MaxItems]
    BY <1>1, <1>2
  <2>2. \A k \in Channels(kind) : g[k] = IF k = ch THEN c.got[k] + 1 ELSE c.got[k]
    BY <1>1
  <2>3. Notified(c, ch, n) = [c EXCEPT !.got = g]
    BY <1>2 DEF Notified, ConsumerOf
  <2> HIDE DEF g
  <2> QED
    BY <1>2, <2>1, <2>2, <2>3 DEF ConsumerOf, More
<1>3. CASE n # "next"
  <2> DEFINE e == [c.ended EXCEPT ![ch] = n]
  <2>1. e \in [Channels(kind) -> {"no", "slow", "complete", "error"}]
    BY <1>1, <1>3
  <2>2. \A k \in Channels(kind) : e[k] = IF k = ch THEN n ELSE c.ended[k]
    BY <1>1
  <2>3. Notified(c, ch, n) = [c EXCEPT !.ended = e]
    BY <1>3 DEF Notified, ConsumerOf
  <2> HIDE DEF e
  <2> QED
    BY <1>3, <2>1, <2>2, <2>3 DEF ConsumerOf, More
<1> QED
  BY <1>2, <1>3

\* Notify has the consumer get what the peer had left.
LEMMA NotifySound ==
  ASSUME IInv, NEW p \in Peer, NEW id \in 1 .. MaxRequests, NEW ch \in Channel, Notify(p, id, ch)
  PROVE  IInv'
<1>1. Typed /\ Current /\ Listed /\ Quiet /\ Consumed
  BY DEF IInv
<1> DEFINE s == session[p][id]
           Lost == \/ consumer = None
                   \/ consumer.from # p \/ consumer.id # id \/ consumer.ended[ch] # "no"
<1>2. /\ session \in [Peer -> [1 .. MaxRequests -> Session]]
      /\ s \in [state : {"streaming"}, left : UNION {[C -> 0 .. MaxItems] : C \in SUBSET Channel}]
      /\ s.state = "streaming" /\ ch \in DOMAIN s.left
  <2>1. session \in [Peer -> [1 .. MaxRequests -> Session]]
    BY <1>1 DEF Typed
  <2>2. s \in Session
    BY <2>1
  <2> QED
    BY <2>1, <2>2, SessionStates DEF Notify
<1>3. PICK C \in SUBSET Channel : s.left \in [C -> 0 .. MaxItems]
  BY <1>2
<1>4. PICK n \in IF s.left[ch] = 0 THEN {"complete", "error"} ELSE {"next", "error"} :
        /\ session' = [session EXCEPT ![p][id] =
                         IF DOMAIN LeftAfter(s.left, ch, n) = {} THEN Over
                         ELSE [@ EXCEPT !.left = LeftAfter(s.left, ch, n)]]
        /\ consumer' = IF Lost THEN consumer ELSE Notified(consumer, ch, n)
  BY DEF Notify, LeftAfter
<1> DEFINE left == LeftAfter(s.left, ch, n)
           t == IF DOMAIN left = {} THEN Over ELSE [s EXCEPT !.left = left]
<1>5. /\ n \in {"next", "complete", "error"}
      /\ n = "next" => s.left[ch] # 0
      /\ n = "complete" => s.left[ch] = 0
      /\ ch \in C
  BY <1>2, <1>3, <1>4
<1>6. /\ left \in UNION {[D -> 0 .. MaxItems] : D \in SUBSET Channel}
      /\ DOMAIN left \subseteq DOMAIN s.left
      /\ \A k \in DOMAIN left \ {ch} : left[k] = s.left[k]
      /\ ch \in DOMAIN left => n = "next" /\ left[ch] = s.left[ch] - 1
  <2> DEFINE l == s.left
  <2>1. l \in [C -> 0 .. MaxItems] /\ (n = "next" => l[ch] # 0) /\ DOMAIN l = C
    BY <1>3, <1>5
  <2> HIDE DEF l, s
  <2>2. Less(LeftAfter(l, ch, n), l, ch, n)
    BY <1>5, <2>1, LeftAfterTyped
  <2> QED
    BY <2>1, <2>2 DEF l, Less
<1>7. session' = [session EXCEPT ![p][id] = t]
  BY <1>4
<1>8. consumer' = IF Lost THEN consumer ELSE Notified(consumer, ch, n)
  BY <1>4
<1> HIDE DEF left
<1>9. /\ t \in Session /\ t.state \in {"over", "streaming"}
      /\ t.state = "streaming" => t.left = left
  BY <1>2, <1>6 DEF Session, Over
<1>10. UNCHANGED <<peers, recent, count, req, last, net, unwiring>>
  BY DEF Notify
<1> HIDE DEF s, t
<1>11. /\ session' \in [Peer -> [1 .. MaxRequests -> Session]]
       /\ session'[p][id] = t
       /\ \A q \in Peer, k \in 1 .. MaxRequests : q # p \/ k # id => session'[q][k] = session[q][k]
  <2>1. session \in [Peer -> [1 .. MaxRequests -> Session]] /\ t \in Session
    BY <1>2, <1>9
  <2> QED
    BY <2>1, <1>7, SessionSet, ZenonT(60)
<1>12. WindsDown(session[p][id], t)
  BY <1>2, <1>9 DEF WindsDown, s
<1>13. Quieter
  <2>1. \A q \in Peer, k \in 1 .. MaxRequests : WindsDown(session[q][k], session'[q][k])
    BY <1>1, <1>7, <1>9, <1>12, Winds
  <2> QED
    BY <1>10, <2>1 DEF Quieter
<1>14. \A q \in Peer : req' # None /\ session'[q][count].state = "streaming" =>
         session[q][count].state = "streaming"
  <2> SUFFICES ASSUME req # None, NEW q \in Peer, session'[q][count].state = "streaming"
               PROVE  session[q][count].state = "streaming"
    BY <1>10
  <2>1. count \in 1 .. MaxRequests
    BY <1>1, Counted
  <2> QED
    BY <1>2, <1>11, <2>1 DEF s
<1>15. ASSUME consumer # None
       PROVE  /\ consumer' \in UNION {ConsumerOf(kind) : kind \in Kind}
              /\ consumer'.id = count /\ consumer'.kind = consumer.kind
              /\ \A k \in Channels(consumer.kind) : Whole(k)'
  <2>1. PICK kind \in Kind : consumer \in ConsumerOf(kind)
    BY <1>1, <1>15 DEF Typed
  <2>2. consumer.kind = kind /\ consumer.from \in Peer /\ consumer.id = count /\ count \in 1 .. MaxRequests
    BY <1>1, <1>15, <2>1, Counted DEF ConsumerOf, Current
  <2>3. \A k \in Channels(kind) :
          /\ consumer.got[k] \in 0 .. MaxItems
          /\ consumer.ended[k] = "complete" => consumer.got[k] = MaxItems
          /\ consumer.ended[k] = "no" =>
               /\ StateOf(consumer.from, count) \in {"sent", "offered"} => consumer.got[k] = 0
               /\ StateOf(consumer.from, count) = "streaming" /\ k \in DOMAIN session[consumer.from][count].left =>
                    consumer.got[k] + session[consumer.from][count].left[k] = MaxItems
    BY <1>1, <1>15, <2>1, <2>2 DEF Consumed, Whole, ConsumerOf
  <2>4. CASE consumer.from # p \/ count # id
    <3>1. consumer' = consumer
      BY <1>8, <2>2, <2>4
    <3>2. session'[consumer.from][count] = session[consumer.from][count]
      BY <1>11, <2>2, <2>4
    <3> QED
      BY <1>10, <2>1, <2>2, <2>3, <3>1, <3>2 DEF Whole, StateOf
  <2>5. CASE consumer.from = p /\ count = id
    <3>1. \A k \in Channels(kind) \cap DOMAIN s.left :
            consumer.ended[k] = "no" => consumer.got[k] + s.left[k] = MaxItems
      BY <1>2, <2>3, <2>5 DEF StateOf, s
    <3>2. \A k \in DOMAIN s.left : s.left[k] \in 0 .. MaxItems
      BY <1>3
    <3>3. CASE Lost
      <4>1. consumer' = consumer /\ consumer.ended[ch] # "no"
        BY <1>8, <1>15, <2>2, <2>5, <3>3
      <4>2. ASSUME NEW k \in Channels(kind)
            PROVE  Whole(k)'
        <5>1. k = ch => consumer.ended[k] # "no"
          BY <4>1
        <5>2. t.state = "streaming" /\ k \in DOMAIN t.left /\ consumer.ended[k] = "no" =>
                consumer.got[k] + t.left[k] = MaxItems
          BY <1>6, <1>9, <3>1, <5>1
        <5> QED
          BY <1>9, <1>10, <1>11, <2>3, <2>5, <4>1, <5>2 DEF Whole, StateOf
      <4> QED
        BY <2>1, <2>2, <4>1, <4>2
    <3>4. CASE ~Lost
      <4>1. consumer.ended[ch] = "no" /\ consumer' = Notified(consumer, ch, n)
        BY <1>8, <1>15, <2>2, <2>5, <3>4
      <4>2. n = "next" /\ ch \in Channels(kind) => consumer.got[ch] + 1 \in 0 .. MaxItems
        BY <1>2, <1>5, <2>3, <3>1, <3>2, <4>1, RemotesAssumption
      <4>3. /\ consumer' \in ConsumerOf(kind)
            /\ consumer'.from = consumer.from /\ consumer'.id = consumer.id
            /\ consumer'.kind = consumer.kind
            /\ \A k \in Channels(kind) :
                 /\ consumer'.got[k] = IF k = ch /\ n = "next" THEN consumer.got[k] + 1 ELSE consumer.got[k]
                 /\ consumer'.ended[k] = IF k = ch /\ n # "next" THEN n ELSE consumer.ended[k]
        <5>1. More(Notified(consumer, ch, n), consumer, kind, ch, n)
          <6>1. n \in {"next", "complete", "error"} /\ kind \in Kind /\ consumer \in ConsumerOf(kind)
            BY <1>5, <2>1
          <6> HIDE DEF s, t, left
          <6> QED
            BY <6>1, <4>2, NotifiedTyped
        <5> QED
          BY <4>1, <5>1 DEF More
      <4>4. ASSUME NEW k \in Channels(kind)
            PROVE  Whole(k)'
        <5>1. consumer'.ended[k] = "complete" => consumer'.got[k] = MaxItems
          <6>1. CASE k = ch /\ n = "complete"
            <7>1. consumer.got[k] + 0 = MaxItems /\ consumer'.got[k] = consumer.got[k]
              BY <1>2, <1>5, <3>1, <4>1, <4>3, <6>1
            <7> QED
              BY <2>3, <7>1, RemotesAssumption
          <6>2. CASE ~(k = ch /\ n = "complete")
            BY <1>5, <2>3, <4>1, <4>3, <6>2
          <6> QED
            BY <6>1, <6>2
        <5>2. t.state = "streaming" /\ k \in DOMAIN t.left /\ consumer'.ended[k] = "no" =>
                consumer'.got[k] + t.left[k] = MaxItems
          <6> SUFFICES ASSUME t.state = "streaming", k \in DOMAIN t.left, consumer'.ended[k] = "no"
                       PROVE  consumer'.got[k] + t.left[k] = MaxItems
            OBVIOUS
          <6>1. CASE k = ch
            <7>1. n = "next" /\ t.left[k] = s.left[k] - 1 /\ consumer'.got[k] = consumer.got[k] + 1
              BY <1>6, <1>9, <4>3, <6>1
            <7>2. consumer.got[k] + s.left[k] = MaxItems
              BY <1>2, <3>1, <4>1, <6>1
            <7>3. s.left[k] \in 0 .. MaxItems /\ consumer.got[k] \in 0 .. MaxItems /\ MaxItems \in Nat
              BY <1>2, <2>3, <3>2, <6>1, RemotesAssumption
            <7> QED
              BY <7>1, <7>2, <7>3
          <6>2. CASE k # ch
            <7>1. t.left[k] = s.left[k] /\ k \in DOMAIN s.left
              BY <1>6, <1>9, <6>2
            <7> QED
              BY <3>1, <4>3, <6>2, <7>1
          <6> QED
            BY <6>1, <6>2
        <5> QED
          BY <1>9, <1>10, <1>11, <2>5, <4>3, <5>1, <5>2 DEF Whole, StateOf
      <4> QED
        BY <2>2, <4>3, <4>4
    <3> QED
      BY <3>3, <3>4
  <2> QED
    BY <2>4, <2>5
<1>16. consumer = None => consumer' = None
  BY <1>8
<1>17. Typed'
  BY <1>1, <1>10, <1>11, <1>15, <1>16 DEF Typed, peers
<1>18. Current' /\ Listed' /\ Asked' = Asked
  <2>1. req # None => consumer = None
    BY <1>1 DEF Current
  <2>2. Current'
    BY <1>1, <1>10, <1>15, <1>16, <2>1 DEF Current
  <2> QED
    BY <1>1, <1>10, <2>2 DEF Listed, Asked, peers
<1>19. Consumed'
  BY <1>15, <1>16 DEF Consumed
<1> QED
  BY <1>10, <1>13, <1>14, <1>15, <1>16, <1>17, <1>18, <1>19, Kept

-----------------------------------------------------------------------------
(* Presence *)

\* What is left of a sequence when an element is removed
LEMMA RemoveAtProperties ==
  ASSUME NEW q \in Seq(Peer), NEW i \in DOMAIN q
  PROVE  /\ RemoveAt(q, i) \in Seq(Peer)
         /\ Len(q) \in Nat /\ Len(q) > 0 /\ DOMAIN q = 1 .. Len(q) /\ i \in 1 .. Len(q)
         /\ DOMAIN RemoveAt(q, i) = 1 .. Len(q) - 1
         /\ \A k \in 1 .. Len(q) - 1 : RemoveAt(q, i)[k] = q[IF k < i THEN k ELSE k + 1]
<1> DEFINE n == Len(q)
           a == SubSeq(q, 1, i - 1)
           b == SubSeq(q, i + 1, n)
           r == a \o b
<1>1. n \in Nat /\ DOMAIN q = 1 .. n /\ i \in 1 .. n /\ \A k \in 1 .. n : q[k] \in Peer
  BY LenProperties
<1> HIDE DEF n
<1>2. /\ a \in Seq(Peer) /\ Len(a) = i - 1
      /\ \A k \in 1 .. i - 1 : a[k] = q[k]
  <2>1. i - 1 \in Int /\ 1 \in Int /\ \A k \in 1 .. i - 1 : q[k] \in Peer
    BY <1>1
  <2>2. /\ a \in Seq(Peer) /\ Len(a) = IF 1 <= i - 1 THEN (i - 1) - 1 + 1 ELSE 0
        /\ \A k \in 1 .. (i - 1) - 1 + 1 : a[k] = q[1 + k - 1]
    BY <2>1, SubSeqProperties
  <2> HIDE DEF a
  <2>3. \A k \in 1 .. i - 1 : k \in 1 .. (i - 1) - 1 + 1 /\ 1 + k - 1 = k
    BY <1>1
  <2> QED
    BY <1>1, <2>2, <2>3
<1>3. /\ b \in Seq(Peer) /\ Len(b) = n - i
      /\ \A k \in 1 .. n - i : b[k] = q[i + k]
  <2>1. i + 1 \in Int /\ n \in Int /\ \A k \in i + 1 .. n : q[k] \in Peer
    BY <1>1
  <2>2. /\ b \in Seq(Peer) /\ Len(b) = IF i + 1 <= n THEN n - (i + 1) + 1 ELSE 0
        /\ \A k \in 1 .. n - (i + 1) + 1 : b[k] = q[(i + 1) + k - 1]
    BY <2>1, SubSeqProperties
  <2> HIDE DEF b
  <2>3. \A k \in 1 .. n - i : k \in 1 .. n - (i + 1) + 1 /\ (i + 1) + k - 1 = i + k
    BY <1>1
  <2> QED
    BY <1>1, <2>2, <2>3
<1> HIDE DEF a, b
<1>4. /\ r \in Seq(Peer) /\ Len(r) = (i - 1) + (n - i)
      /\ \A k \in 1 .. (i - 1) + (n - i) : r[k] = IF k <= i - 1 THEN a[k] ELSE b[k - (i - 1)]
  <2>1. /\ r \in Seq(Peer) /\ Len(r) = Len(a) + Len(b)
        /\ \A k \in 1 .. Len(a) + Len(b) : r[k] = IF k <= Len(a) THEN a[k] ELSE b[k - Len(a)]
    BY <1>2, <1>3, ConcatProperties
  <2> QED
    BY <1>2, <1>3, <2>1
<1> HIDE DEF r
<1>5. Len(r) = n - 1 /\ DOMAIN r = 1 .. n - 1
  <2>1. (i - 1) + (n - i) = n - 1
    BY <1>1
  <2>2. DOMAIN r = 1 .. Len(r)
    BY <1>4, LenProperties
  <2> QED
    BY <1>4, <2>1, <2>2
<1>6. ASSUME NEW k \in 1 .. n - 1
      PROVE  r[k] = q[IF k < i THEN k ELSE k + 1]
  <2>1. k \in 1 .. (i - 1) + (n - i)
    BY <1>1
  <2>2. CASE k < i
    <3>1. k <= i - 1 /\ k \in 1 .. i - 1
      BY <1>1, <2>2
    <3> QED
      BY <1>2, <1>4, <2>1, <2>2, <3>1
  <2>3. CASE ~(k < i)
    <3>1. ~(k <= i - 1) /\ k - (i - 1) \in 1 .. n - i /\ i + (k - (i - 1)) = k + 1
      BY <1>1, <2>3
    <3>2. b[k - (i - 1)] = q[k + 1]
      BY <1>3, <3>1
    <3> QED
      BY <1>4, <2>1, <2>3, <3>1, <3>2
  <2> QED
    BY <2>2, <2>3
<1>7. RemoveAt(q, i) = r
  BY DEF RemoveAt, r, a, b, n
<1>8. n > 0
  BY <1>1
<1> QED
  BY <1>1, <1>4, <1>5, <1>6, <1>7, <1>8 DEF n

\* Leave takes a peer out of the list.
LEMMA LeaveSound ==
  ASSUME IInv, NEW p \in Peer, Leave(p)
  PROVE  IInv'
<1>1. Typed /\ Current /\ Listed /\ Consumed
  BY DEF IInv
<1>2. present \in Seq(Peer)
  BY <1>1 DEF Typed
<1>3. PICK i \in DOMAIN present : present[i] = p /\ present' = RemoveAt(present, i)
  BY DEF Leave
<1>4. /\ present' \in Seq(Peer)
      /\ Len(present) \in Nat /\ DOMAIN present = 1 .. Len(present) /\ i \in 1 .. Len(present)
      /\ DOMAIN present' = 1 .. Len(present) - 1
      /\ \A k \in 1 .. Len(present) - 1 : present'[k] = present[IF k < i THEN k ELSE k + 1]
  BY <1>2, <1>3, RemoveAtProperties
<1>5. /\ gone' = gone \cup {p}
      /\ req' = IF req = None THEN None ELSE [req EXCEPT !.throughout = @ \ {p}]
      /\ UNCHANGED <<recent, count, last, net, unwiring, session, consumer>>
  BY DEF Leave
<1>6. req # None => /\ req' \in RequestRecord /\ req' # None
                    /\ req'.id = req.id /\ req'.kind = req.kind /\ req'.waiting = req.waiting
                    /\ req'.offer = req.offer /\ req'.tried = req.tried
  <2> SUFFICES ASSUME req # None
               PROVE  /\ req' \in RequestRecord /\ req' # None
                      /\ req'.id = req.id /\ req'.kind = req.kind /\ req'.waiting = req.waiting
                      /\ req'.offer = req.offer /\ req'.tried = req.tried
    OBVIOUS
  <2>1. req \in RequestRecord
    BY <1>1 DEF Typed
  <2>2. req' = [req EXCEPT !.throughout = req.throughout \ {p}]
    BY <1>5
  <2>3. req' \in RequestRecord
    BY <2>1, <2>2 DEF RequestRecord
  <2>4. req' # None
    BY <2>3, RequestFields
  <2> QED
    BY <2>1, <2>2, <2>3, <2>4 DEF RequestRecord
<1>7. req = None => req' = None
  BY <1>5
<1>8. Typed'
  BY <1>1, <1>4, <1>5, <1>6, <1>7 DEF Typed
<1>9. Current' /\ (req # None => Asked' = Asked)
  BY <1>1, <1>5, <1>6, <1>7 DEF Current, Asked
<1>10. Listed'
  <2> SUFFICES ASSUME NEW j \in DOMAIN present', NEW k \in DOMAIN present', present'[j] = present'[k]
               PROVE  j = k
    BY DEF Listed
  <2> DEFINE J == IF j < i THEN j ELSE j + 1
             K == IF k < i THEN k ELSE k + 1
  <2>1. J \in DOMAIN present /\ K \in DOMAIN present /\ (J = K => j = k)
    BY <1>4
  <2>2. present[J] = present[K]
    BY <1>4
  <2> HIDE DEF J, K
  <2> QED
    BY <1>1, <2>1, <2>2 DEF Listed
<1>11. Consumed'
  BY <1>1, <1>5 DEF Consumed, Whole, StateOf
<1>12. Quieter
  BY <1>5 DEF Quieter, WindsDown
<1> QED
  BY <1>5, <1>6, <1>7, <1>8, <1>9, <1>10, <1>11, <1>12, Kept

\* Join lists a peer that is not.
LEMMA JoinSound ==
  ASSUME IInv, NEW p \in Peer, Join(p)
  PROVE  IInv'
<1>1. Typed /\ Current /\ Listed /\ Consumed
  BY DEF IInv
<1>2. /\ present \in Seq(Peer)
      /\ Len(present) \in Nat /\ DOMAIN present = 1 .. Len(present)
  BY <1>1, LenProperties DEF Typed
<1>3. /\ present' = Append(present, p)
      /\ UNCHANGED <<gone, recent, count, req, last, net, unwiring, session, consumer>>
  BY DEF Join
<1>4. /\ present' \in Seq(Peer) /\ DOMAIN present' = 1 .. Len(present) + 1
      /\ \A k \in 1 .. Len(present) : present'[k] = present[k]
      /\ present'[Len(present) + 1] = p
  BY <1>2, <1>3, AppendProperties, LenProperties
<1>5. \A k \in DOMAIN present : present[k] # p
  BY DEF Join, Range
<1>6. Listed'
  BY <1>1, <1>2, <1>4, <1>5 DEF Listed
<1>7. Typed' /\ Current' /\ Asked' = Asked /\ Consumed'
  BY <1>1, <1>3, <1>4 DEF Typed, Current, Asked, Consumed, Whole, StateOf
<1>8. Quieter
  BY <1>3 DEF Quieter, WindsDown
<1> QED
  BY <1>3, <1>6, <1>7, <1>8, Kept

\* At the start peers are listed once, the first of them those that were sent to.
LEMMA InitListed ==
  ASSUME Init
  PROVE  /\ present \in Seq(Peer) /\ Listed
         /\ recent \subseteq Range(present)
         /\ Prefix
<1> DEFINE q == SetToSeq(Peer)
           N == Cardinality(Peer)
<1>1. N \in Nat
  BY RemotesAssumption, FS_CardinalityType
<1>2. PICK f \in Bijection(1 .. N, Peer) : TRUE
  BY RemotesAssumption, FS_CardinalityType DEF ExistsBijection
<1>3. f \in [1 .. N -> Peer] /\ IsInjective(f)
  BY DEF Bijection, Injection, IsInjective
<1>4. q \in [1 .. N -> Peer] /\ IsInjective(q)
  BY <1>3 DEF SetToSeq
<1> HIDE DEF q, N
<1>5. PICK n \in 0 .. N : /\ present = SubSeq(q, 1, n)
                          /\ \E m \in 0 .. n : recent = Range(SubSeq(present, 1, m))
  BY DEF Init, q, N
<1>6. PICK m \in 0 .. n : recent = Range(SubSeq(present, 1, m))
  BY <1>5
<1>7. /\ present \in Seq(Peer) /\ DOMAIN present = 1 .. n
      /\ \A i \in 1 .. n : present[i] = q[i] /\ i \in 1 .. N
  <2>1. 1 \in Int /\ n \in Int /\ \A i \in 1 .. n : q[i] \in Peer
    BY <1>1, <1>4
  <2>2. /\ present \in Seq(Peer) /\ Len(present) = IF 1 <= n THEN n - 1 + 1 ELSE 0
        /\ \A i \in 1 .. n - 1 + 1 : present[i] = q[1 + i - 1]
    BY <1>5, <2>1, SubSeqProperties
  <2>3. Len(present) = n
    BY <1>1, <2>2
  <2>4. \A i \in 1 .. n : i \in 1 .. n - 1 + 1 /\ 1 + i - 1 = i /\ i \in 1 .. N
    BY <1>1
  <2> QED
    BY <2>2, <2>3, <2>4, LenProperties
<1> DEFINE r == SubSeq(present, 1, m)
<1>8. DOMAIN r = 1 .. m /\ \A i \in 1 .. m : r[i] = present[i] /\ i \in 1 .. n
  <2>1. 1 \in Int /\ m \in Int /\ \A i \in 1 .. m : present[i] \in Peer
    BY <1>1, <1>4, <1>7
  <2>2. /\ r \in Seq(Peer) /\ Len(r) = IF 1 <= m THEN m - 1 + 1 ELSE 0
        /\ \A i \in 1 .. m - 1 + 1 : r[i] = present[1 + i - 1]
    BY <2>1, SubSeqProperties
  <2> HIDE DEF r
  <2>3. Len(r) = m
    BY <1>1, <2>2
  <2>4. \A i \in 1 .. m : i \in 1 .. m - 1 + 1 /\ 1 + i - 1 = i /\ i \in 1 .. n
    BY <1>1
  <2> QED
    BY <2>2, <2>3, <2>4, LenProperties
<1>9. recent = Range(r)
  BY <1>6
<1> HIDE DEF r
<1>10. Listed
  BY <1>4, <1>7 DEF Listed, IsInjective
<1>11. recent \subseteq Range(present)
  BY <1>7, <1>8, <1>9 DEF Range
<1>12. Prefix
  <2> SUFFICES ASSUME NEW i \in DOMAIN present, NEW j \in DOMAIN present, i < j, present[j] \in recent
               PROVE  present[i] \in recent
    BY DEF Prefix
  <2>1. PICK k \in 1 .. m : present[j] = r[k]
    BY <1>8, <1>9 DEF Range
  <2>2. k = j
    BY <1>7, <1>8, <1>10, <2>1 DEF Listed
  <2>3. i \in 1 .. m
    BY <1>1, <1>7, <2>2
  <2> QED
    BY <1>8, <1>9, <2>3 DEF Range
<1> QED
  BY <1>7, <1>10, <1>11, <1>12

\* At the start there are only replies to earlier requests on their way.
LEMMA InitSound ==
  ASSUME Init
  PROVE  IInv
<1>0. MaxRequests \in Nat /\ 0 \in 0 .. MaxRequests
  BY RemotesAssumption
<1>1. /\ present \in Seq(Peer) /\ Listed /\ recent \subseteq Peer
  <2>1. present \in Seq(Peer) /\ Listed /\ recent \subseteq Range(present)
    BY InitListed
  <2> QED
    BY <2>1, LenProperties DEF Range
<1>2. /\ gone = {} /\ count = 0 /\ req = None /\ last = None /\ unwiring = {} /\ consumer = None
      /\ session = [p \in Peer |-> [id \in 1 .. MaxRequests |-> NoSession]]
      /\ \A m \in net : \E p \in recent : m = [type |-> "reply", from |-> p, id |-> 0, res |-> "ok"]
  BY DEF Init
<1>3. /\ session \in [Peer -> [1 .. MaxRequests -> Session]]
      /\ \A p \in Peer, id \in 1 .. MaxRequests : session[p][id] = NoSession /\ StateOf(p, id) = "none"
  <2>1. NoSession \in Session /\ NoSession.state = "none"
    BY DEF Session, NoSession
  <2> HIDE DEF NoSession
  <2> QED
    BY <1>2, <2>1 DEF StateOf
<1>4. ASSUME NEW m \in net
      PROVE  /\ m \in ReplyMessage /\ m.id = 0
             /\ m = [type |-> "reply", from |-> m.from, id |-> 0, res |-> "ok"]
  <2>1. PICK p \in recent : m = [type |-> "reply", from |-> p, id |-> 0, res |-> "ok"]
    BY <1>2
  <2> QED
    BY <1>0, <1>1, <2>1 DEF ReplyMessage, Answered
<1>5. Typed
  BY <1>0, <1>1, <1>2, <1>3, <1>4 DEF Typed
<1>6. Current /\ Quiet /\ Consumed /\ OneByOne
  BY <1>2 DEF Current, Quiet, Consumed, OneByOne
<1>7. Timely
  BY <1>2, <1>3, <1>4 DEF Timely
<1>8. Conversations
  <2>1. ASSUME NEW p \in Peer
        PROVE  Conversation(p)
    <3>1. \A m, n \in net : m.from = p /\ n.from = p => m = n
      BY <1>4
    <3>2. \A id \in 0 .. MaxRequests : Sole(p, id)
      BY <1>2, <3>1 DEF Sole, IsReply
    <3> QED
      BY <1>2, <1>3, <3>2 DEF Conversation
  <2>2. \A m \in net : Told(m)
    BY <1>4 DEF Told
  <2> QED
    BY <1>2, <2>1, <2>2 DEF Conversations
<1> QED
  BY <1>1, <1>5, <1>6, <1>7, <1>8 DEF IInv

-----------------------------------------------------------------------------
(***************************************************************************)
(* The invariant, and what follows                                         *)
(***************************************************************************)

\* No step breaks the invariant.
LEMMA StepSound ==
  ASSUME IInv, [Next]_vars
  PROVE  IInv'
<1>1. ASSUME NEW kind \in Kind, Request(kind)
      PROVE  IInv'
  BY <1>1, RequestSound
<1>2. ASSUME Asking
      PROVE  IInv'
  <2>1. CASE Ask
    BY <2>1, AskSound
  <2>2. CASE TimeOut
    BY <2>2, TimeOutSound
  <2>3. CASE Subscribe
    BY <2>3, SubscribeSound
  <2>4. ASSUME NEW m \in net, Reply(m)
        PROVE  IInv'
    BY <2>4, ReplySound
  <2>5. ASSUME NEW m \in net, Drop(m)
        PROVE  IInv'
    BY <2>5, DropSound
  <2>6. ASSUME NEW u \in unwiring, Unwired(u)
        PROVE  IInv'
    BY <2>6, UnwiredSound
  <2>7. ASSUME NEW ch \in {"data", "updates"}, Slow(ch)
        PROVE  IInv'
    BY <2>7, SlowSound
  <2> QED
    BY <1>2, <2>1, <2>2, <2>3, <2>4, <2>5, <2>6, <2>7 DEF Asking
<1>3. CASE PublishFails
  BY <1>3, PublishFailsSound
<1>4. ASSUME NEW p \in Peer, NEW id \in 1 .. MaxRequests, Serving(p, id)
      PROVE  IInv'
  <2>1. CASE Serve(p, id)
    BY <2>1, ServeSound
  <2>2. CASE AckTimeOut(p, id)
    BY <2>2, AckTimeOutSound
  <2>3. ASSUME NEW ch \in Channel, Notify(p, id, ch)
        PROVE  IInv'
    BY <2>3, NotifySound
  <2> QED
    BY <1>4, <2>1, <2>2, <2>3 DEF Serving, Channel
<1>5. ASSUME NEW m \in net, Acked(m)
      PROVE  IInv'
  BY <1>5, AckedSound
<1>6. ASSUME NEW p \in Peer, Leave(p)
      PROVE  IInv'
  BY <1>6, LeaveSound
<1>7. ASSUME NEW p \in Peer, Join(p)
      PROVE  IInv'
  BY <1>7, JoinSound
<1>8. CASE UNCHANGED vars
  <2>1. Typed' /\ Listed' /\ Consumed' /\ Current' /\ Asked' = Asked
    BY <1>8 DEF IInv, Typed, Listed, Consumed, Whole, StateOf, Current, Asked, vars
  <2>2. Quieter
    BY <1>8 DEF Quieter, WindsDown, vars
  <2> QED
    BY <1>8, <2>1, <2>2, Kept DEF vars
<1> QED
  BY <1>1, <1>2, <1>3, <1>4, <1>5, <1>6, <1>7, <1>8 DEF Next

\* Conversations with peers are about the requests that were made of them, one reply
\* each, and what is consumed is what the peer has given so far.
THEOREM Invariance == Spec => []IInv
<1>1. Init => IInv
  BY InitSound
<1>2. IInv /\ [Next]_vars => IInv'
  BY StepSound
<1> QED
  BY <1>1, <1>2, PTL DEF Spec

\* No more than one thing is in a set whose members are the same.
LEMMA AtMostOne ==
  ASSUME NEW S, \A p, q \in S : p = q
  PROVE  Cardinality(S) <= 1
<1>1. CASE S = {}
  BY <1>1, FS_EmptySet
<1>2. CASE S # {}
  <2>1. PICK p \in S : TRUE
    BY <1>2
  <2>2. S = {p}
    BY <2>1
  <2>3. Cardinality({p}) = 1
    BY FS_Singleton
  <2> QED
    BY <2>2, <2>3
<1> QED
  BY <1>1, <1>2

\* What the invariant says of the streams of a request
LEMMA InvariantStreams ==
  ASSUME IInv
  PROVE  StreamsSound
<1>1. Typed /\ Current /\ Listed /\ Timely /\ Consumed /\ OneByOne
  BY DEF IInv
<1>2. TypeOK
  <2>1. IsInjective(present) /\ Range(present) \subseteq Peer
    <3>1. present \in Seq(Peer)
      BY <1>1 DEF Typed
    <3> QED
      BY <1>1, <3>1, LenProperties DEF Listed, IsInjective, Range
  <2>2. ASSUME req # None
        PROVE  /\ req.id = count
               /\ req.waiting # None => req.waiting \notin DOMAIN req.tried
               /\ req.offer # None => req.waiting = None
    BY <1>1, <2>2 DEF Current
  <2>3. ASSUME NEW m \in net
        PROVE  m.id \in 0 .. count
    <3>1. m.id \in 0 .. MaxRequests
      <4>1. m \in ReplyMessage \/ m \in AckMessage
        BY <1>1 DEF Typed
      <4> QED
        BY <4>1, RemotesAssumption DEF ReplyMessage, AckMessage
    <3>2. m.id <= count /\ count \in Nat
      BY <1>1, Counted DEF Timely
    <3> QED
      BY <3>1, <3>2, RemotesAssumption
  <2> QED
    BY <1>1, <2>1, <2>2, <2>3 DEF TypeOK, Typed
<1>3. OneStream
  <2> SUFFICES ASSUME last # None, "timeout" \notin Range(last.tried)
               PROVE  Cardinality({p \in Peer : session[p][count].state = "streaming"}) <= 1
    BY DEF OneStream
  <2>1. InTime(last.tried)
    BY DEF InTime, Range
  <2>2. \A p, q \in Peer : StateOf(p, count) = "streaming" /\ StateOf(q, count) = "streaming" => p = q
    BY <1>1, <2>1 DEF OneByOne, Busy
  <2> DEFINE S == {p \in Peer : session[p][count].state = "streaming"}
  <2>3. \A p, q \in S : p = q
    BY <2>2 DEF StateOf
  <2> HIDE DEF S
  <2>4. Cardinality(S) <= 1
    BY <2>3, AtMostOne
  <2> QED
    BY <2>4 DEF S
<1>4. StreamsWhole
  <2> SUFFICES ASSUME consumer # None, NEW ch \in DOMAIN consumer.ended, consumer.ended[ch] = "complete"
               PROVE  consumer.got[ch] = MaxItems
    BY DEF StreamsWhole
  <2>1. PICK kind \in Kind : consumer \in ConsumerOf(kind)
    BY <1>1 DEF Typed
  <2>2. ch \in Channels(consumer.kind)
    BY <2>1 DEF ConsumerOf
  <2> QED
    BY <1>1, <2>2 DEF Consumed, Whole
<1> QED
  BY <1>2, <1>3, <1>4 DEF StreamsSound

\* So long as no attempt of a request timed out, no more than one peer streams for it
\* (getAck, readyToAck), and what has been consumed to its end is all that the peer had
\* to give (produce, onNotify).
THEOREM StreamsCorrect == Spec => []StreamsSound
<1>1. IInv => StreamsSound
  BY InvariantStreams
<1> QED
  BY <1>1, Invariance, PTL

\* An offer that is taken up is an answer to the request in progress, whatever late
\* replies there are (replyResolvers, messageId).
THEOREM AnswersRight == Spec => []AnswersTheQuestion
<1>1. IInv => AnswersTheQuestion
  BY DEF IInv, Current, AnswersTheQuestion
<1> QED
  BY <1>1, Invariance, PTL

-----------------------------------------------------------------------------
(***************************************************************************)
(* Everyone is asked before a request fails, if none comes back            *)
(***************************************************************************)

\* The outcomes of a request that ran out of peers
NoLuck == {"timeout", "rejected", "null"}

\* Nothing changes for a request that goes on, or ends with luck.
LEMMA RoundKept ==
  ASSUME Round, UNCHANGED <<present, gone, recent>>,
         req' # None => req # None /\ Asked' = Asked /\ req'.throughout = req.throughout,
         last' = last \/ last' = None \/ last'.result \notin NoLuck
  PROVE  Round'
<1>1. Prefix' /\ recent' \subseteq (Range(present) \cup gone)'
  BY DEF Round, Prefix
<1>2. ASSUME req' # None
      PROVE  /\ InTurn'
             /\ Asked' \subseteq (Range(present) \cup gone)'
             /\ (req.throughout \subseteq Range(present))'
  BY <1>2 DEF Round, InTurn, SameSide
<1>3. EveryoneAsked'
  BY DEF Round, EveryoneAsked, NoLuck
<1> QED
  BY <1>1, <1>2, <1>3 DEF Round

\* A request that is made has asked nobody.
LEMMA RequestRound ==
  ASSUME Round, NEW kind \in Kind, Request(kind)
  PROVE  Round'
<1>1. /\ UNCHANGED <<present, gone, recent>> /\ last' = None
      /\ req'.waiting = None /\ DOMAIN req'.tried = {} /\ req'.throughout = Range(present)
  BY DEF Request, peers
<1>2. Asked' = {}
  BY <1>1 DEF Asked
<1>3. InTurn'
  BY <1>2 DEF InTurn
<1>4. Prefix' /\ recent' \subseteq (Range(present) \cup gone)'
  BY <1>1 DEF Round, Prefix
<1> QED
  BY <1>1, <1>2, <1>3, <1>4 DEF Round, EveryoneAsked

\* Those before the next were sent to, and all of them again, or none, if all had been.
LEMMA NextInList ==
  ASSUME Typed, Listed, Round, NEW i \in DOMAIN present, IsNext(i)
  PROVE  /\ DOMAIN present \subseteq Nat
         /\ \A j \in DOMAIN present : j <= i \/ j > i
         /\ \A j \in DOMAIN present : present[j] = present[i] => j = i
         /\ \/ /\ Sent = recent /\ present[i] \notin recent
               /\ \A j \in DOMAIN present : j < i => present[j] \in recent
               /\ \A j \in DOMAIN present : j > i => present[j] \notin recent
            \/ /\ Sent = {} /\ Range(present) \subseteq recent
               /\ \A j \in DOMAIN present : j # i => j > i
<1>1. DOMAIN present = 1 .. Len(present) /\ Len(present) \in Nat
  <2>1. present \in Seq(Peer)
    BY DEF Typed
  <2> QED
    BY <2>1, LenProperties
<1>2. DOMAIN present \subseteq Nat /\ \A j \in DOMAIN present : j < i \/ j = i \/ j > i
  BY <1>1
<1>3. \A j \in DOMAIN present : present[j] = present[i] => j = i
  BY DEF Listed
<1>4. CASE Range(present) \subseteq recent
  <2>1. Sent = {}
    BY <1>4 DEF Sent
  <2>2. \A j \in DOMAIN present : j # i => j > i
    BY <1>2, <2>1 DEF IsNext
  <2> QED
    BY <1>1, <1>2, <1>3, <1>4, <2>1, <2>2
<1>5. CASE ~(Range(present) \subseteq recent)
  <2>1. Sent = recent
    BY <1>5 DEF Sent
  <2>2. present[i] \notin recent /\ \A j \in DOMAIN present : j < i => present[j] \in recent
    BY <2>1 DEF IsNext
  <2>3. \A j \in DOMAIN present : i < j => present[j] \notin recent
    BY <2>2 DEF Round, Prefix
  <2> QED
    BY <1>1, <1>2, <1>3, <2>1, <2>2, <2>3
<1> QED
  BY <1>4, <1>5

\* The next is sent to, as those before it.
LEMMA NextPrefix ==
  ASSUME Typed, Listed, Round, NEW i \in DOMAIN present, IsNext(i),
         UNCHANGED <<present, gone>>, recent' = Sent \cup {present[i]}
  PROVE  Prefix' /\ recent' \subseteq (Range(present) \cup gone)'
<1>1. Prefix'
  <2> SUFFICES ASSUME NEW j \in DOMAIN present, NEW k \in DOMAIN present, j < k,
                      present[k] \in Sent \cup {present[i]}
               PROVE  present[j] \in Sent \cup {present[i]}
    BY DEF Prefix
  <2>1. CASE present[k] = present[i]
    <3>1. k = i
      BY <2>1, NextInList
    <3> QED
      BY <3>1 DEF IsNext
  <2>2. CASE present[k] \in Sent
    <3>1. Sent = recent
      BY <2>2 DEF Sent
    <3> QED
      BY <2>2, <3>1 DEF Round, Prefix
  <2> QED
    BY <2>1, <2>2
<1>2. Sent \subseteq recent /\ present[i] \in Range(present)
  BY DEF Sent, Range
<1> QED
  BY <1>1, <1>2 DEF Round

\* When the next was asked already, so was everyone who was there throughout.
LEMMA RoundComplete ==
  ASSUME Typed, Listed, Round, req # None, NEW i \in DOMAIN present, IsNext(i),
         present[i] \in Asked
  PROVE  req.throughout \subseteq Asked
<1> SUFFICES ASSUME NEW x \in req.throughout
             PROVE  x \in Asked
  OBVIOUS
<1>1. InTurn /\ req.throughout \subseteq Range(present)
  BY DEF Round
<1>2. PICK k \in DOMAIN present : x = present[k]
  BY <1>1 DEF Range
<1>3. /\ \A j \in DOMAIN present : present[j] = present[i] => j = i
      /\ k <= i \/ k > i
  BY NextInList
<1>4. CASE k = i
  BY <1>2, <1>4
<1>5. CASE k # i /\ Range(present) \subseteq recent /\ \A j \in DOMAIN present : j # i => j > i
  <2>1. i < k
    BY <1>5, NextInList
  <2>2. SameSide(i, k)
    BY <1>5 DEF SameSide, Range
  <2> QED
    BY <1>1, <1>2, <2>1, <2>2 DEF InTurn
<1>6. CASE /\ k # i /\ present[i] \notin recent
           /\ \A j \in DOMAIN present : j < i => present[j] \in recent
           /\ \A j \in DOMAIN present : j > i => present[j] \notin recent
  <2>1. CASE present[k] \in recent
    <3>1. ~(Asked \cap Range(present) \subseteq recent)
      BY <1>6 DEF Range
    <3>2. recent \cap Range(present) \subseteq Asked
      BY <1>1, <3>1 DEF InTurn
    <3> QED
      BY <1>2, <2>1, <3>2 DEF Range
  <2>2. CASE present[k] \notin recent
    <3>1. ~(k < i)
      BY <1>6, <2>2
    <3>2. i < k
      <4>1. i \in Nat /\ k \in Nat
        BY NextInList
      <4> QED
        BY <1>6, <3>1, <4>1
    <3>3. SameSide(i, k)
      BY <1>6, <2>2 DEF SameSide
    <3> QED
      BY <1>1, <1>2, <3>2, <3>3 DEF InTurn
  <2> QED
    BY <2>1, <2>2
<1> QED
  BY <1>4, <1>5, <1>6, NextInList

\* When the next is asked, it is in its turn.
LEMMA TurnTaken ==
  ASSUME Typed, Listed, Round, req # None, NEW i \in DOMAIN present, IsNext(i),
         UNCHANGED <<present, gone>>, recent' = Sent \cup {present[i]},
         Asked' = Asked \cup {present[i]}, req'.throughout = req.throughout
  PROVE  InTurn'
<1> DEFINE p == present[i]
<1>1. InTurn
  BY DEF Round
<1>2. /\ DOMAIN present \subseteq Nat
      /\ \A j \in DOMAIN present : present[j] = p => j = i
  BY NextInList
<1>3. CASE /\ Sent = recent /\ p \notin recent
           /\ \A j \in DOMAIN present : j > i => present[j] \notin recent
  <2>1. recent' = recent \cup {p}
    BY <1>3
  <2>2. ASSUME NEW j \in DOMAIN present, NEW k \in DOMAIN present, j < k, SameSide(j, k)',
               present[j] \in Asked', present[k] \in req.throughout
        PROVE  present[k] \in Asked'
    <3>1. CASE present[k] = p
      BY <3>1
    <3>2. CASE present[k] # p /\ present[j] = p
      <4>1. j = i
        BY <1>2, <3>2
      <4>2. present[k] \in recent'
        BY <2>1, <2>2, <3>2 DEF SameSide
      <4>3. present[k] \notin recent /\ present[k] # p
        BY <1>2, <1>3, <2>2, <3>2, <4>1
      <4> QED
        BY <2>1, <4>2, <4>3
    <3>3. CASE present[k] # p /\ present[j] # p
      <4>1. SameSide(j, k) /\ present[j] \in Asked
        BY <2>1, <2>2, <3>3 DEF SameSide
      <4> QED
        BY <1>1, <2>2, <4>1 DEF InTurn
    <3> QED
      BY <3>1, <3>2, <3>3
  <2>3. \/ Asked' \cap Range(present) \subseteq recent'
        \/ recent' \cap Range(present) \subseteq Asked'
    BY <1>1, <2>1 DEF InTurn
  <2> QED
    BY <2>2, <2>3 DEF InTurn
<1>4. CASE /\ Sent = {} /\ Range(present) \subseteq recent
           /\ \A j \in DOMAIN present : j # i => j > i
  <2>1. recent' = {p}
    BY <1>4
  <2>2. ASSUME NEW j \in DOMAIN present, NEW k \in DOMAIN present, j < k, SameSide(j, k)',
               present[j] \in Asked', present[k] \in req.throughout
        PROVE  present[k] \in Asked'
    <3>1. CASE present[k] = p
      BY <3>1
    <3>2. CASE present[k] # p
      <4>1. present[j] # p /\ present[j] \in Asked
        BY <2>1, <2>2, <3>2 DEF SameSide
      <4>2. SameSide(j, k)
        BY <1>4 DEF SameSide, Range
      <4> QED
        BY <1>1, <2>2, <4>1, <4>2 DEF InTurn
    <3> QED
      BY <3>1, <3>2
  <2>3. recent' \cap Range(present) \subseteq Asked'
    BY <2>1
  <2> QED
    BY <2>2, <2>3 DEF InTurn
<1> QED
  BY <1>3, <1>4, NextInList

\* Ask goes on with the round, or ends the request when it is complete.
LEMMA AskRound ==
  ASSUME IInv, Round, Ask
  PROVE  Round'
<1>1. Typed /\ Listed /\ req # None /\ req.waiting = None /\ UNCHANGED <<present, gone>>
  BY DEF IInv, Ask, peers
<1>2. Asked = DOMAIN req.tried
  BY <1>1 DEF Asked
<1>3. CASE End("no visible clones") /\ recent' = Sent
  <2>1. req' = None /\ EveryoneAsked'
    BY <1>3 DEF End, EveryoneAsked
  <2>2. Prefix' /\ recent' \subseteq (Range(present) \cup gone)'
    BY <1>1, <1>3 DEF Round, Prefix, Sent
  <2> QED
    BY <2>1, <2>2 DEF Round
<1>4. ASSUME NEW i \in DOMAIN present, IsNext(i), recent' = Sent \cup {present[i]},
             HasTried(present[i]), End(req.tried[present[i]])
      PROVE  Round'
  <2>1. Prefix' /\ recent' \subseteq (Range(present) \cup gone)'
    BY <1>1, <1>4, NextPrefix
  <2>2. req.throughout \subseteq DOMAIN req.tried
    <3>1. present[i] \in Asked
      BY <1>2, <1>4 DEF HasTried
    <3> QED
      BY <1>1, <1>2, <1>4, <3>1, RoundComplete
  <2>3. req' = None /\ EveryoneAsked'
    BY <1>4, <2>2 DEF End, EveryoneAsked
  <2> QED
    BY <2>1, <2>3 DEF Round
<1>5. ASSUME NEW i \in DOMAIN present, IsNext(i), recent' = Sent \cup {present[i]},
             Attempt(present[i])
      PROVE  Round'
  <2>1. Prefix' /\ recent' \subseteq (Range(present) \cup gone)'
    BY <1>1, <1>5, NextPrefix
  <2>2. present[i] \in Peer /\ present[i] \in Range(present)
    <3>1. present \in Seq(Peer)
      BY <1>1 DEF Typed
    <3> QED
      BY <3>1, LenProperties DEF Range
  <2>3. /\ req' # None /\ req'.tried = req.tried /\ req'.waiting = present[i]
        /\ req'.throughout = req.throughout /\ last' = last
    <3>1. req \in RequestRecord
      BY <1>1 DEF Typed
    <3>2. req' = [req EXCEPT !.waiting = present[i]] /\ last' = last
      BY <1>5 DEF Attempt
    <3>3. req' \in RequestRecord
      BY <2>2, <3>1, <3>2 DEF RequestRecord
    <3>4. req' # None
      BY <3>3, RequestFields
    <3> QED
      BY <3>1, <3>2, <3>4 DEF RequestRecord
  <2>4. Asked' = Asked \cup {present[i]}
    BY <1>2, <2>2, <2>3, RemotesAssumption DEF Asked
  <2>5. InTurn'
    BY <1>1, <1>5, <2>3, <2>4, TurnTaken
  <2>6. /\ Asked' \subseteq (Range(present) \cup gone)'
        /\ (req.throughout \subseteq Range(present))'
    BY <1>1, <2>2, <2>3, <2>4 DEF Round
  <2>7. EveryoneAsked'
    BY <2>3 DEF Round, EveryoneAsked
  <2> QED
    BY <2>1, <2>5, <2>6, <2>7 DEF Round
<1> QED
  BY <1>1, <1>3, <1>4, <1>5, AskCases

\* What a reply that has been unwrapped brings changes nothing about who was asked.
LEMMA UnwiredRound ==
  ASSUME IInv, Round, NEW u \in unwiring, Unwired(u)
  PROVE  Round'
<1>1. Typed /\ Current /\ Timely /\ UNCHANGED <<present, gone, recent>>
  BY DEF IInv, Unwired, peers
<1>2. u.p \in Peer /\ u.m.from \in Peer /\ u.m.res \in Outcome
  <2>1. u \in [m : ReplyMessage, p : Peer, id : 1 .. MaxRequests]
    BY <1>1 DEF Typed
  <2> QED
    BY <2>1 DEF ReplyMessage, Answered, Outcome
<1>3. CASE req # None /\ req.id = u.id /\ req.waiting = u.p
  <2>1. req \in RequestRecord /\ req.waiting \in Peer /\ req.waiting \notin DOMAIN req.tried
    BY <1>1, <1>2, <1>3, Counted DEF Current
  <2> DEFINE kept == WithAnswer(u.m.res, u.m.from)
  <2>2. /\ kept \in RequestRecord /\ kept.waiting = None /\ kept.throughout = req.throughout
        /\ DOMAIN kept.tried = DOMAIN req.tried \cup {req.waiting}
    BY <1>2, <2>1, AttemptAnswered
  <2>3. \/ req' = kept /\ UNCHANGED last
        \/ End("ok")
        \/ req' = [kept EXCEPT !.offer = [id |-> u.m.id, from |-> u.m.from, fromId |-> u.p]] /\ UNCHANGED last
    BY <1>3 DEF Unwired, Resolve, WithAnswer
  <2> HIDE DEF kept
  <2>4. CASE End("ok")
    <3>1. req' = None /\ last'.result \notin NoLuck
      BY <2>4 DEF End, NoLuck
    <3> QED
      BY <1>1, <3>1, RoundKept
  <2>5. CASE UNCHANGED last /\ req'.waiting = None /\ req'.tried = kept.tried
             /\ req'.throughout = req.throughout
    <3>1. Asked' = Asked
      <4>1. DOMAIN req.tried \subseteq Peer
        BY <2>1, RequestFields
      <4> QED
        BY <2>1, <2>2, <2>5, RemotesAssumption DEF Asked
    <3> QED
      BY <1>1, <1>3, <2>5, <3>1, RoundKept
  <2> QED
    BY <2>2, <2>3, <2>4, <2>5 DEF RequestRecord
<1>4. CASE req # None /\ req.id = u.id /\ req.waiting # u.p
  <2>1. req' = [req EXCEPT !.acksDue = @ \cup {u.m.from}] /\ UNCHANGED last
    BY <1>4 DEF Unwired
  <2>2. req \in RequestRecord
    BY <1>1, <1>4, Counted
  <2>3. req'.waiting = req.waiting /\ req'.tried = req.tried /\ req'.throughout = req.throughout
    BY <2>1, <2>2 DEF RequestRecord
  <2> QED
    BY <1>1, <1>4, <2>1, <2>3, RoundKept DEF Asked
<1>5. CASE ~(req # None /\ req.id = u.id)
  <2>1. UNCHANGED <<req, last>>
    BY <1>5 DEF Unwired
  <2> QED
    BY <1>1, <2>1, RoundKept DEF Asked
<1> QED
  BY <1>3, <1>4, <1>5

\* A peer that leaves takes its place with it.
LEMMA LeaveRound ==
  ASSUME IInv, Round, NEW p \in Peer, Leave(p)
  PROVE  Round'
<1>1. Typed /\ present \in Seq(Peer)
  BY DEF IInv, Typed
<1>2. PICK i \in DOMAIN present : present[i] = p /\ present' = RemoveAt(present, i)
  BY DEF Leave
<1> DEFINE At(k) == IF k < i THEN k ELSE k + 1
<1>3. /\ Len(present) \in Nat /\ DOMAIN present = 1 .. Len(present) /\ i \in 1 .. Len(present)
      /\ DOMAIN present' = 1 .. Len(present) - 1
      /\ \A k \in 1 .. Len(present) - 1 : present'[k] = present[At(k)]
  BY <1>1, <1>2, RemoveAtProperties
<1>4. /\ \A k \in DOMAIN present' : At(k) \in DOMAIN present
      /\ \A j, k \in DOMAIN present' : j < k => At(j) < At(k)
      /\ \A k \in DOMAIN present' : present'[k] = present[At(k)]
  BY <1>3
<1>5. \A k \in DOMAIN present : k = i \/ \E j \in DOMAIN present' : At(j) = k
  <2> SUFFICES ASSUME NEW k \in DOMAIN present, k # i
               PROVE  \E j \in DOMAIN present' : At(j) = k
    OBVIOUS
  <2>1. CASE k < i
    BY <1>3, <2>1
  <2>2. CASE ~(k < i)
    <3>1. k - 1 \in DOMAIN present' /\ ~(k - 1 < i) /\ (k - 1) + 1 = k
      BY <1>3, <2>2
    <3> QED
      BY <3>1
  <2> QED
    BY <2>1, <2>2
<1> HIDE DEF At
<1>6. Range(present') \subseteq Range(present) /\ Range(present) \subseteq Range(present') \cup {p}
  BY <1>2, <1>4, <1>5 DEF Range
<1>7. /\ gone' = gone \cup {p} /\ UNCHANGED <<recent, last>>
      /\ req' = IF req = None THEN None ELSE [req EXCEPT !.throughout = req.throughout \ {p}]
  BY DEF Leave
<1>8. req' # None => /\ req # None
                     /\ req'.waiting = req.waiting /\ req'.tried = req.tried
                     /\ req'.throughout = req.throughout \ {p}
  <2>1. req # None => req \in RequestRecord
    BY <1>1 DEF Typed
  <2> QED
    BY <1>7, <2>1 DEF RequestRecord
<1>9. Prefix'
  BY <1>4, <1>7 DEF Round, Prefix
<1>10. ASSUME req' # None
       PROVE  /\ InTurn'
              /\ Asked' \subseteq (Range(present) \cup gone)'
              /\ (req.throughout \subseteq Range(present))'
  <2>1. req # None /\ Asked' = Asked /\ req'.throughout = req.throughout \ {p}
    BY <1>8, <1>10 DEF Asked
  <2>2. InTurn /\ Asked \subseteq Range(present) \cup gone /\ req.throughout \subseteq Range(present)
    BY <2>1 DEF Round
  <2>3. \A j, k \in DOMAIN present' :
          (j < k /\ SameSide(j, k)' /\ present'[j] \in Asked' /\ present'[k] \in req'.throughout)
            => present'[k] \in Asked'
    BY <1>4, <1>7, <2>1, <2>2 DEF InTurn, SameSide
  <2>4. \/ Asked' \cap Range(present') \subseteq recent'
        \/ recent' \cap Range(present') \subseteq Asked'
    BY <1>6, <1>7, <2>1, <2>2 DEF InTurn
  <2>5. InTurn'
    BY <2>3, <2>4 DEF InTurn
  <2> QED
    BY <1>6, <1>7, <2>1, <2>2, <2>5
<1>11. recent' \subseteq (Range(present) \cup gone)'
  BY <1>6, <1>7 DEF Round
<1> QED
  BY <1>7, <1>9, <1>10, <1>11 DEF Round, EveryoneAsked

\* A peer that joins was not there when the request was made, and is listed last.
LEMMA JoinRound ==
  ASSUME ~Rejoins, IInv, Round, NEW p \in Peer, Join(p)
  PROVE  Round'
<1>1. present \in Seq(Peer)
  BY DEF IInv, Typed
<1>2. /\ Len(present) \in Nat /\ DOMAIN present = 1 .. Len(present)
  BY <1>1, LenProperties
<1>3. /\ present' = Append(present, p)
      /\ UNCHANGED <<gone, recent, count, req, last, net, unwiring, session, consumer>>
      /\ p \notin Range(present) /\ p \notin gone
  BY DEF Join
<1>4. /\ DOMAIN present' = 1 .. Len(present) + 1
      /\ \A k \in DOMAIN present : k \in DOMAIN present' /\ present'[k] = present[k]
      /\ present'[Len(present) + 1] = p
      /\ Len(present) + 1 \in DOMAIN present'
  BY <1>1, <1>2, <1>3, AppendProperties, LenProperties
<1>5. /\ \A k \in DOMAIN present' : k \in DOMAIN present \/ present'[k] = p
      /\ \A j, k \in DOMAIN present' : j < k => j \in DOMAIN present
  BY <1>2, <1>4
<1>6. Range(present') = Range(present) \cup {p}
  BY <1>4, <1>5 DEF Range
<1>7. p \notin recent
  BY <1>3 DEF Round
<1>8. Prefix'
  BY <1>3, <1>4, <1>5, <1>7 DEF Round, Prefix
<1>9. ASSUME req # None
      PROVE  /\ InTurn'
             /\ Asked' \subseteq (Range(present) \cup gone)'
             /\ (req.throughout \subseteq Range(present))'
  <2>1. /\ InTurn /\ Asked \subseteq Range(present) \cup gone
        /\ req.throughout \subseteq Range(present)
    BY <1>9 DEF Round
  <2>2. Asked' = Asked /\ p \notin Asked /\ p \notin req.throughout
    BY <1>3, <2>1 DEF Asked
  <2>3. \A j, k \in DOMAIN present' :
          (j < k /\ SameSide(j, k)' /\ present'[j] \in Asked' /\ present'[k] \in req'.throughout)
            => present'[k] \in Asked'
    BY <1>3, <1>4, <1>5, <2>1, <2>2 DEF InTurn, SameSide
  <2>4. \/ Asked' \cap Range(present') \subseteq recent'
        \/ recent' \cap Range(present') \subseteq Asked'
    BY <1>3, <1>6, <1>7, <2>1, <2>2 DEF InTurn
  <2>5. InTurn'
    BY <2>3, <2>4 DEF InTurn
  <2> QED
    BY <1>3, <1>6, <2>1, <2>2, <2>5
<1> QED
  BY <1>3, <1>6, <1>8, <1>9 DEF Round, EveryoneAsked

\* An attempt that times out has been made.
LEMMA TimeOutRound ==
  ASSUME IInv, Round, TimeOut
  PROVE  Round'
<1>1. Typed /\ Current
  BY DEF IInv
<1>2. req # None /\ req \in RequestRecord /\ req.waiting \in Peer /\ req.waiting \notin DOMAIN req.tried
  BY <1>1, RequestFields DEF Typed, Current, TimeOut
<1>3. "timeout" \in Outcome
  BY DEF Outcome
<1>4. Asked' = Asked /\ req'.throughout = req.throughout
  BY <1>2, <1>3, AttemptEnds DEF TimeOut
<1>5. UNCHANGED <<present, gone, recent, last>>
  BY DEF TimeOut, peers
<1> QED
  BY <1>2, <1>4, <1>5, RoundKept

\* The other steps leave the peers and the request as they are, or end it.
LEMMA OthersRound ==
  ASSUME IInv, Round,
         UNCHANGED <<present, gone, recent>>,
         UNCHANGED <<req, last>> \/ End("ok") \/ End("not sent")
  PROVE  Round'
<1>1. CASE UNCHANGED <<req, last>>
  BY <1>1, RoundKept DEF Asked
<1>2. ASSUME NEW result \in {"ok", "not sent"}, End(result)
      PROVE  Round'
  <2>1. req' = None /\ last'.result = result
    BY <1>2 DEF End
  <2>2. last'.result \notin NoLuck
    BY <2>1 DEF NoLuck
  <2> QED
    BY <2>1, <2>2, RoundKept
<1> QED
  BY <1>1, <1>2

\* No step breaks the order of the round, if none comes back.
LEMMA RoundSound ==
  ASSUME ~Rejoins, IInv, Round, [Next]_vars
  PROVE  Round'
<1>1. CASE \E kind \in Kind : Request(kind)
  BY <1>1, RequestRound
<1>2. CASE Asking
  <2>1. CASE Ask
    BY <2>1, AskRound
  <2>2. CASE TimeOut
    BY <2>2, TimeOutRound
  <2>3. CASE Subscribe
    BY <2>3, OthersRound DEF Subscribe, peers
  <2>4. CASE \E m \in net : Reply(m) \/ Drop(m)
    BY <2>4, OthersRound DEF Reply, Drop, peers
  <2>5. CASE \E u \in unwiring : Unwired(u)
    BY <2>5, UnwiredRound
  <2>6. CASE \E ch \in {"data", "updates"} : Slow(ch)
    BY <2>6, OthersRound DEF Slow, peers
  <2> QED
    BY <1>2, <2>1, <2>2, <2>3, <2>4, <2>5, <2>6 DEF Asking
<1>3. CASE PublishFails
  BY <1>3, OthersRound DEF PublishFails, peers
<1>4. CASE \E p \in Peer, id \in 1 .. MaxRequests : Serving(p, id)
  <2>1. UNCHANGED <<present, gone, recent, req, last>>
    BY <1>4, SMTT(30) DEF Serving, Serve, AckTimeOut, Notify, peers
  <2> QED
    BY <2>1, OthersRound
<1>5. CASE \E m \in net : Acked(m)
  BY <1>5, OthersRound DEF Acked, peers
<1>6. CASE \E p \in Peer : Leave(p)
  BY <1>6, LeaveRound
<1>7. CASE \E p \in Peer : Join(p)
  BY <1>7, JoinRound
<1>8. CASE UNCHANGED vars
  BY <1>8, OthersRound DEF vars
<1> QED
  BY <1>1, <1>2, <1>3, <1>4, <1>5, <1>6, <1>7, <1>8 DEF Next

\* If no peer that has left comes back, a request fails only when everyone who was there
\* throughout has been asked, whoever leaves and joins meanwhile and whatever was sent to
\* whom before (send, nextSender, recentlySentTo).
THEOREM EveryoneIsAsked ==
  ASSUME ~Rejoins
  PROVE  Spec => []EveryoneAsked
<1>1. Init => Round
  <2> SUFFICES ASSUME Init
               PROVE  Round
    OBVIOUS
  <2>1. Prefix /\ recent \subseteq Range(present)
    BY InitListed
  <2>2. req = None /\ last = None
    BY DEF Init
  <2> QED
    BY <2>1, <2>2 DEF Round, EveryoneAsked
<1>2. IInv /\ Round /\ [Next]_vars => Round'
  BY RoundSound
<1>3. Round => EveryoneAsked
  BY DEF Round
<1> QED
  BY <1>1, <1>2, <1>3, Invariance, PTL DEF Spec

=============================================================================
