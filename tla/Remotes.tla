------------------------------- MODULE Remotes -------------------------------
(***************************************************************************)
(* Requests of a clone to its peers (engine/remotes/PubsubRemotes.ts): the *)
(* choice of a peer, time-outs and retries with the next, late answers,    *)
(* acknowledgement of an offer and the streams of notifications that       *)
(* follow.                                                                 *)
(*                                                                         *)
(* The clone makes one request after another: for a clock, a snapshot or a *)
(* rev-up.  All attempts of a request have the same message identity.      *)
(***************************************************************************)
EXTENDS Naturals, FiniteSets, SequencesExt

CONSTANTS
  Peer,
  MaxRequests,  \* bound
  MaxItems,     \* bound: what is streamed on a channel
  MaxChanges,   \* bound: peers that leave
  Rejoins       \* may a peer leave and join again?

None == [none |-> TRUE]

ASSUME RemotesAssumption ==
  /\ IsFiniteSet(Peer) /\ None \notin Peer
  /\ {MaxRequests, MaxItems, MaxChanges} \subseteq Nat
  /\ Rejoins \in BOOLEAN

VARIABLES
  present,  \* the peers present, in the order they are listed in
  gone,     \* peers that have left
  recent,   \* PubsubRemotes.recentlySentTo
  count,    \* the requests made
  req,      \* the request in progress, if any
  last,     \* how the last request ended
  net,      \* replies and acknowledgements on their way
  unwiring, \* replies being unwrapped, each for the attempt that it resolves
  session,  \* what a peer does about a request
  consumer  \* what is being consumed, if anything

vars == <<present, gone, recent, count, req, last, net, unwiring, session, consumer>>
peers == <<present, gone>>

Kind == {"clock", "snapshot", "revup"}

\* The channels of notifications that follow an answer, and those that must not pause
Channels(kind) ==
  CASE kind = "snapshot" -> {"data", "updates"} [] kind = "revup" -> {"updates"}
    [] OTHER -> {}
FailIfSlow(kind, ch) == kind = "revup" \/ ch = "data"

NoSession == [state |-> "none"]
Over == [state |-> "over"]

\* A peer's answers: a rev-up may be impossible, and anything may be rejected
Answers(kind) == {"ok", "rejected"} \cup (IF kind = "revup" THEN {"null"} ELSE {})

\* Some peers are there at the start.  Earlier requests (with identity 0) have been
\* sent to the first of them, and have had their answers or not.
Init ==
  /\ \E n \in 0 .. Cardinality(Peer) :
       /\ present = SubSeq(SetToSeq(Peer), 1, n)
       /\ \E m \in 0 .. n : recent = Range(SubSeq(present, 1, m))
  /\ net \in SUBSET {[type |-> "reply", from |-> p, id |-> 0, res |-> "ok"] : p \in recent}
  /\ gone = {}
  /\ count = 0
  /\ req = None /\ last = None
  /\ unwiring = {}
  /\ session = [p \in Peer |-> [id \in 1 .. MaxRequests |-> NoSession]]
  /\ consumer = None

-----------------------------------------------------------------------------
(* The clone that asks *)

\* newClock, snapshot, revupFrom.  What an earlier request was answered with is not
\* consumed any more, nor followed here.
Request(kind) ==
  /\ req = None /\ count < MaxRequests
  /\ count' = count + 1
  /\ req' = [id |-> count + 1, kind |-> kind, waiting |-> None, offer |-> None,
             tried |-> [p \in {} |-> None], acksDue |-> {},
             throughout |-> Range(present)]
  /\ consumer' = None /\ last' = None
  /\ session' = [p \in Peer |-> [id \in 1 .. MaxRequests |->
                   IF session[p][id].state = "streaming" THEN Over ELSE session[p][id]]]
  /\ UNCHANGED <<peers, recent, net, unwiring>>

End(result) ==
  /\ req' = None
  /\ last' = [kind |-> req.kind, result |-> result,
              tried |-> req.tried, throughout |-> req.throughout]

\* Mutant: peers that are not the least recently used are asked.
Candidates1(sent) == DOMAIN present

\* Of the peers present, the places of those not sent to since the last time that all
\* had been
Candidates(sent) == {i \in DOMAIN present : present[i] \notin sent}

\* Has the request been at the peer already?
HasTried(p) == p \in DOMAIN req.tried

\* The outcomes of attempts, with that of another one
Tried(p, res) ==
  [q \in DOMAIN req.tried \cup {p} |-> IF q = p THEN res ELSE req.tried[q]]

\* nextSender, and the attempt that send makes with it
Ask ==
  /\ req # None /\ req.waiting = None /\ req.offer = None
  /\ LET sent == IF Range(present) \subseteq recent THEN {} ELSE recent
         next == Candidates(sent)
     IN  IF next = {}
         THEN End("no visible clones") /\ recent' = sent /\ UNCHANGED session
         ELSE LET p == present[Min(next)]
              IN  /\ recent' = sent \cup {p}
                  /\ IF HasTried(p)
                     THEN End(req.tried[p]) /\ UNCHANGED session
                     ELSE /\ req' = [req EXCEPT !.waiting = p]
                          /\ session' = [session EXCEPT ![p][req.id] = [state |-> "sent", kind |-> req.kind]]
                          /\ UNCHANGED last
  /\ UNCHANGED <<peers, count, net, unwiring, consumer>>

\* The request cannot be published: other addresses are not tried
PublishFails ==
  /\ req # None /\ req.waiting # None
  /\ session[req.waiting][req.id].state = "sent"
  /\ End("not sent")
  /\ session' = [session EXCEPT ![req.waiting][req.id] = NoSession]
  /\ UNCHANGED <<peers, recent, count, net, unwiring, consumer>>

\* getResponse: no response in time
TimeOut ==
  /\ req # None /\ req.waiting # None
  /\ req' = [req EXCEPT !.tried = Tried(req.waiting, "timeout"), !.waiting = None]
  /\ UNCHANGED <<peers, recent, count, last, net, unwiring, session, consumer>>

\* Mutant: a reply is for whichever request there is.
Resolvable1(m) == req # None /\ req.waiting # None
Resolvable(m) == req # None /\ req.waiting # None /\ m.id = req.id

\* send's check of a response
Satisfies(kind, res) == res = "ok"

\* Mutant: a reply is acknowledged when it arrives.
AcksAtOnce1(r) == Peer
\* Replies are acknowledged only when readyToAck is resolved
AcksAtOnce(r) == {}

Ack(p, id) == [type |-> "ack", to |-> p, id |-> id]

\* onReply, once unwrapped: the attempt has its response, whoever it is from, and the
\* reply is acknowledged in due course
Resolve(m, p) ==
  LET kept == [req EXCEPT !.waiting = None, !.tried = Tried(p, m.res),
                          !.acksDue = @ \cup {m.from}]
  IN  /\ net' = (net \ {m}) \cup {Ack(q, req.id) : q \in {m.from} \cap AcksAtOnce(req)}
      /\ IF ~Satisfies(req.kind, m.res)
         THEN req' = kept /\ UNCHANGED last
         ELSE IF req.kind = "clock"
         THEN End("ok")
         ELSE /\ req' = [kept EXCEPT !.offer = [id |-> m.id, from |-> m.from, fromId |-> p]]
              /\ UNCHANGED last

\* onReply reads the resolver of the message, and has the reply unwrapped by the
\* transport security
Reply(m) ==
  /\ m.type = "reply" /\ Resolvable(m)
  /\ net' = net \ {m}
  /\ unwiring' = unwiring \cup {[m |-> m, p |-> req.waiting, id |-> req.id]}
  /\ UNCHANGED <<peers, recent, count, req, last, session, consumer>>

\* Meanwhile the attempt may have timed out.  Its reply is to be acknowledged all the
\* same, at once if readyToAck has been resolved.
Unwired(u) ==
  /\ unwiring' = unwiring \ {u}
  /\ IF req # None /\ req.id = u.id
     THEN IF req.waiting = u.p
          THEN Resolve(u.m, u.p)
          ELSE req' = [req EXCEPT !.acksDue = @ \cup {u.m.from}] /\ UNCHANGED <<last, net>>
     ELSE /\ net' = IF last # None /\ count = u.id /\ last.result = "ok" /\ last.kind # "clock"
                    THEN net \cup {Ack(u.m.from, u.m.id)} ELSE net
          /\ UNCHANGED <<req, last>>
  /\ UNCHANGED <<peers, recent, count, session, consumer>>

\* A reply to which nothing is waiting
Drop(m) ==
  /\ m.type = "reply" /\ ~Resolvable(m)
  /\ net' = net \ {m}
  /\ UNCHANGED <<peers, recent, count, req, last, unwiring, session, consumer>>

\* consume, and the subscription of DatasetEngine to what is consumed, upon which
\* the replies are acknowledged
Subscribe ==
  /\ req # None /\ req.offer # None
  /\ consumer' = [from |-> req.offer.from, id |-> req.id, kind |-> req.kind,
                  got |-> [ch \in Channels(req.kind) |-> 0],
                  ended |-> [ch \in Channels(req.kind) |-> "no"]]
  /\ net' = net \cup {Ack(p, req.id) : p \in req.acksDue}
  /\ End("ok")
  /\ UNCHANGED <<peers, recent, count, unwiring, session>>

\* A channel that must not pause has done so
Slow(ch) ==
  /\ consumer # None /\ ch \in DOMAIN consumer.ended /\ consumer.ended[ch] = "no"
  /\ FailIfSlow(consumer.kind, ch)
  /\ consumer' = [consumer EXCEPT !.ended[ch] = "slow"]
  /\ UNCHANGED <<peers, recent, count, req, last, net, unwiring, session>>

-----------------------------------------------------------------------------
(* A peer that is asked *)

\* onSent: an answer is replied, and an offer waits for its acknowledgement
Serve(p, id) ==
  /\ session[p][id].state = "sent"
  /\ \E res \in Answers(session[p][id].kind) :
       /\ net' = net \cup {[type |-> "reply", from |-> p, id |-> id, res |-> res]}
       /\ session' = [session EXCEPT ![p][id] =
                        IF res # "ok" \/ Channels(@.kind) = {} THEN Over
                        ELSE [@ EXCEPT !.state = "offered"]]
  /\ UNCHANGED <<peers, recent, count, req, last, unwiring, consumer>>

\* Mutant: an offer waits for its acknowledgement for ever.
AckTimeOut1(p, id) == FALSE
\* getAck: no acknowledgement in time
AckTimeOut(p, id) ==
  /\ session[p][id].state = "offered"
  /\ session' = [session EXCEPT ![p][id] = Over]
  /\ UNCHANGED <<peers, recent, count, req, last, net, unwiring, consumer>>

\* onReply of the peer, and replySnapshot or replyRevup go on
Acked(m) ==
  /\ m.type = "ack"
  /\ net' = net \ {m}
  /\ session' = IF session[m.to][m.id].state = "offered"
                THEN [session EXCEPT ![m.to][m.id] =
                        [state |-> "streaming", left |-> [ch \in Channels(@.kind) |-> MaxItems]]]
                ELSE session
  /\ UNCHANGED <<peers, recent, count, req, last, unwiring, consumer>>

\* onNotify, of a channel that the consumer has
Notified(c, ch, n) ==
  IF n = "next" THEN [c EXCEPT !.got[ch] = @ + 1] ELSE [c EXCEPT !.ended[ch] = n]

\* produce and onNotify: the next notification of a channel, in order.  If nothing is
\* subscribed to the channel it is lost.
Notify(p, id, ch) ==
  /\ session[p][id].state = "streaming" /\ ch \in DOMAIN session[p][id].left
  /\ \E n \in IF session[p][id].left[ch] = 0 THEN {"complete", "error"} ELSE {"next", "error"} :
       LET left == IF n = "next" THEN [session[p][id].left EXCEPT ![ch] = @ - 1]
                   ELSE [c \in DOMAIN session[p][id].left \ {ch} |-> session[p][id].left[c]]
           lost == \/ consumer = None
                   \/ consumer.from # p \/ consumer.id # id \/ consumer.ended[ch] # "no"
       IN  /\ session' = [session EXCEPT ![p][id] =
                            IF DOMAIN left = {} THEN Over ELSE [@ EXCEPT !.left = left]]
           /\ consumer' = IF lost THEN consumer ELSE Notified(consumer, ch, n)
  /\ UNCHANGED <<peers, recent, count, req, last, net, unwiring>>

-----------------------------------------------------------------------------
(* Presence: MqttPresence lists clients in the order of their arrival *)

Leave(p) ==
  /\ p \notin gone /\ Cardinality(gone) < MaxChanges
  /\ \E i \in DOMAIN present : present[i] = p /\ present' = RemoveAt(present, i)
  /\ gone' = gone \cup {p}
  /\ req' = IF req = None THEN None ELSE [req EXCEPT !.throughout = @ \ {p}]
  /\ UNCHANGED <<recent, count, last, net, unwiring, session, consumer>>

Join(p) ==
  /\ p \notin Range(present) /\ (p \notin gone \/ Rejoins)
  /\ present' = Append(present, p)
  /\ UNCHANGED <<gone, recent, count, req, last, net, unwiring, session, consumer>>

Asking ==
  \/ Ask \/ TimeOut \/ Subscribe
  \/ \E m \in net : Reply(m) \/ Drop(m)
  \/ \E u \in unwiring : Unwired(u)
  \/ \E ch \in {"data", "updates"} : Slow(ch)

Serving(p, id) ==
  \/ Serve(p, id) \/ AckTimeOut(p, id)
  \/ \E ch \in {"data", "updates"} : Notify(p, id, ch)

Next ==
  \/ \E kind \in Kind : Request(kind)
  \/ Asking \/ PublishFails
  \/ \E p \in Peer, id \in 1 .. MaxRequests : Serving(p, id)
  \/ \E m \in net : Acked(m)
  \/ \E p \in Peer : Leave(p) \/ Join(p)

Spec == Init /\ [][Next]_vars

\* Time-outs fire, and what can be done is done.  That an acknowledgement arrives, or
\* that an answer does in time, is not assumed.
FairSpec ==
  /\ Spec
  /\ WF_vars(Asking)
  /\ WF_vars(\E p \in Peer, id \in 1 .. MaxRequests : Serving(p, id))

-----------------------------------------------------------------------------
(* Properties *)

TypeOK ==
  /\ IsInjective(present) /\ Range(present) \subseteq Peer
  /\ recent \subseteq Peer
  /\ req # None => /\ req.id = count
                   /\ req.waiting # None => req.waiting \notin DOMAIN req.tried
                   /\ req.offer # None => req.waiting = None
  /\ \A m \in net : m.id \in 0 .. count

\* What has been consumed to its end is all that the peer had to give: nothing is
\* notified before there is a subscription (readyToAck, getAck).
StreamsWhole ==
  consumer # None =>
    \A ch \in DOMAIN consumer.ended :
      consumer.ended[ch] = "complete" => consumer.got[ch] = MaxItems

\* An answer is to the question asked, though late ones come with the same message
\* identity for other attempts of the request (replyResolvers, messageId).
AnswersTheQuestion ==
  (req # None /\ req.offer # None) => req.offer.id = req.id

\* For a request no more than one peer streams, unless an attempt has timed out while
\* its reply was being unwrapped, which is acknowledged all the same (onReply, getAck).
OneStream ==
  (last # None /\ "timeout" \notin Range(last.tried)) =>
    Cardinality({p \in Peer : session[p][count].state = "streaming"}) <= 1

\* "If we have already tried this address, we've tried everyone": a request fails only
\* when everyone who was present throughout has been asked (send, nextSender).
EveryoneAsked ==
  (last # None /\ last.result \in {"timeout", "rejected", "null"}) =>
     last.throughout \subseteq DOMAIN last.tried

\* Every request comes to an end (send, getResponse).
RequestsEnd == []<>(req = None)

\* Every peer is done with a request in the end, so that it can shut down (onSent, active)
\* and gives up the state of its clone.
SessionsEnd ==
  \A p \in Peer : <>[](\A id \in 1 .. MaxRequests :
    session[p][id].state \in {"none", "over"})

\* One peer answers a request with a stream, and with the whole of it.
StreamsSound == TypeOK /\ OneStream /\ StreamsWhole

\* The requests end, and so does everything that peers did on their account.
AllEnds == RequestsEnd /\ SessionsEnd

=============================================================================
