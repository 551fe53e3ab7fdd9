------------------------------ MODULE Presence ------------------------------
(***************************************************************************)
(* How clones come to know whether there are others: the presence that     *)
(* the transports keep (mqtt/MqttPresence.ts, socket.io/IoRemotes.ts and   *)
(* its server), the liveness that PubsubRemotes makes of it, and what      *)
(* DatasetEngine decides upon, which is published as presence in its turn. *)
(*                                                                         *)
(* With MQTT, presence is a retained message for each client, kept by the  *)
(* broker, and the client's will withdraws it.  With socket.io, it is a    *)
(* room of the server, which clients are told to look at when it changes.  *)
(* The broker and the connections are modelled as these use them.          *)
(***************************************************************************)
EXTENDS Naturals, FiniteSets, SequencesExt

CONSTANTS
  Clone,
  Transports,  \* those of "mqtt" and "io" to consider
  NewClones,   \* clones that may never have recovered
  MaxDrops     \* bound: connections lost

ASSUME PresenceAssumption ==
  /\ IsFiniteSet(Clone)
  /\ Transports \subseteq {"mqtt", "io"}
  /\ NewClones \subseteq Clone
  /\ MaxDrops \in Nat

VARIABLES
  transport,  \* of the domain
  drops,      \* connections lost so far
  conn,       \* the number of connections that a clone has made
  link,       \* is there a connection, as the clone knows
  attached,   \* connections that the server knows, as pairs of clone and number
  listed,     \* those present, the same way
  inbox,      \* messages from the server to a clone
  outbox,     \* messages from a clone to the server
  connected,  \* PubsubRemotes.connected
  changed,    \* does a presence change wait for it?
  seen,       \* MqttPresence.presence
  ready,      \* MqttPresence.ready
  joining,    \* does a join wait for it?
  remotes,    \* PubsubRemotes.live
  live,       \* DatasetEngine.live
  newClone,   \* DatasetEngine.newClone
  todo,       \* is there an opportunity to decide liveness?
  connecting, \* is the engine recovering from a collaborator?
  closed,     \* clones that have closed with an error
  wasAlone,   \* history: was no other listed, at a time since the clone connected?
  ghosted     \* history: has the clone had its ghost since it connected?

server == <<attached, listed>>
queues == <<inbox, outbox>>
client == <<connected, changed, seen, ready, joining>>
engine == <<live, newClone, todo, connecting, closed>>
history == <<wasAlone, ghosted>>
vars == <<transport, drops, conn, link, server, queues, client, remotes, engine, history>>

Mqtt == transport = "mqtt"

Init ==
  /\ transport \in Transports
  /\ drops = 0
  /\ conn = [c \in Clone |-> 0]
  /\ link = [c \in Clone |-> FALSE]
  /\ attached = {} /\ listed = {}
  /\ inbox = [c \in Clone |-> <<>>] /\ outbox = [c \in Clone |-> <<>>]
  /\ connected = [c \in Clone |-> FALSE] /\ changed = [c \in Clone |-> FALSE]
  /\ seen = [c \in Clone |-> {}]
  /\ ready = [c \in Clone |-> FALSE] /\ joining = [c \in Clone |-> FALSE]
  /\ remotes = [c \in Clone |-> "unknown"]
  /\ live = [c \in Clone |-> FALSE]
  /\ newClone \in {[c \in Clone |-> c \in N] : N \in SUBSET NewClones}
  /\ todo = [c \in Clone |-> TRUE] /\ connecting = [c \in Clone |-> FALSE]
  /\ closed = {}
  /\ wasAlone = [c \in Clone |-> FALSE] /\ ghosted = [c \in Clone |-> FALSE]

-----------------------------------------------------------------------------
(* The server.  A client of the broker has one presence, whichever its connection. *)

Key(c) == <<c, IF Mqtt THEN 0 ELSE conn[c]>>
Listed == {x[1] : x \in listed}

\* Those who hear of presence: with MQTT they have subscribed
Heeding == {c \in Clone : Key(c) \in attached /\ link[c]}

\* Everyone is told something.  One look stands for others that follow it at once.
Told(boxes, msg) ==
  [c \in Clone |-> IF c \in Heeding /\ ~(msg = [type |-> "look"] /\ boxes[c] # <<>> /\ Last(boxes[c]) = msg)
                    THEN Append(boxes[c], msg) ELSE boxes[c]]

\* What everyone is told of a clone that is listed, or is not any more
News(c, word) ==
  IF Mqtt THEN [type |-> word, of |-> c] ELSE [type |-> "look"]

\* wasAlone follows what is listed
Noted(list) ==
  wasAlone' = [c \in Clone |-> wasAlone[c] \/ {x \in list : x[1] # c} = {}]

\* A clone's connection, and for MQTT its will, if the server has noticed its loss.
\* The broker has the loss noticed when the client connects again.
Expire(x) ==
  /\ x \in attached /\ ~(link[x[1]] /\ x = Key(x[1]))
  /\ attached' = attached \ {x}
  /\ listed' = listed \ {x}
  /\ inbox' = IF Mqtt \/ x \in listed THEN Told(inbox, News(x[1], "left")) ELSE inbox
  /\ Noted(listed')
  /\ UNCHANGED <<transport, drops, conn, link, outbox, client, remotes, engine, ghosted>>

\* presentHandler, or the broker, which keeps what is retained and passes on all
Presented(c, word) ==
  /\ listed' = IF word = "here" THEN listed \cup {Key(c)}
               ELSE IF word = "left" THEN listed \ {Key(c)} ELSE listed
  /\ inbox' = IF Mqtt \/ listed' # listed THEN Told(inbox, News(c, word)) ELSE inbox

\* A subscription is granted, before or after what is retained is sent for it
Subscribed(c) ==
  LET here == SetToSeq({[type |-> "here", of |-> d] : d \in Listed})
      granted == <<[type |-> "granted"]>>
  IN  /\ inbox' \in {[inbox EXCEPT ![c] = @ \o granted \o here],
                     [inbox EXCEPT ![c] = @ \o here \o granted]}
      /\ attached' = attached \cup {Key(c)}
      /\ UNCHANGED listed

\* What the server does about a message
Serve(c) ==
  /\ link[c] /\ outbox[c] # <<>>
  /\ outbox' = [outbox EXCEPT ![c] = Tail(@)]
  /\ LET msg == Head(outbox[c])
     IN  IF msg = "subscribe" THEN Subscribed(c)
         ELSE Presented(c, msg) /\ UNCHANGED attached
  /\ Noted(listed')
  /\ UNCHANGED <<transport, drops, conn, link, client, remotes, engine, ghosted>>

-----------------------------------------------------------------------------
(* The remotes of a clone *)

\* setLive: the engine gets to know of transitions
SetLive(c, value) ==
  /\ remotes' = [remotes EXCEPT ![c] = value]
  /\ todo' = [todo EXCEPT ![c] = @ \/ value # remotes[c]]

\* onPresenceChange, when connected: "If there is more than just me present, we are live"
Liveness(c, present) == IF present \ {c} = {} THEN "alone" ELSE "peers"

\* A connection is made.  With MQTT presence is subscribed to then, after what is yet
\* to be sent; the socket.io server has the clone look at once.
Connect(c) ==
  /\ ~link[c] /\ c \notin closed
  /\ Mqtt => Key(c) \notin attached
  /\ link' = [link EXCEPT ![c] = TRUE]
  /\ conn' = [conn EXCEPT ![c] = @ + 1]
  /\ IF Mqtt
     THEN /\ outbox' = [outbox EXCEPT ![c] = Append(@, "subscribe")]
          /\ UNCHANGED <<attached, inbox>>
     ELSE /\ attached' = attached \cup {<<c, conn'[c]>>}
          /\ inbox' = [inbox EXCEPT ![c] = <<[type |-> "granted"], [type |-> "look"]>>]
          /\ UNCHANGED outbox
  /\ wasAlone' = [wasAlone EXCEPT ![c] = Listed \ {c} = {}]
  /\ ghosted' = [ghosted EXCEPT ![c] = FALSE]
  /\ UNCHANGED <<transport, drops, listed, client, remotes, engine>>

\* Mutant: the liveness of the remotes stays as it was
Offline1(c) == SetLive(c, remotes[c])
\* onDisconnect
Offline(c) == SetLive(c, "unknown")

\* What is kept for the next connection: a subscription, which is sent last, is made anew
Unsent(q) == IF q # <<>> /\ Last(q) = "subscribe" THEN Front(q) ELSE q

\* The connection closes, and MQTT's presence is forgotten.  What it was to send is
\* kept for the next connection, and may have been received already.
Drop(c) ==
  /\ link[c] /\ drops < MaxDrops
  /\ drops' = drops + 1
  /\ link' = [link EXCEPT ![c] = FALSE]
  /\ inbox' = [inbox EXCEPT ![c] = <<>>]
  /\ outbox' = [outbox EXCEPT ![c] = IF Mqtt THEN Unsent(@) ELSE <<>>]
  /\ connected' = [connected EXCEPT ![c] = FALSE]
  /\ seen' = [seen EXCEPT ![c] = {}]
  /\ Offline(c)
  /\ UNCHANGED <<transport, conn, server, changed, ready, joining,
                 live, newClone, connecting, closed, history>>

\* setPresent: what is sent, and what becomes of the clone's own presence.  A join
\* waits until presence is ready.
Present(c, isReady) == IF Mqtt /\ ~isReady THEN <<>> ELSE <<"here">>

\* Mutant: presence is looked at as soon as there is a connection.
Looks1(c) == TRUE
Looks(c) == changed[c]

\* Mutant: a clone that connects again is not made present again.
Rejoins1(c) == live[c] /\ conn[c] = 1
Rejoins(c) == live[c]

\* onConnect, when the subscription is granted: the ghost is sent, presence changes
\* that have waited are looked at, and a live clone becomes present
Granted(c) ==
  /\ connected' = [connected EXCEPT ![c] = TRUE]
  /\ changed' = [changed EXCEPT ![c] = FALSE]
  /\ outbox' = [outbox EXCEPT ![c] = @ \o (IF Mqtt THEN <<"ghost">> ELSE <<>>)
                                       \o (IF Rejoins(c) THEN Present(c, ready[c]) ELSE <<>>)]
  /\ joining' = [joining EXCEPT ![c] = @ \/ (Mqtt /\ Rejoins(c) /\ ~ready[c])]
  /\ seen' = [seen EXCEPT ![c] = IF Mqtt /\ Rejoins(c) /\ ready[c] THEN @ \cup {c} ELSE @]
  /\ IF Looks(c) THEN SetLive(c, Liveness(c, seen[c])) ELSE UNCHANGED <<remotes, todo>>
  /\ UNCHANGED <<ready, ghosted>>

\* Presence is ready once the clone has had its ghost, for ever
IsReady(c, msg) == ready[c] \/ msg = [type |-> "ghost", of |-> c]

\* MqttPresence's handler of messages: presence changes, once it is ready, and a join
\* goes on if it has waited for that
Heard(c, msg) ==
  LET isReady == IsReady(c, msg)
      joins == isReady /\ joining[c]
      known == CASE msg.type = "here" -> seen[c] \cup {msg.of}
                 [] msg.type = "left" -> seen[c] \ {msg.of}
                 [] OTHER -> seen[c]
  IN  /\ ready' = [ready EXCEPT ![c] = isReady]
      /\ joining' = [joining EXCEPT ![c] = @ /\ ~isReady]
      /\ seen' = [seen EXCEPT ![c] = IF joins THEN known \cup {c} ELSE known]
      /\ outbox' = [outbox EXCEPT ![c] = IF joins THEN Append(@, "here") ELSE @]
      /\ changed' = [changed EXCEPT ![c] = @ \/ (isReady /\ ~connected[c])]
      /\ IF isReady /\ connected[c] THEN SetLive(c, Liveness(c, known))
         ELSE UNCHANGED <<remotes, todo>>
      /\ ghosted' = [ghosted EXCEPT ![c] = @ \/ msg = [type |-> "ghost", of |-> c]]
      /\ UNCHANGED connected

\* IoRemotes: the clone is told to look, and asks who is present.  The server has the
\* question when it has what the clone sent before, and its answer is on its way.
Look(c) ==
  /\ outbox[c] = <<>>
  /\ inbox' = [inbox EXCEPT ![c] = Append(Tail(@), [type |-> "present", is |-> Listed])]
  /\ UNCHANGED <<outbox, client, remotes, todo, ghosted>>

Answered(c, msg) ==
  /\ SetLive(c, Liveness(c, msg.is))
  /\ UNCHANGED <<outbox, client, ghosted>>

Receive(c) ==
  /\ link[c] /\ inbox[c] # <<>>
  /\ LET msg == Head(inbox[c])
     IN  IF msg.type = "look" THEN Look(c)
         ELSE /\ inbox' = [inbox EXCEPT ![c] = Tail(@)]
              /\ CASE msg.type = "granted" -> Granted(c)
                   [] msg.type = "present" -> Answered(c, msg)
                   [] OTHER -> Heard(c, msg)
  /\ UNCHANGED <<transport, drops, conn, link, server,
                 live, newClone, connecting, closed, wasAlone>>

-----------------------------------------------------------------------------
(* The engine of a clone *)

\* setLive of the engine and cloneLive of the remotes, which are told of transitions
CloneLive(c, value) ==
  LET tell == value # live[c] /\ connected[c]
  IN  /\ live' = [live EXCEPT ![c] = value]
      /\ outbox' = [outbox EXCEPT ![c] =
                      IF ~tell THEN @ ELSE @ \o (IF value THEN Present(c, ready[c]) ELSE <<"left">>)]
      /\ joining' = [joining EXCEPT ![c] = @ \/ (Mqtt /\ tell /\ value /\ ~ready[c])]
      /\ seen' = [seen EXCEPT ![c] =
                    IF ~(Mqtt /\ tell) THEN @ ELSE IF ~value THEN @ \ {c}
                    ELSE IF ready[c] THEN @ \cup {c} ELSE @]

\* A clone that cannot live without others closes
Close(c) ==
  /\ closed' = closed \cup {c}
  /\ link' = [link EXCEPT ![c] = FALSE]
  /\ inbox' = [inbox EXCEPT ![c] = <<>>] /\ outbox' = [outbox EXCEPT ![c] = <<>>]
  /\ connected' = [connected EXCEPT ![c] = FALSE]
  /\ remotes' = [remotes EXCEPT ![c] = "unknown"]
  /\ live' = [live EXCEPT ![c] = FALSE]
  /\ UNCHANGED <<seen, joining, connecting>>

\* decideLive, with the liveness that the remotes have when it gets the lock
Decide(c) ==
  /\ todo[c] /\ ~connecting[c] /\ c \notin closed
  /\ todo' = [todo EXCEPT ![c] = FALSE]
  /\ CASE remotes[c] = "peers" ->
            /\ connecting' = [connecting EXCEPT ![c] = TRUE]
            /\ UNCHANGED <<link, inbox, outbox, connected, seen, joining, remotes, live, closed>>
       [] remotes[c] = "alone" /\ newClone[c] -> Close(c)
       [] remotes[c] = "alone" /\ ~newClone[c] ->
            /\ CloneLive(c, TRUE)
            /\ UNCHANGED <<link, inbox, connected, remotes, connecting, closed>>
       [] remotes[c] = "unknown" ->
            /\ CloneLive(c, FALSE)
            /\ UNCHANGED <<link, inbox, connected, remotes, connecting, closed>>
  /\ UNCHANGED <<transport, drops, conn, server, changed, ready, newClone, history>>

\* connect is done, and may have failed, which is another opportunity
Finish(c) ==
  /\ connecting[c]
  /\ connecting' = [connecting EXCEPT ![c] = FALSE]
  /\ \E recovered \in BOOLEAN :
       /\ newClone' = [newClone EXCEPT ![c] = @ /\ ~recovered]
       /\ todo' = [todo EXCEPT ![c] = @ \/ ~recovered]
  /\ CloneLive(c, TRUE)
  /\ UNCHANGED <<transport, drops, conn, link, server, inbox, connected, changed, ready,
                 remotes, closed, history>>

\* createStatus, in part
Status(c) ==
  [online |-> remotes[c] # "unknown", silo |-> live[c] /\ remotes[c] = "alone"]

Next ==
  \/ \E x \in attached : Expire(x)
  \/ \E c \in Clone : \/ Connect(c) \/ Drop(c) \/ Serve(c) \/ Receive(c)
                      \/ Decide(c) \/ Finish(c)

Spec == Init /\ [][Next]_vars

\* Connections are made again and what is sent arrives; the server notices losses; and
\* a recovery comes to an end.
FairSpec ==
  /\ Spec
  /\ WF_vars(\E x \in attached : Expire(x))
  /\ \A c \in Clone :
       /\ WF_vars(Connect(c)) /\ WF_vars(Serve(c)) /\ WF_vars(Receive(c))
       /\ WF_vars(Decide(c)) /\ WF_vars(Finish(c))

-----------------------------------------------------------------------------
(* Properties *)

TypeOK ==
  /\ attached \cup listed \subseteq Clone \X (0 .. MaxDrops + 1)
  /\ seen \in [Clone -> SUBSET Clone]
  /\ remotes \in [Clone -> {"unknown", "alone", "peers"}]
  /\ \A c \in Clone : connected[c] => link[c]

\* Without a connection a clone says nothing of the others, not even when an answer
\* about them was on its way (onDisconnect, onPresenceChange).
OfflineUnknown == \A c \in Clone : ~connected[c] => ~Status(c).online

\* Presence is what it should be, and the clone is offline without a connection
PresenceSound == TypeOK /\ OfflineUnknown

\* "Used to ensure that retained presence messages are processed" (GHOST_PAYLOAD): a
\* clone takes itself to be alone only if there was no other, at a time since it
\* connected.  A silo does not recover, and a new clone closes.
AloneOnlyIfAlone == \A c \in Clone : remotes[c] = "alone" => wasAlone[c]

\* That holds of socket.io, and of MQTT once the ghost is back; and on a client's first
\* connection to MQTT.
AloneOnceReady ==
  \A c \in Clone : remotes[c] = "alone" =>
    wasAlone[c] \/ (Mqtt /\ conn[c] > 1 /\ ~ghosted[c])

\* When connections are lost no more, it is agreed who there is: every clone that has
\* not closed is live and listed, and knows whether there are others.
Agreed ==
  /\ Listed = Clone \ closed
  /\ \A c \in Clone \ closed : live[c] /\ remotes[c] = Liveness(c, Clone \ closed)

AgreedInTheEnd == <>[]Agreed

=============================================================================
