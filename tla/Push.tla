-------------------------------- MODULE Push --------------------------------
(***************************************************************************)
(* How state changes and command results reach the users' apps             *)
(* (internal/gateway/cend: shadowEventLoop, PushShadowEvent, PushToUser,   *)
(* SendMessage and handleShadowSubscribe).                                 *)
(*                                                                         *)
(* One gateway is modelled; what users do at the others shows only in the  *)
(* presence hash they share.  Redis Pub/Sub hands it every event, over two *)
(* subscriptions, each with a goroutine that takes one event after the     *)
(* other: it copies the set of subscribed users under a lock and pushes to *)
(* each of them without it.  A push looks the user up in the presence      *)
(* hash; a connection of this gateway gets the event into its bounded send *)
(* channel, waiting up to 5 s for room; one of another gateway gets it by  *)
(* a channel that nobody listens to.  Accepting and closing connections is *)
(* the subject of CendServer; here a connection is authenticated and       *)
(* registered in one step and closed in one.                               *)
(***************************************************************************)
EXTENDS Naturals, Sequences, FiniteSets

CONSTANTS
  User,       \* users with an account
  Conn,       \* connections of their apps to this gateway
  OwnerOf,    \* OwnerOf[c]: whose app makes it
  Elsewhere,  \* stands for every connection to another gateway
  Pile,       \* devices
  ChanSize,   \* capacity of SendChan (256)
  PoolSize,   \* capacity of WorkerPool (10000)
  MaxEvents,  \* bound: events published
  Nobody

ASSUME PushAssumption ==
  /\ OwnerOf \in [Conn -> User]
  /\ ChanSize \in Nat \ {0}
  /\ PoolSize \in Nat \ {0}
  /\ MaxEvents \in Nat
  /\ Nobody # Elsewhere /\ Conn \cap {Nobody, Elsewhere} = {}

VARIABLES
  link,        \* link[c]: state of the connection
  presence,    \* presence[u]: the connection online_users names
  subscribers, \* subscribers[d]: the users of the subscription table
  events,      \* number of events published so far; an event is its number
  inbox,       \* inbox[kind]: events on their way to a goroutine
  push,        \* push[kind]: what the goroutine is at
  sendChan,    \* sendChan[c]: number of messages in it
  acking,      \* acking[c]: is a request of c in hand, its answer to be sent?
  sent,        \* history: pushes put into the channel of each connection
  asked,       \* history: asked[d]: users whose last request about d was to
               \* subscribe
  goneAt,      \* history: goneAt[d][u]: events published when u last took
               \* that back
  timedOut     \* history: connections a push to which has timed out

pushVars == <<link, presence, subscribers, events, inbox, push, sendChan, acking,
              sent, asked, goneAt, timedOut>>

histVars == <<asked, goneAt, timedOut>>

\* The channels shadow:events and shadow:cmdresults.
Kind == {"state", "result"}

Resting == [event |-> 0, piles |-> {}, pile |-> Nobody, users |-> {}, to |-> Nobody]

Message(event, kind, pile) == [event |-> event, kind |-> kind, pile |-> pile]

PushInit ==
  /\ link = [c \in Conn |-> "new"]
  /\ presence = [u \in User |-> Nobody]
  /\ subscribers = [d \in Pile |-> {}]
  /\ events = 0
  /\ inbox = [k \in Kind |-> <<>>]
  /\ push = [k \in Kind |-> Resting]
  /\ sendChan = [c \in Conn |-> 0]
  /\ acking = [c \in Conn |-> FALSE]
  /\ sent = [c \in Conn |-> <<>>]
  /\ asked = [d \in Pile |-> {}]
  /\ goneAt = [d \in Pile |-> [u \in User |-> 0]]
  /\ timedOut = {}

-----------------------------------------------------------------------------
(* Connections and subscriptions *)

\* Mutant: the last slot is counted twice.
HasRoomForOneMore(c) == link[c] = "open" /\ sendChan[c] <= ChanSize

HasRoom(c) == link[c] = "open" /\ sendChan[c] < ChanSize

\* handleAuth: the entry of the user names the latest connection.
Enter(c) ==
  /\ link[c] = "new"
  /\ link' = [link EXCEPT ![c] = "open"]
  /\ presence' = [presence EXCEPT ![OwnerOf[c]] = c]
  /\ sendChan' = [sendChan EXCEPT ![c] = @ + 1]
  /\ UNCHANGED <<subscribers, events, inbox, push, acking, sent, histVars>>

\* Close removes the entry of the user.  Their subscriptions stay.  What is
\* left in the channel is never written, and its history is forgotten.
Leave(c) ==
  /\ link[c] = "open"
  /\ link' = [link EXCEPT ![c] = "closed"]
  /\ presence' = [presence EXCEPT ![OwnerOf[c]] = Nobody]
  /\ sendChan' = [sendChan EXCEPT ![c] = 0]
  /\ sent' = [sent EXCEPT ![c] = <<>>]
  /\ timedOut' = timedOut \ {c}
  /\ UNCHANGED <<subscribers, events, inbox, push, acking, asked, goneAt>>

\* The user connects to another gateway, or that connection closes.
EnterElsewhere(u) ==
  /\ presence[u] # Elsewhere
  /\ presence' = [presence EXCEPT ![u] = Elsewhere]
  /\ UNCHANGED <<link, subscribers, events, inbox, push, sendChan, acking, sent, histVars>>

LeaveElsewhere(u) ==
  /\ presence[u] # Nobody
  /\ presence' = [presence EXCEPT ![u] = Nobody]
  /\ UNCHANGED <<link, subscribers, events, inbox, push, sendChan, acking, sent, histVars>>

\* HandleMessage: the read loop of c has a request in hand, one at a time, if
\* the worker pool of the gateway has a slot; otherwise the request is dropped.
HandleMessage(c) ==
  /\ link[c] = "open" /\ ~acking[c]
  /\ Cardinality({x \in Conn : acking[x]}) < PoolSize
  /\ acking' = [acking EXCEPT ![c] = TRUE]

\* A heartbeat, a state query or a message for the business system: all that
\* is left of it here is its answer.
OtherRequest(c) ==
  /\ HandleMessage(c)
  /\ UNCHANGED <<link, presence, subscribers, events, inbox, push, sendChan, sent, histVars>>

\* handleShadowSubscribe, up to its answer.
ShadowSubscribe(c, d) ==
  /\ HandleMessage(c)
  /\ subscribers' = [subscribers EXCEPT ![d] = @ \cup {OwnerOf[c]}]
  /\ asked' = [asked EXCEPT ![d] = @ \cup {OwnerOf[c]}]
  /\ UNCHANGED <<link, presence, events, inbox, push, sendChan, sent, goneAt, timedOut>>

\* history: u no longer asks for the events of d.
TakesBack(u, d) ==
  /\ asked' = [asked EXCEPT ![d] = @ \ {u}]
  /\ goneAt' = IF u \in asked[d] THEN [goneAt EXCEPT ![d][u] = events] ELSE goneAt

\* Mutant: "shadow.unsubscribe" leaves the user in the table.
UnsubscribeKeeps(c, d) ==
  /\ HandleMessage(c)
  /\ TakesBack(OwnerOf[c], d)
  /\ UNCHANGED <<link, presence, subscribers, events, inbox, push, sendChan, sent, timedOut>>

ShadowUnsubscribe(c, d) ==
  /\ HandleMessage(c)
  /\ subscribers' = [subscribers EXCEPT ![d] = @ \ {OwnerOf[c]}]
  /\ TakesBack(OwnerOf[c], d)
  /\ UNCHANGED <<link, presence, events, inbox, push, sendChan, sent, timedOut>>

\* SendMessage of the answer, which gives the slot back: into the channel
\* when there is room, given up when the connection is closed or after 5 s
\* without room.
Ack(c) ==
  /\ acking[c]
  /\ acking' = [acking EXCEPT ![c] = FALSE]
  /\ sendChan' = IF HasRoom(c) THEN [sendChan EXCEPT ![c] = @ + 1] ELSE sendChan
  /\ UNCHANGED <<link, presence, subscribers, events, inbox, push, sent, histVars>>

\* WriteLoop.  A client that does not read keeps it from doing so.
WriteOut(c) ==
  /\ link[c] = "open"
  /\ sendChan[c] > 0
  /\ sendChan' = [sendChan EXCEPT ![c] = @ - 1]
  /\ UNCHANGED <<link, presence, subscribers, events, inbox, push, acking, sent, histVars>>

-----------------------------------------------------------------------------
(* The event loops *)

\* Redis hands an event to each gateway (external).  A command result names
\* no pile.
Publish(kind) ==
  /\ events < MaxEvents
  /\ events' = events + 1
  /\ \E d \in Pile :
       inbox' = [inbox EXCEPT ![kind] = Append(@, [event |-> events + 1, pile |-> d])]
  /\ UNCHANGED <<link, presence, subscribers, push, sendChan, acking, sent, histVars>>

Followed == {d \in Pile : subscribers[d] # {}}

\* Mutant: the event stays where it was taken from.
TakeEventAgain(kind) ==
  /\ push[kind].event = 0
  /\ inbox[kind] # <<>>
  /\ push' = [push EXCEPT ![kind] = [Resting EXCEPT !.event = Head(inbox[kind]).event,
                                                   !.piles = Followed]]
  /\ UNCHANGED <<link, presence, subscribers, events, inbox, sendChan, acking, sent, histVars>>

\* The handler of the subscription: a state change is for its pile, a result
\* for every pile that has subscribers now.
TakeEvent(kind) ==
  /\ push[kind].event = 0
  /\ inbox[kind] # <<>>
  /\ inbox' = [inbox EXCEPT ![kind] = Tail(@)]
  /\ LET e == Head(inbox[kind])
         piles == IF kind = "state" THEN {e.pile} ELSE Followed
     IN push' = [push EXCEPT ![kind] =
                   IF piles = {} THEN Resting
                   ELSE [Resting EXCEPT !.event = e.event, !.piles = piles]]
  /\ UNCHANGED <<link, presence, subscribers, events, sendChan, acking, sent, histVars>>

\* PushShadowEvent: the users are copied under the lock.
CopyUsers(kind, d) ==
  /\ push[kind].event # 0
  /\ push[kind].users = {} /\ push[kind].to = Nobody
  /\ d \in push[kind].piles
  /\ LET p == push[kind]
         left == p.piles \ {d}
     IN push' = [push EXCEPT ![kind] =
                   IF left = {} /\ subscribers[d] = {} THEN Resting
                   ELSE [p EXCEPT !.piles = left, !.pile = d, !.users = subscribers[d]]]
  /\ UNCHANGED <<link, presence, subscribers, events, inbox, sendChan, acking, sent, histVars>>

\* The push to u is over; so may be the event.
Over(p, u) ==
  IF p.users \subseteq {u} /\ p.piles = {} THEN Resting
  ELSE [p EXCEPT !.users = @ \ {u}, !.to = Nobody]

\* Mutant: the entry is never found.
LookUpNobody(kind, u) ==
  /\ u \in push[kind].users
  /\ push[kind].to = Nobody
  /\ push' = [push EXCEPT ![kind] = Over(@, u)]
  /\ UNCHANGED <<link, presence, subscribers, events, inbox, sendChan, acking, sent, histVars>>

\* PushToUser, up to SendMessage: no entry, or a connection of another
\* gateway, ends it.
LookUpUser(kind, u) ==
  /\ u \in push[kind].users
  /\ push[kind].to = Nobody
  /\ LET c == presence[u]
     IN push' = [push EXCEPT ![kind] =
                   IF c \in Conn THEN [@ EXCEPT !.to = c] ELSE Over(@, u)]
  /\ UNCHANGED <<link, presence, subscribers, events, inbox, sendChan, acking, sent, histVars>>

PutPush(c, m) ==
  /\ sendChan' = [sendChan EXCEPT ![c] = @ + 1]
  /\ sent' = [sent EXCEPT ![c] = Append(@, m)]

\* Mutant: the send has no time limit.
SendOrWait(kind) ==
  LET p == push[kind]
      c == p.to
  IN /\ c # Nobody
     /\ HasRoom(c)
     /\ PutPush(c, Message(p.event, kind, p.pile))
     /\ push' = [push EXCEPT ![kind] = Over(@, OwnerOf[c])]
     /\ UNCHANGED <<link, presence, subscribers, events, inbox, acking, histVars>>

\* SendMessage: into the channel when there is room; given up when the
\* connection is closed or after 5 s without room.
Send(kind) ==
  LET p == push[kind]
      c == p.to
  IN /\ c # Nobody
     /\ IF HasRoom(c)
          THEN PutPush(c, Message(p.event, kind, p.pile)) /\ UNCHANGED timedOut
          ELSE /\ timedOut' = timedOut \cup {x \in {c} : link[x] = "open"}
               /\ UNCHANGED <<sendChan, sent>>
     /\ push' = [push EXCEPT ![kind] = Over(@, OwnerOf[c])]
     /\ UNCHANGED <<link, presence, subscribers, events, inbox, acking, asked, goneAt>>

PushStep(kind) ==
  \/ TakeEvent(kind)
  \/ \E d \in Pile : CopyUsers(kind, d)
  \/ \E u \in User : LookUpUser(kind, u)
  \/ Send(kind)

-----------------------------------------------------------------------------
PushNext ==
  \/ \E c \in Conn : \/ Enter(c) \/ Leave(c) \/ OtherRequest(c) \/ Ack(c) \/ WriteOut(c)
                     \/ \E d \in Pile : ShadowSubscribe(c, d) \/ ShadowUnsubscribe(c, d)
  \/ \E k \in Kind : Publish(k) \/ PushStep(k)
  \/ \E u \in User : EnterElsewhere(u) \/ LeaveElsewhere(u)

PushSpec == PushInit /\ [][PushNext]_pushVars

\* The goroutines of a gateway go on: the two that push, and the read loops
\* with their answers.  Clients owe nothing: they need neither read nor stay.
PushFairness ==
  /\ \A k \in Kind : WF_pushVars(PushStep(k))
  /\ \A c \in Conn : WF_pushVars(Ack(c))

-----------------------------------------------------------------------------
(* Properties *)

\* Every variable keeps its type; no send channel holds more than it can.
PushTypeOK ==
  LET MessageType == [event : 1..MaxEvents, kind : Kind, pile : Pile]
  IN /\ link \in [Conn -> {"new", "open", "closed"}]
     /\ presence \in [User -> Conn \cup {Nobody, Elsewhere}]
     /\ subscribers \in [Pile -> SUBSET User]
     /\ events \in 0..MaxEvents
     /\ inbox \in [Kind -> Seq([event : 1..MaxEvents, pile : Pile])]
     /\ push \in [Kind -> [event : 0..MaxEvents, piles : SUBSET Pile,
                          pile : Pile \cup {Nobody}, users : SUBSET User,
                          to : Conn \cup {Nobody}]]
     /\ sendChan \in [Conn -> 0..ChanSize]
     /\ sent \in [Conn -> Seq(MessageType)]
     /\ acking \in [Conn -> BOOLEAN]
     /\ asked \in [Pile -> SUBSET User]
     /\ goneAt \in [Pile -> [User -> 0..MaxEvents]]
     /\ timedOut \subseteq Conn

\* The subscription table is copied, and pushed to without the lock, while
\* users come, go and unsubscribe.  What a connection is sent is still about a
\* pile its user follows at this gateway, or stopped following only after the
\* event was published.
OnlyToSubscribers ==
  \A c \in Conn : \A i \in DOMAIN sent[c] :
    LET m == sent[c][i]
    IN \/ OwnerOf[c] \in asked[m.pile]
       \/ m.event <= goneAt[m.pile][OwnerOf[c]]

\* One goroutine serves one channel and every push goes through the one send
\* channel of a connection: an app sees the changes of a pile, and the results,
\* in the order they were published, and none of them twice.
InPublishedOrder ==
  \A c \in Conn : \A i, j \in DOMAIN sent[c] :
    LET m == sent[c][i]
        n == sent[c][j]
    IN i < j /\ m.kind = n.kind /\ m.pile = n.pile => m.event < n.event

\* A client that reads nothing costs each push 5 s and no more: the goroutine
\* of the gateway comes to the end of every event, and a request in hand gives
\* its slot of the worker pool back.
NobodyHoldsUp ==
  /\ \A k \in Kind : inbox[k] # <<>> ~> inbox[k] = <<>> /\ push[k] = Resting
  /\ \A c \in Conn : acking[c] ~> ~acking[c]

\* A state change on its way to a gateway reaches every user who follows the
\* pile there, unless they unsubscribe, their entry in the presence hash goes
\* or names another connection, or their channel stays full for 5 s.
SubscriberHears ==
  \A c \in Conn, d \in Pile, n \in 1..MaxEvents :
    LET u == OwnerOf[c]
        Follows == link[c] = "open" /\ presence[u] = c /\ u \in subscribers[d]
    IN (Follows /\ \E i \in DOMAIN inbox["state"] :
                     inbox["state"][i] = [event |-> n, pile |-> d])
         ~> (\/ ~Follows \/ c \in timedOut
             \/ \E i \in DOMAIN sent[c] : sent[c][i] = Message(n, "state", d))
=============================================================================
