----------------------------- MODULE Push_proofs -----------------------------
(***************************************************************************)
(* What reaches the users' apps reaches those who follow the pile, in the  *)
(* order it was published, for any number of users, connections and        *)
(* events.                                                                 *)
(***************************************************************************)
EXTENDS Push, TLAPS

LEMMA Appended ==
  ASSUME NEW S, NEW s \in Seq(S), NEW e \in S
  PROVE  /\ Append(s, e) \in Seq(S)
         /\ DOMAIN s = 1 .. Len(s) /\ Len(s) \in Nat /\ DOMAIN Append(s, e) = 1 .. (Len(s) + 1)
         /\ \A i \in 1 .. Len(s) : Append(s, e)[i] = s[i]
         /\ Append(s, e)[Len(s) + 1] = e
OBVIOUS

-----------------------------------------------------------------------------
(* The inductive invariant *)

\* The history says what the table says; an entry of the presence hash names
\* a connection of the user; a channel is empty before its connection opens.
TablesInv ==
  /\ asked = subscribers
  /\ \A u \in User : presence[u] \in Conn => OwnerOf[presence[u]] = u
  /\ \A c \in Conn : link[c] = "new" => sendChan[c] = 0

\* A goroutine with users to push to has an event and a pile, which it will
\* not come to again, and sends to a connection of one of these users.
LoopInv(p) ==
  /\ p.event <= events
  /\ p.users # {} => p.event # 0 /\ p.pile \in Pile /\ p.pile \notin p.piles
  /\ p.to # Nobody => OwnerOf[p.to] \in p.users

\* May u be sent event e of pile d?
Due(u, d, e) == u \in asked[d] \/ e <= goneAt[d][u]

DueInv ==
  /\ \A k \in Kind : \A u \in push[k].users : Due(u, push[k].pile, push[k].event)
  /\ \A c \in Conn : \A i \in DOMAIN sent[c] :
       sent[c][i].event <= events /\ Due(OwnerOf[c], sent[c][i].pile, sent[c][i].event)

\* What waits is younger than what is being pushed and what was sent.
InboxInv ==
  \A k \in Kind : \A j \in DOMAIN inbox[k] :
    /\ push[k].event < inbox[k][j].event /\ inbox[k][j].event <= events
    /\ \A i \in DOMAIN inbox[k] : i < j => inbox[k][i].event < inbox[k][j].event
    /\ \A c \in Conn : \A i \in DOMAIN sent[c] :
         sent[c][i].kind = k => sent[c][i].event < inbox[k][j].event

\* Is what was sent to the connections of u no younger than what p is at, and
\* if it is of the same event, of another pile or of another user than those
\* p has still to do?
Past(m, u, p) ==
  p.event # 0 =>
    /\ m.event <= p.event
    /\ m.event = p.event => m.pile \notin p.piles /\ (m.pile = p.pile => u \notin p.users)

SentInv ==
  \A c \in Conn : \A i \in DOMAIN sent[c] :
    Past(sent[c][i], OwnerOf[c], push[sent[c][i].kind])

PushInv ==
  /\ PushTypeOK /\ TablesInv
  /\ \A k \in Kind : LoopInv(push[k])
  /\ DueInv /\ InboxInv /\ SentInv /\ InPublishedOrder

-----------------------------------------------------------------------------
(* Types *)

EventType == [event : 1 .. MaxEvents, pile : Pile]
MessageType == [event : 1 .. MaxEvents, kind : Kind, pile : Pile]
PushType ==
  [event : 0 .. MaxEvents, piles : SUBSET Pile, pile : Pile \cup {Nobody},
   users : SUBSET User, to : Conn \cup {Nobody}]

LEMMA RestingOK ==
  /\ Resting \in PushType
  /\ Resting.event = 0 /\ Resting.piles = {} /\ Resting.users = {} /\ Resting.to = Nobody
BY PushAssumption DEF Resting, PushType

\* The push to u is over: the goroutine rests, or all that changes is that u
\* is done.
LEMMA OverOK ==
  ASSUME NEW p \in PushType, NEW u
  PROVE  /\ Over(p, u) \in PushType
         /\ \/ Over(p, u) = Resting
            \/ /\ Over(p, u).event = p.event /\ Over(p, u).piles = p.piles
               /\ Over(p, u).pile = p.pile /\ Over(p, u).users = p.users \ {u}
               /\ Over(p, u).to = Nobody
<1>1. CASE p.users \subseteq {u} /\ p.piles = {}
  BY <1>1, RestingOK DEF Over
<1>2. CASE ~(p.users \subseteq {u} /\ p.piles = {})
  <2>1. Over(p, u) = [p EXCEPT !.users = p.users \ {u}, !.to = Nobody]
    BY <1>2 DEF Over, PushType
  <2>. QED  BY <2>1, Zenon DEF PushType
<1>. QED  BY <1>1, <1>2

LEMMA PushInitOK == PushInit => PushInv
<1>. SUFFICES ASSUME PushInit PROVE PushInv
  OBVIOUS
<1>1. PushTypeOK
  <2>1. /\ \A k \in Kind : push[k] = Resting
        /\ push = [k \in Kind |-> Resting]
    BY DEF PushInit
  <2>2. push \in [Kind -> PushType]
    BY <2>1, RestingOK
  <2>3. 0 \in 0 .. MaxEvents /\ 0 \in 0 .. ChanSize
    BY PushAssumption
  <2>4. \A S : <<>> \in Seq(S)
    OBVIOUS
  <2>. QED  BY <2>2, <2>3, <2>4 DEF PushInit, PushTypeOK, PushType
<1>2. TablesInv
  BY PushAssumption DEF PushInit, TablesInv
<1>3. \A k \in Kind : push[k] = Resting
  BY DEF PushInit
<1>4. \A k \in Kind : LoopInv(push[k])
  BY <1>3, RestingOK DEF PushInit, LoopInv
<1>5. /\ \A c \in Conn : DOMAIN sent[c] = {}
      /\ \A k \in Kind : DOMAIN inbox[k] = {}
  BY DEF PushInit
<1>6. DueInv
  BY <1>3, <1>5, RestingOK DEF DueInv
<1>7. InboxInv
  BY <1>5 DEF InboxInv
<1>8. SentInv /\ InPublishedOrder
  BY <1>5 DEF SentInv, InPublishedOrder
<1>. QED  BY <1>1, <1>2, <1>4, <1>6, <1>7, <1>8 DEF PushInv

\* What the types say of one connection, one goroutine and one event.
LEMMA PushTypes ==
  ASSUME PushTypeOK
  PROVE  /\ events \in Nat /\ MaxEvents \in Nat /\ events <= MaxEvents
         /\ push \in [Kind -> PushType] /\ inbox \in [Kind -> Seq(EventType)]
         /\ sent \in [Conn -> Seq(MessageType)] /\ sendChan \in [Conn -> 0 .. ChanSize]
         /\ \A k \in Kind : push[k].event \in Nat
<1>1. events \in Nat /\ MaxEvents \in Nat /\ events <= MaxEvents
  BY PushAssumption DEF PushTypeOK
<1>2. push \in [Kind -> PushType]
  BY DEF PushTypeOK, PushType
<1>3. inbox \in [Kind -> Seq(EventType)]
  BY Zenon DEF PushTypeOK, EventType
<1>4. sent \in [Conn -> Seq(MessageType)] /\ sendChan \in [Conn -> 0 .. ChanSize]
  BY Zenon DEF PushTypeOK, MessageType
<1>5. \A p \in PushType : p.event \in Nat
  BY <1>1 DEF PushType
<1>. QED  BY <1>1, <1>2, <1>3, <1>4, <1>5

LEMMA OneMore == \A a, b \in Nat : a <= b => a <= b + 1 /\ a < b + 1
OBVIOUS

LEMMA EventIs ==
  ASSUME PushTypeOK, NEW k \in Kind, NEW j \in DOMAIN inbox[k]
  PROVE  inbox[k][j] \in EventType /\ inbox[k][j].event \in Nat /\ inbox[k][j].event >= 1
<1>1. inbox[k] \in Seq(EventType) /\ MaxEvents \in Nat
  BY PushTypes
<1>2. inbox[k][j] \in EventType
  BY <1>1
<1>. QED  BY <1>1, <1>2 DEF EventType

LEMMA MessageIs ==
  ASSUME PushTypeOK, NEW c \in Conn, NEW i \in DOMAIN sent[c]
  PROVE  /\ sent[c][i] \in MessageType /\ sent[c][i].kind \in Kind
         /\ sent[c][i].pile \in Pile /\ sent[c][i].event \in Nat
<1>1. sent[c] \in Seq(MessageType) /\ MaxEvents \in Nat
  BY PushTypes
<1>2. sent[c][i] \in MessageType
  BY <1>1
<1>. QED  BY <1>1, <1>2 DEF MessageType

LEMMA MessageOK ==
  ASSUME NEW k \in Kind, NEW p \in PushType, p.event # 0, p.pile \in Pile
  PROVE  /\ Message(p.event, k, p.pile) \in MessageType
         /\ Message(p.event, k, p.pile).event = p.event
         /\ Message(p.event, k, p.pile).kind = k
         /\ Message(p.event, k, p.pile).pile = p.pile
<1>1. p.event \in 1 .. MaxEvents
  BY PushAssumption DEF PushType
<1>. QED  BY <1>1 DEF Message, MessageType

\* The history of a connection gets a message, or is forgotten.
LEMMA SentOK ==
  ASSUME PushTypeOK, NEW c \in Conn, NEW s \in Seq(MessageType), sent' = [sent EXCEPT ![c] = s]
  PROVE  sent' \in [Conn -> Seq(MessageType)] /\ \A x \in Conn : sent'[x] = IF x = c THEN s ELSE sent[x]
BY Zenon DEF PushTypeOK, MessageType

LEMMA ConnectionTypes ==
  ASSUME PushTypeOK, TablesInv, NEW c \in Conn,
         Enter(c) \/ Leave(c) \/ OtherRequest(c) \/ Ack(c) \/ WriteOut(c)
  PROVE  PushTypeOK' /\ TablesInv'
<1>1. OwnerOf[c] \in User /\ ChanSize \in Nat /\ ChanSize >= 1 /\ sendChan[c] \in 0 .. ChanSize
  BY PushAssumption DEF PushTypeOK
<1>2. CASE Enter(c)
  <2>1. sendChan[c] + 1 \in 0 .. ChanSize
    BY <1>1, <1>2 DEF Enter, TablesInv
  <2>2. PushTypeOK'
    BY <1>1, <1>2, <2>1, Zenon DEF Enter, PushTypeOK, histVars
  <2>3. TablesInv'
    BY <1>1, <1>2 DEF Enter, PushTypeOK, histVars, TablesInv
  <2>. QED  BY <2>2, <2>3
<1>3. CASE Leave(c)
  <2>1. <<>> \in Seq(MessageType) /\ 0 \in 0 .. ChanSize
    BY <1>1
  <2>2. sent' \in [Conn -> Seq(MessageType)]
    BY <1>3, <2>1, SentOK, Zenon DEF Leave
  <2>3. PushTypeOK'
    BY <1>1, <1>3, <2>1, <2>2, Zenon DEF Leave, PushTypeOK, MessageType
  <2>4. TablesInv'
    BY <1>1, <1>3, PushAssumption DEF Leave, PushTypeOK, TablesInv
  <2>. QED  BY <2>3, <2>4
<1>4. CASE OtherRequest(c)
  BY <1>4, Zenon DEF OtherRequest, HandleMessage, PushTypeOK, histVars, TablesInv
<1>5. CASE Ack(c)
  <2>1. HasRoom(c) => sendChan[c] + 1 \in 0 .. ChanSize /\ link[c] # "new"
    BY <1>1 DEF HasRoom
  <2>2. PushTypeOK'
    BY <1>5, <2>1, Zenon DEF Ack, PushTypeOK, histVars
  <2>3. TablesInv'
    BY <1>5, <2>1 DEF Ack, PushTypeOK, histVars, TablesInv
  <2>. QED  BY <2>2, <2>3
<1>6. CASE WriteOut(c)
  <2>1. sendChan[c] - 1 \in 0 .. ChanSize
    BY <1>1, <1>6 DEF WriteOut
  <2>2. PushTypeOK'
    BY <1>6, <2>1, Zenon DEF WriteOut, PushTypeOK, histVars
  <2>3. TablesInv'
    BY <1>6 DEF WriteOut, PushTypeOK, histVars, TablesInv
  <2>. QED  BY <2>2, <2>3
<1>. QED  BY <1>2, <1>3, <1>4, <1>5, <1>6

LEMMA RequestTypes ==
  ASSUME PushTypeOK, TablesInv, NEW c \in Conn, NEW d \in Pile,
         ShadowSubscribe(c, d) \/ ShadowUnsubscribe(c, d)
  PROVE  PushTypeOK' /\ TablesInv'
<1>1. OwnerOf[c] \in User
  BY PushAssumption
<1>2. CASE ShadowSubscribe(c, d)
  <2>1. PushTypeOK'
    BY <1>1, <1>2, Zenon DEF ShadowSubscribe, HandleMessage, PushTypeOK
  <2>2. TablesInv'
    BY <1>1, <1>2 DEF ShadowSubscribe, PushTypeOK, TablesInv
  <2>. QED  BY <2>1, <2>2
<1>3. CASE ShadowUnsubscribe(c, d)
  <2>1. goneAt' \in [Pile -> [User -> 0 .. MaxEvents]]
    BY <1>1, <1>3 DEF ShadowUnsubscribe, TakesBack, PushTypeOK
  <2>2. PushTypeOK'
    BY <1>1, <1>3, <2>1, Zenon DEF ShadowUnsubscribe, HandleMessage, TakesBack, PushTypeOK
  <2>3. TablesInv'
    BY <1>1, <1>3 DEF ShadowUnsubscribe, TakesBack, PushTypeOK, TablesInv
  <2>. QED  BY <2>2, <2>3
<1>. QED  BY <1>2, <1>3

LEMMA ElsewhereTypes ==
  ASSUME PushTypeOK, TablesInv, NEW u \in User, EnterElsewhere(u) \/ LeaveElsewhere(u)
  PROVE  PushTypeOK' /\ TablesInv'
<1>1. PICK x \in {Nobody, Elsewhere} : presence' = [presence EXCEPT ![u] = x]
  BY DEF EnterElsewhere, LeaveElsewhere
<1>2. UNCHANGED <<link, subscribers, events, inbox, push, sendChan, acking, sent, histVars>>
  BY DEF EnterElsewhere, LeaveElsewhere
<1>3. PushTypeOK'
  BY <1>1, <1>2, Zenon DEF PushTypeOK, histVars
<1>4. TablesInv'
  BY <1>1, <1>2, PushAssumption DEF PushTypeOK, TablesInv, histVars
<1>. QED  BY <1>3, <1>4

LEMMA PublishTypes ==
  ASSUME PushTypeOK, TablesInv, NEW k \in Kind, Publish(k)
  PROVE  PushTypeOK' /\ TablesInv'
<1>1. events' \in 0 .. MaxEvents /\ events + 1 \in 1 .. MaxEvents
  BY PushAssumption DEF Publish, PushTypeOK
<1>2. PICK d \in Pile : inbox' = [inbox EXCEPT ![k] = Append(@, [event |-> events + 1, pile |-> d])]
  BY Zenon DEF Publish
<1>3. [event |-> events + 1, pile |-> d] \in EventType
  BY <1>1 DEF EventType
<1>4. Append(inbox[k], [event |-> events + 1, pile |-> d]) \in Seq(EventType)
  BY <1>3, PushTypes
<1>5. inbox' \in [Kind -> Seq(EventType)]
  BY <1>2, <1>4, PushTypes
<1>6. PushTypeOK'
  BY <1>1, <1>5, Zenon DEF Publish, PushTypeOK, EventType, histVars
<1>7. TablesInv'
  BY DEF Publish, TablesInv, histVars
<1>. QED  BY <1>6, <1>7

-----------------------------------------------------------------------------
(* The event loops *)

\* A goroutine goes on with its event, or rests, and nothing else happens.
LEMMA LoopMoves ==
  ASSUME PushInv, NEW k \in Kind, NEW q \in PushType, push' = [push EXCEPT ![k] = q],
         UNCHANGED <<link, presence, subscribers, events, inbox, sendChan, acking, sent>>,
         UNCHANGED <<asked, goneAt>>, timedOut' \subseteq Conn, LoopInv(q), q.event \in {0, push[k].event},
         \A u \in q.users : Due(u, q.pile, q.event),
         \A c \in Conn : \A i \in DOMAIN sent[c] :
           sent[c][i].kind = k => Past(sent[c][i], OwnerOf[c], q)
  PROVE  PushInv'
<1>1. PushTypeOK /\ push \in [Kind -> PushType]
  BY PushTypes DEF PushInv
<1>2. \A x \in Kind : push'[x] = IF x = k THEN q ELSE push[x]
  BY <1>1
<1>3. push' \in [Kind -> PushType]
  BY <1>1
<1>4. PushTypeOK'
  BY <1>1, <1>3, Zenon DEF PushTypeOK, PushType
<1>5. TablesInv'
  BY DEF PushInv, TablesInv
<1>6. \A x \in Kind : LoopInv(push'[x])
  BY <1>2 DEF PushInv
<1>7. \A x \in Kind : LoopInv(push[x])'
  BY <1>6 DEF LoopInv
<1>8. DueInv'
  <2>1. \A x \in Kind : \A u \in push'[x].users : Due(u, push'[x].pile, push'[x].event)
    BY <1>2 DEF PushInv, DueInv
  <2>. QED  BY <2>1 DEF PushInv, DueInv, Due
<1>9. InboxInv'
  <2>1. ASSUME NEW x \in Kind, NEW j \in DOMAIN inbox[x] PROVE push'[x].event < inbox[x][j].event
    <3>1. push[x].event < inbox[x][j].event /\ push[x].event \in Nat
      BY <1>1, PushTypes DEF PushInv, InboxInv
    <3>2. inbox[x][j].event \in Nat /\ inbox[x][j].event >= 1
      BY <1>1, EventIs
    <3>. QED  BY <1>2, <3>1, <3>2
  <2>. QED  BY <2>1 DEF PushInv, InboxInv
<1>10. SentInv'
  <2>1. ASSUME NEW c \in Conn, NEW i \in DOMAIN sent'[c]
        PROVE  Past(sent'[c][i], OwnerOf[c], push'[sent'[c][i].kind])
    <3>1. i \in DOMAIN sent[c] /\ sent'[c][i] = sent[c][i] /\ sent[c][i].kind \in Kind
      BY <1>1, MessageIs
    <3>. QED  BY <1>2, <3>1 DEF PushInv, SentInv
  <2>. QED  BY <2>1, Zenon DEF SentInv, Past
<1>11. InPublishedOrder'
  BY DEF PushInv, InPublishedOrder
<1>. QED  BY <1>4, <1>5, <1>7, <1>8, <1>9, <1>10, <1>11 DEF PushInv

\* Nothing is left to do for a goroutine that rests.
LEMMA RestingDone ==
  ASSUME PushInv
  PROVE  /\ LoopInv(Resting)
         /\ \A u \in Resting.users : Due(u, Resting.pile, Resting.event)
         /\ \A m, u : Past(m, u, Resting)
<1>1. events \in Nat
  BY PushTypes DEF PushInv
<1>. QED  BY <1>1, RestingOK DEF LoopInv, Past

LEMMA CopyUsersOK ==
  ASSUME PushInv, NEW k \in Kind, NEW d \in Pile, CopyUsers(k, d)
  PROVE  PushInv'
<1>. DEFINE p == push[k]
            q == [p EXCEPT !.piles = p.piles \ {d}, !.pile = d, !.users = subscribers[d]]
<1>1. /\ push' = [push EXCEPT ![k] = Resting] \/ push' = [push EXCEPT ![k] = q]
      /\ p.event # 0 /\ p.to = Nobody /\ d \in p.piles
      /\ UNCHANGED <<link, presence, subscribers, events, inbox, sendChan, acking, sent>>
      /\ UNCHANGED <<asked, goneAt>> /\ timedOut' \subseteq Conn
  <2>1. push' = [push EXCEPT ![k] = IF p.piles \ {d} = {} /\ subscribers[d] = {} THEN Resting ELSE q]
    BY DEF CopyUsers
  <2>. QED  BY <2>1, Zenon DEF CopyUsers, histVars, PushInv, PushTypeOK
<1>2. p \in PushType /\ subscribers[d] \subseteq User /\ p.event \in Nat /\ LoopInv(p)
  BY PushTypes, Zenon DEF PushInv, PushTypeOK
<1>3. CASE push' = [push EXCEPT ![k] = Resting]
  BY <1>1, <1>3, RestingOK, RestingDone, LoopMoves, Zenon
<1>4. CASE push' = [push EXCEPT ![k] = q]
  <2>1. /\ q \in PushType /\ q.event = p.event /\ q.piles = p.piles \ {d} /\ q.pile = d
        /\ q.users = subscribers[d] /\ q.to = Nobody
    BY <1>1, <1>2, Zenon DEF PushType
  <2>. HIDE DEF q
  <2>2. LoopInv(q)
    BY <1>1, <1>2, <2>1 DEF LoopInv
  <2>3. \A u \in q.users : Due(u, q.pile, q.event)
    BY <2>1 DEF PushInv, TablesInv, Due
  <2>4. ASSUME NEW c \in Conn, NEW i \in DOMAIN sent[c], sent[c][i].kind = k
        PROVE  Past(sent[c][i], OwnerOf[c], q)
    <3>1. Past(sent[c][i], OwnerOf[c], p)
      BY <2>4 DEF PushInv, SentInv
    <3>. HIDE DEF p
    <3>. QED  BY <1>1, <2>1, <3>1 DEF Past
  <2>. QED  BY <1>1, <1>4, <2>1, <2>2, <2>3, <2>4, LoopMoves, Zenon
<1>. QED  BY <1>1, <1>3, <1>4

\* A user is done: what was to be pushed to the others still is.
LEMMA OverKeeps ==
  ASSUME PushInv, NEW k \in Kind, NEW u
  PROVE  LET q == Over(push[k], u)
         IN /\ q \in PushType /\ LoopInv(q) /\ q.event \in {0, push[k].event}
            /\ \A v \in q.users : Due(v, q.pile, q.event)
            /\ \A m, v : Past(m, v, push[k]) => Past(m, v, q)
<1>. DEFINE p == push[k]
            q == Over(p, u)
<1>1. p \in PushType /\ LoopInv(p) /\ \A v \in p.users : Due(v, p.pile, p.event)
  BY PushTypes DEF PushInv, DueInv
<1>2. /\ q \in PushType
      /\ \/ q = Resting
         \/ /\ q.event = p.event /\ q.piles = p.piles /\ q.pile = p.pile
            /\ q.users = p.users \ {u} /\ q.to = Nobody
  BY <1>1, OverOK
<1>3. CASE q = Resting
  BY <1>2, <1>3, RestingOK, RestingDone
<1>4. CASE q # Resting
  <2>. HIDE DEF q, p
  <2>1. LoopInv(q)
    BY <1>1, <1>2, <1>4 DEF LoopInv
  <2>2. \A v \in q.users : Due(v, q.pile, q.event)
    BY <1>1, <1>2, <1>4
  <2>3. \A m, v : Past(m, v, p) => Past(m, v, q)
    BY <1>2, <1>4 DEF Past
  <2>. QED  BY <1>2, <1>4, <2>1, <2>2, <2>3 DEF p, q
<1>. QED  BY <1>3, <1>4

LEMMA LookUpUserOK ==
  ASSUME PushInv, NEW k \in Kind, NEW u \in User, LookUpUser(k, u)
  PROVE  PushInv'
<1>. DEFINE p == push[k]
            c == presence[u]
            q == [p EXCEPT !.to = c]
<1>1. /\ u \in p.users /\ p.to = Nobody
      /\ push' = [push EXCEPT ![k] = IF c \in Conn THEN q ELSE Over(p, u)]
      /\ UNCHANGED <<link, presence, subscribers, events, inbox, sendChan, acking, sent>>
      /\ UNCHANGED <<asked, goneAt>> /\ timedOut' \subseteq Conn
  BY PushTypes DEF LookUpUser, PushInv, histVars, PushTypeOK
<1>2. /\ p \in PushType /\ LoopInv(p) /\ \A v \in p.users : Due(v, p.pile, p.event)
      /\ \A x \in Conn : \A i \in DOMAIN sent[x] :
           sent[x][i].kind = k => Past(sent[x][i], OwnerOf[x], p)
  BY PushTypes DEF PushInv, DueInv, SentInv
<1>3. CASE c \in Conn
  <2>1. OwnerOf[c] = u
    BY <1>3 DEF PushInv, TablesInv
  <2>2. /\ q \in PushType /\ q.event = p.event /\ q.piles = p.piles /\ q.pile = p.pile
        /\ q.users = p.users /\ q.to = c
    BY <1>2, <1>3 DEF PushType
  <2>3. push' = [push EXCEPT ![k] = q]
    BY <1>1, <1>3
  <2>. HIDE DEF q
  <2>4. LoopInv(q)
    BY <1>1, <1>2, <2>1, <2>2 DEF LoopInv
  <2>5. \A x \in Conn : \A i \in DOMAIN sent[x] :
          sent[x][i].kind = k => Past(sent[x][i], OwnerOf[x], q)
    <3>. HIDE DEF p
    <3>. QED  BY <1>2, <2>2 DEF Past
  <2>6. \A v \in q.users : Due(v, q.pile, q.event)
    BY <1>2, <2>2
  <2>. QED  BY <1>1, <2>2, <2>3, <2>4, <2>5, <2>6, LoopMoves, Zenon
<1>4. CASE c \notin Conn
  <2>1. push' = [push EXCEPT ![k] = Over(p, u)]
    BY <1>1, <1>4
  <2>. DEFINE o == Over(p, u)
  <2>2. /\ o \in PushType /\ LoopInv(o) /\ o.event \in {0, push[k].event}
        /\ \A v \in o.users : Due(v, o.pile, o.event)
        /\ \A m, v : Past(m, v, p) => Past(m, v, o)
    BY OverKeeps
  <2>. HIDE DEF o
  <2>3. \A x \in Conn : \A i \in DOMAIN sent[x] :
          sent[x][i].kind = k => Past(sent[x][i], OwnerOf[x], o)
    BY <1>2, <2>2
  <2>4. push' = [push EXCEPT ![k] = o]
    BY <2>1 DEF o
  <2>. QED  BY <1>1, <2>2, <2>3, <2>4, LoopMoves, Zenon
<1>. QED  BY <1>3, <1>4

LEMMA TakeEventOK ==
  ASSUME PushInv, NEW k \in Kind, TakeEvent(k)
  PROVE  PushInv'
<1>1. PICK s \in Seq(EventType) : s = inbox[k] /\ s # <<>>
  BY PushTypes DEF PushInv, TakeEvent
<1>. DEFINE e == Head(s)
            piles == IF k = "state" THEN {e.pile} ELSE Followed
            begun == [Resting EXCEPT !.event = e.event, !.piles = piles]
            q == IF piles = {} THEN Resting ELSE begun
<1>2. /\ inbox' = [inbox EXCEPT ![k] = Tail(s)]
      /\ push' = [push EXCEPT ![k] = q]
      /\ UNCHANGED <<link, presence, subscribers, events, sendChan, acking, sent, asked, goneAt, timedOut>>
  BY <1>1 DEF TakeEvent, histVars
<1>3. /\ Len(s) \in Nat /\ Len(s) >= 1 /\ 1 \in DOMAIN inbox[k] /\ e = inbox[k][1]
      /\ Tail(s) \in Seq(EventType) /\ DOMAIN inbox[k] = 1 .. Len(s)
      /\ DOMAIN Tail(s) = 1 .. (Len(s) - 1)
      /\ \A j \in 1 .. (Len(s) - 1) : Tail(s)[j] = inbox[k][j + 1]
  BY <1>1
<1>4. /\ PushTypeOK /\ push \in [Kind -> PushType] /\ inbox \in [Kind -> Seq(EventType)]
      /\ \A x \in Kind : push[x].event \in Nat
      /\ MaxEvents \in Nat /\ events \in Nat
  BY PushTypes DEF PushInv
<1>5. e \in EventType /\ e.event \in 1 .. MaxEvents /\ e.pile \in Pile
  BY <1>3, <1>4, EventIs DEF EventType
<1>6. e.event <= events /\ e.event \in Nat /\ e.event >= 1
  BY <1>3, <1>4, <1>5 DEF PushInv, InboxInv
<1>7. piles \subseteq Pile
  BY <1>5 DEF Followed
<1>. HIDE DEF e, piles
<1>8. /\ begun.event = e.event /\ begun.users = {} /\ begun.to = Nobody
      /\ begun.piles = piles /\ begun.pile = Nobody
  BY DEF Resting
<1>9. begun \in PushType
  <2>1. e.event \in 0 .. MaxEvents
    BY <1>4, <1>5
  <2>. QED  BY <1>7, <2>1, RestingOK, Zenon DEF PushType
<1>. HIDE DEF begun
<1>10. /\ q \in PushType /\ q.event \in {0, e.event} /\ q.users = {} /\ q.to = Nobody
  BY <1>8, <1>9, RestingOK
<1>. HIDE DEF q
<1>11. /\ \A x \in Kind : push'[x] = IF x = k THEN q ELSE push[x]
       /\ \A x \in Kind : inbox'[x] = IF x = k THEN Tail(s) ELSE inbox[x]
       /\ push' \in [Kind -> PushType] /\ inbox' \in [Kind -> Seq(EventType)]
  BY <1>2, <1>3, <1>4, <1>10
<1>12. PushTypeOK'
  BY <1>2, <1>4, <1>11, Zenon DEF PushTypeOK, PushType, EventType
<1>13. TablesInv'
  BY <1>2 DEF PushInv, TablesInv
<1>14. \A x \in Kind : LoopInv(push[x])'
  <2>1. LoopInv(q)
    BY <1>4, <1>6, <1>10 DEF LoopInv
  <2>2. \A x \in Kind : LoopInv(push'[x])
    BY <1>11, <2>1 DEF PushInv
  <2>. QED  BY <1>2, <2>2 DEF LoopInv
<1>15. DueInv'
  <2>1. \A x \in Kind : \A u \in push'[x].users : Due(u, push'[x].pile, push'[x].event)
    BY <1>10, <1>11 DEF PushInv, DueInv
  <2>. QED  BY <1>2, <2>1, Zenon DEF PushInv, DueInv, Due
<1>16. InboxInv'
  <2>. SUFFICES ASSUME NEW x \in Kind, NEW j \in DOMAIN inbox'[x]
                PROVE  /\ push'[x].event < inbox'[x][j].event /\ inbox'[x][j].event <= events
                       /\ \A i \in DOMAIN inbox'[x] : i < j => inbox'[x][i].event < inbox'[x][j].event
                       /\ \A c \in Conn : \A i \in DOMAIN sent[c] :
                            sent[c][i].kind = x => sent[c][i].event < inbox'[x][j].event
    BY <1>2 DEF InboxInv
  <2>1. CASE x # k
    BY <1>11, <2>1, Zenon DEF PushInv, InboxInv
  <2>2. CASE x = k
    <3>1. inbox'[x] = Tail(s) /\ push'[x] = q /\ j \in 1 .. (Len(s) - 1)
      BY <1>3, <1>11, <2>2
    <3>2. /\ j + 1 \in DOMAIN inbox[k] /\ 1 < j + 1 /\ inbox'[x][j] = inbox[k][j + 1]
          /\ inbox[k][j + 1].event \in Nat /\ inbox[k][j + 1].event >= 1
      <4>1. j + 1 \in DOMAIN inbox[k] /\ 1 < j + 1 /\ inbox'[x][j] = inbox[k][j + 1]
        BY <1>3, <3>1
      <4>. QED  BY <1>4, <4>1, EventIs
    <3>3. /\ e.event < inbox[k][j + 1].event /\ inbox[k][j + 1].event <= events
          /\ \A c \in Conn : \A i \in DOMAIN sent[c] :
               sent[c][i].kind = k => sent[c][i].event < inbox[k][j + 1].event
      BY <1>3, <3>2 DEF PushInv, InboxInv
    <3>4. q.event < inbox[k][j + 1].event
      BY <1>10, <3>2, <3>3
    <3>5. ASSUME NEW i \in DOMAIN inbox'[x], i < j PROVE inbox'[x][i].event < inbox'[x][j].event
      <4>1. i \in 1 .. (Len(s) - 1) /\ inbox'[x][i] = inbox[k][i + 1]
        BY <1>3, <3>1
      <4>2. i + 1 \in DOMAIN inbox[k] /\ i + 1 < j + 1
        BY <1>3, <3>1, <3>5, <4>1
      <4>. QED  BY <3>2, <4>1, <4>2 DEF PushInv, InboxInv
    <3>. QED  BY <2>2, <3>1, <3>2, <3>3, <3>4, <3>5
  <2>. QED  BY <2>1, <2>2
<1>17. SentInv'
  <2>1. ASSUME NEW c \in Conn, NEW i \in DOMAIN sent'[c]
        PROVE  Past(sent'[c][i], OwnerOf[c], push'[sent'[c][i].kind])
    <3>. DEFINE m == sent[c][i]
    <3>1. i \in DOMAIN sent[c] /\ sent'[c][i] = m /\ m.kind \in Kind /\ m.event \in Nat
      BY <1>2, <1>4, MessageIs
    <3>2. CASE m.kind # k
      BY <1>11, <3>1, <3>2, ZenonT(30) DEF PushInv, SentInv
    <3>3. CASE m.kind = k
      <4>1. m.event < e.event
        BY <1>3, <3>1, <3>3 DEF PushInv, InboxInv
      <4>2. push'[m.kind] = q /\ q.event \in {0, e.event} /\ e.event \in Nat
        BY <1>6, <1>10, <1>11, <3>3
      <4>. HIDE DEF m
      <4>3. q.event # 0 => m.event <= q.event /\ m.event # q.event
        BY <3>1, <4>1, <4>2
      <4>. QED  BY <3>1, <4>2, <4>3 DEF Past
    <3>. QED  BY <3>2, <3>3
  <2>. QED  BY <2>1, Zenon DEF SentInv, Past
<1>18. InPublishedOrder'
  BY <1>2, Zenon DEF PushInv, InPublishedOrder
<1>. QED  BY <1>12, <1>13, <1>14, <1>15, <1>16, <1>17, <1>18 DEF PushInv

LEMMA SendOK ==
  ASSUME PushInv, NEW k \in Kind, Send(k)
  PROVE  PushInv'
<1>1. PICK p \in PushType : p = push[k]
  BY PushTypes DEF PushInv
<1>2. PICK c \in Conn : c = p.to
  BY <1>1 DEF Send, PushType
<1>. DEFINE u == OwnerOf[c]
            m == Message(p.event, k, p.pile)
            q == Over(p, u)
<1>3. c # Nobody /\ u \in User
  BY <1>2, PushAssumption
<1>4. /\ LoopInv(p) /\ u \in p.users /\ p.event # 0 /\ p.pile \in Pile /\ p.pile \notin p.piles
      /\ p.event <= events
  BY <1>1, <1>2, <1>3 DEF PushInv, LoopInv
<1>5. /\ push' = [push EXCEPT ![k] = q]
      /\ UNCHANGED <<link, presence, subscribers, events, inbox, acking, asked, goneAt>>
      /\ \/ PutPush(c, m) /\ HasRoom(c) /\ UNCHANGED timedOut
         \/ UNCHANGED <<sendChan, sent>> /\ timedOut' \subseteq timedOut \cup {c}
  BY <1>1, <1>2, Zenon DEF Send
<1>6. /\ q \in PushType /\ LoopInv(q) /\ q.event \in {0, p.event}
      /\ \A v \in q.users : Due(v, q.pile, q.event)
      /\ \A n, v : Past(n, v, p) => Past(n, v, q)
      /\ q = Resting \/ (q.event = p.event /\ q.piles = p.piles /\ q.pile = p.pile /\ q.users = p.users \ {u})
  BY <1>1, OverKeeps, OverOK, Zenon
<1>7. /\ m \in MessageType /\ m.event = p.event /\ m.kind = k /\ m.pile = p.pile
  BY <1>4, MessageOK
<1>. HIDE DEF m, q, u
<1>8. /\ PushTypeOK /\ push \in [Kind -> PushType] /\ MaxEvents \in Nat /\ events \in Nat
      /\ p.event \in Nat /\ timedOut \subseteq Conn
  BY <1>1, PushTypes, Zenon DEF PushInv, PushTypeOK
<1>9. \A x \in Conn : \A i \in DOMAIN sent[x] :
        sent[x][i].kind = k => Past(sent[x][i], OwnerOf[x], q)
  BY <1>1, <1>6, Zenon DEF PushInv, SentInv
<1>10. CASE UNCHANGED <<sendChan, sent>> /\ timedOut' \subseteq timedOut \cup {c}
  <2>1. timedOut' \subseteq Conn
    BY <1>8, <1>10
  <2>. QED  BY <1>1, <1>5, <1>6, <1>9, <1>10, <2>1, LoopMoves, Zenon
<1>11. CASE PutPush(c, m) /\ HasRoom(c) /\ UNCHANGED timedOut
  <2>1. PICK s \in Seq(MessageType) : s = sent[c]
    BY <1>8, PushTypes
  <2>2. sent' = [sent EXCEPT ![c] = Append(s, m)] /\ Append(s, m) \in Seq(MessageType)
    <3>1. Append(s, m) \in Seq(MessageType)
      BY <1>7, Appended, Zenon
    <3>. QED  BY <1>11, <2>1, <3>1 DEF PutPush
  <2>3. /\ sent' \in [Conn -> Seq(MessageType)]
        /\ \A x \in Conn : sent'[x] = IF x = c THEN Append(s, m) ELSE sent[x]
    BY <1>8, <2>2, SentOK, Zenon
  <2>4. /\ DOMAIN s = 1 .. Len(s) /\ Len(s) \in Nat /\ DOMAIN Append(s, m) = 1 .. (Len(s) + 1)
        /\ \A i \in 1 .. Len(s) : Append(s, m)[i] = s[i]
        /\ Append(s, m)[Len(s) + 1] = m
    BY <1>7, Appended
  <2>5. ASSUME NEW x \in Conn, NEW i \in DOMAIN sent'[x]
        PROVE  \/ i \in DOMAIN sent[x] /\ sent'[x][i] = sent[x][i]
               \/ x = c /\ i = Len(s) + 1 /\ sent'[x][i] = m
    BY <2>1, <2>3, <2>4, <2>5
  <2>6. \A x \in Kind : push'[x] = IF x = k THEN q ELSE push[x]
    BY <1>5, <1>8
  <2>7. sendChan' \in [Conn -> 0 .. ChanSize] /\ \A x \in Conn : sendChan'[x] = 0 => sendChan[x] = 0
    <3>1. sendChan[c] + 1 \in 0 .. ChanSize /\ sendChan[c] + 1 # 0
      BY <1>8, <1>11, PushTypes, PushAssumption DEF HasRoom
    <3>. QED  BY <1>8, <1>11, <3>1, PushTypes DEF PutPush
  <2>8. PushTypeOK'
    <3>1. push' \in [Kind -> PushType]
      BY <1>5, <1>6, <1>8
    <3>. QED  BY <1>5, <1>8, <1>11, <2>3, <2>7, <3>1, Zenon DEF PushTypeOK, PushType, MessageType
  <2>9. TablesInv'
    <3>1. \A x \in Conn : link[x] = "new" => sendChan'[x] = 0
      BY <1>8, <1>11 DEF PutPush, HasRoom, PushInv, TablesInv, PushTypeOK
    <3>. QED  BY <1>5, <3>1 DEF PushInv, TablesInv
  <2>10. \A x \in Kind : LoopInv(push[x])'
    <3>1. \A x \in Kind : LoopInv(push'[x])
      BY <1>6, <2>6 DEF PushInv
    <3>. QED  BY <1>5, <3>1 DEF LoopInv
  <2>11. DueInv'
    <3>1. \A x \in Kind : \A v \in push'[x].users : Due(v, push'[x].pile, push'[x].event)
      BY <1>6, <2>6, Zenon DEF PushInv, DueInv
    <3>2. m.event <= events /\ Due(u, m.pile, m.event)
      BY <1>1, <1>4, <1>7 DEF PushInv, DueInv
    <3>3. ASSUME NEW x \in Conn, NEW i \in DOMAIN sent'[x]
          PROVE  sent'[x][i].event <= events /\ Due(OwnerOf[x], sent'[x][i].pile, sent'[x][i].event)
      BY <2>5, <3>2 DEF PushInv, DueInv, u
    <3>. QED  BY <1>5, <3>1, <3>3, Zenon DEF DueInv, Due
  <2>12. InboxInv'
    <3>. SUFFICES ASSUME NEW x \in Kind, NEW j \in DOMAIN inbox[x]
                  PROVE  /\ push'[x].event < inbox[x][j].event
                         /\ \A y \in Conn : \A i \in DOMAIN sent'[y] :
                              sent'[y][i].kind = x => sent'[y][i].event < inbox[x][j].event
      BY <1>5, Zenon DEF PushInv, InboxInv
    <3>1. inbox[x][j].event \in Nat /\ inbox[x][j].event >= 1
      BY <1>8, EventIs
    <3>2. push[x].event < inbox[x][j].event
      BY Zenon DEF PushInv, InboxInv
    <3>3. push'[x].event < inbox[x][j].event
      <4>1. push'[x].event = push[x].event \/ push'[x].event = 0
        BY <1>1, <1>6, <2>6
      <4>2. 0 < inbox[x][j].event
        BY <3>1
      <4>. QED  BY <3>2, <4>1, <4>2, Zenon
    <3>4. x = k => m.event < inbox[x][j].event
      BY <1>1, <1>7, <3>2
    <3>5. ASSUME NEW y \in Conn, NEW i \in DOMAIN sent'[y], sent'[y][i].kind = x
          PROVE  sent'[y][i].event < inbox[x][j].event
      BY <1>7, <2>5, <3>4, <3>5, Zenon DEF PushInv, InboxInv
    <3>. QED  BY <3>3, <3>5
  <2>13. SentInv'
    <3>1. Past(m, u, q)
      <4>1. CASE q = Resting
        BY <4>1, RestingOK DEF Past
      <4>2. CASE q.event = p.event /\ q.piles = p.piles /\ q.pile = p.pile /\ q.users = p.users \ {u}
        BY <1>4, <1>7, <1>8, <4>2 DEF Past
      <4>. QED  BY <1>6, <4>1, <4>2
    <3>2. ASSUME NEW x \in Conn, NEW i \in DOMAIN sent'[x]
          PROVE  Past(sent'[x][i], OwnerOf[x], push'[sent'[x][i].kind])
      <4>1. CASE x = c /\ sent'[x][i] = m
        BY <1>7, <2>6, <3>1, <4>1 DEF u
      <4>2. CASE i \in DOMAIN sent[x] /\ sent'[x][i] = sent[x][i]
        <5>1. sent[x][i].kind \in Kind
          BY <1>8, <4>2, MessageIs
        <5>. QED  BY <1>9, <2>6, <4>2, <5>1 DEF PushInv, SentInv
      <4>. QED  BY <2>5, <4>1, <4>2, Zenon
    <3>. QED  BY <3>2, Zenon DEF SentInv, Past
  <2>14. InPublishedOrder'
    <3>. SUFFICES ASSUME NEW x \in Conn, NEW i \in DOMAIN sent'[x], NEW j \in DOMAIN sent'[x], i < j,
                         sent'[x][i].kind = sent'[x][j].kind, sent'[x][i].pile = sent'[x][j].pile
                  PROVE  sent'[x][i].event < sent'[x][j].event
      BY Zenon DEF InPublishedOrder
    <3>1. CASE j \in DOMAIN sent[x] /\ sent'[x][j] = sent[x][j]
      <4>1. i \in DOMAIN sent[x] /\ sent'[x][i] = sent[x][i]
        BY <2>1, <2>4, <2>5, <3>1
      <4>. QED  BY <3>1, <4>1 DEF PushInv, InPublishedOrder
    <3>2. CASE x = c /\ j = Len(s) + 1 /\ sent'[x][j] = m
      <4>1. i \in DOMAIN sent[x] /\ sent'[x][i] = sent[x][i]
        BY <2>4, <2>5, <3>2
      <4>2. Past(sent[x][i], u, p) /\ sent[x][i].event \in Nat
        BY <1>1, <1>7, <1>8, <3>2, <4>1, MessageIs, Zenon DEF PushInv, SentInv, u
      <4>. QED  BY <1>4, <1>7, <1>8, <3>2, <4>1, <4>2 DEF Past
    <3>. QED  BY <2>5, <3>1, <3>2
  <2>. QED  BY <2>8, <2>9, <2>10, <2>11, <2>12, <2>13, <2>14 DEF PushInv
<1>. QED  BY <1>5, <1>10, <1>11

-----------------------------------------------------------------------------
(* Connections, requests and events *)

\* Connections come and go: histories are kept or forgotten.
LEMMA ConnectionsOK ==
  ASSUME PushInv, PushTypeOK', TablesInv', UNCHANGED <<events, inbox, push, asked, goneAt>>,
         \A x \in Conn : sent'[x] = sent[x] \/ sent'[x] = <<>>
  PROVE  PushInv'
<1>1. ASSUME NEW x \in Conn, NEW i \in DOMAIN sent'[x] PROVE i \in DOMAIN sent[x] /\ sent'[x] = sent[x]
  <2>1. sent'[x] # <<>>
    BY <1>1
  <2>. QED  BY <1>1, <2>1
<1>2. \A k \in Kind : LoopInv(push[k])'
  BY DEF PushInv, LoopInv
<1>3. DueInv'
  BY <1>1 DEF PushInv, DueInv, Due
<1>4. InboxInv'
  <2>. SUFFICES ASSUME NEW k \in Kind, NEW j \in DOMAIN inbox[k]
                PROVE  /\ push[k].event < inbox[k][j].event /\ inbox[k][j].event <= events
                       /\ \A i \in DOMAIN inbox[k] : i < j => inbox[k][i].event < inbox[k][j].event
                       /\ \A c \in Conn : \A i \in DOMAIN sent'[c] :
                            sent'[c][i].kind = k => sent'[c][i].event < inbox[k][j].event
    BY DEF InboxInv
  <2>. QED  BY <1>1 DEF PushInv, InboxInv
<1>5. SentInv'
  BY <1>1, Zenon DEF PushInv, SentInv, Past
<1>6. InPublishedOrder'
  BY <1>1 DEF PushInv, InPublishedOrder
<1>. QED  BY <1>2, <1>3, <1>4, <1>5, <1>6, Zenon DEF PushInv

\* A request about a pile: what was due of the events so far still is.
LEMMA RequestOK ==
  ASSUME PushInv, NEW c \in Conn, NEW d \in Pile, ShadowSubscribe(c, d) \/ ShadowUnsubscribe(c, d)
  PROVE  PushInv'
<1>1. PushTypeOK' /\ TablesInv'
  BY RequestTypes DEF PushInv
<1>2. UNCHANGED <<events, inbox, push, sent>> /\ OwnerOf[c] \in User /\ PushTypeOK
  BY PushAssumption DEF ShadowSubscribe, ShadowUnsubscribe, PushInv
<1>3. ASSUME NEW u \in User, NEW x \in Pile, NEW e, e <= events, Due(u, x, e) PROVE Due(u, x, e)'
  <2>1. asked \in [Pile -> SUBSET User] /\ goneAt \in [Pile -> [User -> 0 .. MaxEvents]]
    BY <1>2 DEF PushTypeOK
  <2>2. CASE ShadowSubscribe(c, d)
    BY <1>3, <2>1, <2>2 DEF ShadowSubscribe, Due
  <2>3. CASE ShadowUnsubscribe(c, d)
    <3>. DEFINE v == OwnerOf[c]
    <3>1. asked'[x] = IF x = d THEN asked[x] \ {v} ELSE asked[x]
      BY <2>1, <2>3, Zenon DEF ShadowUnsubscribe, TakesBack
    <3>2. goneAt'[x][u] = IF v \in asked[d] /\ x = d /\ u = v THEN events ELSE goneAt[x][u]
      BY <1>2, <2>1, <2>3 DEF ShadowUnsubscribe, TakesBack
    <3>. HIDE DEF v
    <3>. QED  BY <1>3, <3>1, <3>2, Zenon DEF Due
  <2>. QED  BY <2>2, <2>3
<1>4. \A k \in Kind : LoopInv(push[k])'
  BY <1>2, Zenon DEF PushInv, LoopInv
<1>5. DueInv'
  <2>1. ASSUME NEW k \in Kind, NEW u \in push[k].users PROVE Due(u, push[k].pile, push[k].event)'
    <3>1. push[k].event <= events /\ push[k].pile \in Pile /\ u \in User /\ push[k].event \in Nat
      BY <1>2, PushTypes DEF PushInv, LoopInv, PushType
    <3>2. Due(u, push[k].pile, push[k].event)
      BY DEF PushInv, DueInv
    <3>3. PICK x \in Pile, e \in Nat : x = push[k].pile /\ e = push[k].event
      BY <3>1
    <3>4. Due(u, x, e)'
      BY <1>3, <3>1, <3>2, <3>3, Zenon
    <3>. QED  BY <1>2, <3>3, <3>4, Zenon DEF Due
  <2>2. ASSUME NEW x \in Conn, NEW i \in DOMAIN sent[x]
        PROVE  sent[x][i].event <= events /\ Due(OwnerOf[x], sent[x][i].pile, sent[x][i].event)'
    <3>1. /\ sent[x][i].event <= events /\ sent[x][i].pile \in Pile /\ OwnerOf[x] \in User
          /\ sent[x][i].event \in Nat
          /\ Due(OwnerOf[x], sent[x][i].pile, sent[x][i].event)
      BY <1>2, MessageIs, PushAssumption, Zenon DEF PushInv, DueInv
    <3>2. PICK y \in Pile, e \in Nat : y = sent[x][i].pile /\ e = sent[x][i].event
      BY <3>1, Zenon
    <3>3. Due(OwnerOf[x], y, e)'
      BY <1>3, <3>1, <3>2
    <3>. QED  BY <1>2, <3>1, <3>2, <3>3, Zenon DEF Due
  <2>. QED  BY <1>2, <2>1, <2>2 DEF DueInv
<1>6. InboxInv' /\ SentInv' /\ InPublishedOrder'
  BY <1>2, ZenonT(30) DEF PushInv, InboxInv, SentInv, Past, InPublishedOrder
<1>. QED  BY <1>1, <1>4, <1>5, <1>6, Zenon DEF PushInv

LEMMA PublishOK ==
  ASSUME PushInv, NEW k \in Kind, Publish(k)
  PROVE  PushInv'
<1>1. PushTypeOK' /\ TablesInv'
  BY PublishTypes DEF PushInv
<1>2. events' = events + 1 /\ UNCHANGED <<push, sent, asked, goneAt>>
  BY DEF Publish, histVars
<1>3. /\ PushTypeOK /\ events \in Nat /\ push \in [Kind -> PushType]
      /\ \A x \in Kind : push[x].event \in Nat
  BY PushTypes DEF PushInv
<1>4. PICK s \in Seq(EventType), e \in EventType :
        s = inbox[k] /\ inbox' = [inbox EXCEPT ![k] = Append(s, e)] /\ e.event = events + 1
  <2>1. events + 1 \in 1 .. MaxEvents
    BY PushAssumption DEF Publish, PushInv, PushTypeOK
  <2>2. PICK d \in Pile : inbox' = [inbox EXCEPT ![k] = Append(inbox[k], [event |-> events + 1, pile |-> d])]
    BY Zenon DEF Publish
  <2>3. inbox[k] \in Seq(EventType)
    BY <1>3, PushTypes
  <2>4. [event |-> events + 1, pile |-> d] \in EventType
    BY <2>1 DEF EventType
  <2>. QED  BY <2>2, <2>3, <2>4, Zenon
<1>5. /\ DOMAIN s = 1 .. Len(s) /\ Len(s) \in Nat /\ DOMAIN Append(s, e) = 1 .. (Len(s) + 1)
      /\ \A i \in 1 .. Len(s) : Append(s, e)[i] = s[i]
      /\ Append(s, e)[Len(s) + 1] = e
  BY Appended
<1>6. \A x \in Kind : inbox'[x] = IF x = k THEN Append(s, e) ELSE inbox[x]
  BY <1>3, <1>4, PushTypes
<1>7. ASSUME NEW x \in Kind PROVE LoopInv(push[x])'
  <2>1. LoopInv(push[x]) /\ push[x].event \in Nat
    BY <1>3 DEF PushInv
  <2>2. push[x].event <= events + 1
    BY <1>3, <2>1, OneMore DEF LoopInv
  <2>. QED  BY <1>2, <2>1, <2>2 DEF LoopInv
<1>8. DueInv'
  <2>1. ASSUME NEW c \in Conn, NEW i \in DOMAIN sent[c] PROVE sent[c][i].event <= events'
    <3>1. sent[c][i].event \in Nat /\ sent[c][i].event <= events
      BY <1>3, MessageIs, Zenon DEF PushInv, DueInv
    <3>2. sent[c][i].event <= events + 1
      BY <1>3, <3>1, OneMore, Zenon
    <3>. QED  BY <1>2, <3>2
  <2>. QED  BY <1>2, <2>1, Zenon DEF PushInv, DueInv, Due
<1>9. InboxInv'
  <2>. SUFFICES ASSUME NEW x \in Kind, NEW j \in DOMAIN inbox'[x]
                PROVE  /\ push[x].event < inbox'[x][j].event /\ inbox'[x][j].event <= events'
                       /\ \A i \in DOMAIN inbox'[x] : i < j => inbox'[x][i].event < inbox'[x][j].event
                       /\ \A c \in Conn : \A i \in DOMAIN sent[c] :
                            sent[c][i].kind = x => sent[c][i].event < inbox'[x][j].event
    BY <1>2, Zenon DEF InboxInv
  <2>1. \A i \in DOMAIN inbox[x] : inbox[x][i].event \in Nat /\ inbox[x][i].event <= events
    BY <1>3, EventIs, Zenon DEF PushInv, InboxInv
  <2>2. CASE j \in DOMAIN inbox[x] /\ inbox'[x][j] = inbox[x][j]
    <3>1. inbox'[x][j].event <= events'
      <4>1. inbox[x][j].event \in Nat /\ inbox[x][j].event <= events
        BY <2>1, <2>2, Zenon
      <4>2. inbox[x][j].event <= events + 1
        BY <1>3, <4>1, OneMore, Zenon
      <4>. QED  BY <1>2, <2>2, <4>2, Zenon
    <3>2. ASSUME NEW i \in DOMAIN inbox'[x], i < j
          PROVE  i \in DOMAIN inbox[x] /\ inbox'[x][i] = inbox[x][i]
      <4>1. CASE x # k
        BY <1>6, <3>2, <4>1
      <4>2. CASE x = k
        <5>1. inbox[x] = s /\ inbox'[x] = Append(s, e) /\ j \in 1 .. Len(s) /\ i \in 1 .. Len(s) + 1
          BY <1>4, <1>5, <1>6, <2>2, <4>2, Zenon
        <5>2. i \in 1 .. Len(s)
          BY <1>5, <3>2, <5>1
        <5>. QED  BY <1>5, <5>1, <5>2
      <4>. QED  BY <4>1, <4>2, Zenon
    <3>. QED  BY <2>2, <3>1, <3>2, Zenon DEF PushInv, InboxInv
  <2>3. CASE x = k /\ j = Len(s) + 1 /\ inbox'[x][j] = e
    <3>1. push[x].event <= events
      BY DEF PushInv, LoopInv
    <3>2. ASSUME NEW i \in DOMAIN inbox'[x], i < j
          PROVE  i \in DOMAIN inbox[x] /\ inbox'[x][i] = inbox[x][i]
      <4>1. inbox[x] = s /\ inbox'[x] = Append(s, e) /\ i \in 1 .. Len(s) + 1
        BY <1>4, <1>5, <1>6, <2>3
      <4>2. i \in 1 .. Len(s)
        BY <1>5, <2>3, <3>2, <4>1
      <4>. QED  BY <1>5, <4>1, <4>2
    <3>3. ASSUME NEW c \in Conn, NEW i \in DOMAIN sent[c] PROVE sent[c][i].event < events + 1
      <4>1. sent[c][i].event \in Nat /\ sent[c][i].event <= events
        BY <1>3, MessageIs DEF PushInv, DueInv
      <4>. QED  BY <1>3, <4>1, OneMore
    <3>4. push[x].event < events + 1
      BY <1>3, <3>1, OneMore
    <3>5. ASSUME NEW i \in DOMAIN inbox[x] PROVE inbox[x][i].event < events + 1
      <4>1. inbox[x][i].event \in Nat /\ inbox[x][i].event <= events
        BY <2>1
      <4>. QED  BY <1>3, <4>1, OneMore
    <3>6. inbox'[x][j].event = events + 1 /\ events' = events + 1 /\ events + 1 <= events + 1
      BY <1>2, <1>3, <1>4, <2>3
    <3>. QED  BY <3>2, <3>3, <3>4, <3>5, <3>6
  <2>4. \/ j \in DOMAIN inbox[x] /\ inbox'[x][j] = inbox[x][j]
        \/ x = k /\ j = Len(s) + 1 /\ inbox'[x][j] = e
    BY <1>4, <1>5, <1>6
  <2>. QED  BY <2>2, <2>3, <2>4, Zenon
<1>10. SentInv' /\ InPublishedOrder'
  BY <1>2, Zenon DEF PushInv, SentInv, Past, InPublishedOrder
<1>. QED  BY <1>1, <1>7, <1>8, <1>9, <1>10, Zenon DEF PushInv

LEMMA PushStepOK == PushInv /\ [PushNext]_pushVars => PushInv'
<1>. SUFFICES ASSUME PushInv, [PushNext]_pushVars PROVE PushInv'
  OBVIOUS
<1>1. CASE UNCHANGED pushVars
  <2>1. PushTypeOK' /\ TablesInv'
    BY <1>1, Zenon DEF pushVars, PushInv, PushTypeOK, TablesInv
  <2>. QED  BY <1>1, <2>1, ConnectionsOK, Zenon DEF pushVars
<1>2. ASSUME NEW c \in Conn, Enter(c) \/ Leave(c) \/ OtherRequest(c) \/ Ack(c) \/ WriteOut(c)
      PROVE  PushInv'
  <2>1. PushTypeOK' /\ TablesInv'
    BY <1>2, ConnectionTypes DEF PushInv
  <2>2. UNCHANGED <<events, inbox, push, asked, goneAt>>
    BY <1>2, Zenon DEF Enter, Leave, OtherRequest, Ack, WriteOut, histVars
  <2>3. sent' = sent \/ sent' = [sent EXCEPT ![c] = <<>>]
    BY <1>2, Zenon DEF Enter, Leave, OtherRequest, Ack, WriteOut
  <2>4. \A x \in Conn : sent'[x] = sent[x] \/ sent'[x] = <<>>
    BY <2>3 DEF PushInv, PushTypeOK
  <2>. QED  BY <2>1, <2>2, <2>4, ConnectionsOK
<1>3. ASSUME NEW c \in Conn, NEW d \in Pile, ShadowSubscribe(c, d) \/ ShadowUnsubscribe(c, d)
      PROVE  PushInv'
  BY <1>3, RequestOK
<1>4. ASSUME NEW k \in Kind, Publish(k) PROVE PushInv'
  BY <1>4, PublishOK
<1>5. ASSUME NEW k \in Kind, PushStep(k) PROVE PushInv'
  BY <1>5, TakeEventOK, CopyUsersOK, LookUpUserOK, SendOK DEF PushStep
<1>6. ASSUME NEW u \in User, EnterElsewhere(u) \/ LeaveElsewhere(u) PROVE PushInv'
  <2>1. PushTypeOK' /\ TablesInv'
    BY <1>6, ElsewhereTypes DEF PushInv
  <2>2. UNCHANGED <<events, inbox, push, sent, asked, goneAt>>
    BY <1>6 DEF EnterElsewhere, LeaveElsewhere, histVars
  <2>. QED  BY <2>1, <2>2, ConnectionsOK
<1>. QED  BY <1>1, <1>2, <1>3, <1>4, <1>5, <1>6 DEF PushNext

LEMMA PushInvariant == PushSpec => []PushInv
BY PushInitOK, PushStepOK, PTL DEF PushSpec

LEMMA PushHolds == PushInv => PushTypeOK /\ OnlyToSubscribers /\ InPublishedOrder
BY DEF PushInv, DueInv, Due, OnlyToSubscribers

\* Every variable keeps its type; no send channel ever holds more than its
\* capacity, whoever sends into it (SendMessage).
THEOREM PushTypeCorrect == PushSpec => []PushTypeOK
BY PushInvariant, PushHolds, PTL

\* A connection is sent only what its user follows, or followed when the event
\* was published, although the subscribers are copied and pushed to without
\* the lock (PushShadowEvent, handleShadowSubscribe).
THEOREM OnlySubscribersHear == PushSpec => []OnlyToSubscribers
BY PushInvariant, PushHolds, PTL

\* An app sees the changes of a pile, and the results, in the order they were
\* published and none twice (shadowEventLoop, PushToUser).
THEOREM OrderKept == PushSpec => []InPublishedOrder
BY PushInvariant, PushHolds, PTL
=============================================================================
