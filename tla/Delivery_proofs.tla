--------------------------- MODULE Delivery_proofs ---------------------------
(***************************************************************************)
(* No accepted command is lost, and no command is listed twice, for any    *)
(* number of requests, any batch size and any loss.  And what a stop of    *)
(* the process guarantees, for any number of piles and workers.            *)
(***************************************************************************)
EXTENDS ChargeFlow, Lifecycle, TLAPS

-----------------------------------------------------------------------------
(* The process: types *)

LEMMA LifeTypeInit == LifeInit => LifeTypeOK
BY Zenon DEF LifeInit, RedisInit, KafkaInit, LifeTypeOK, Stage

LEMMA LifeTypeStep == LifeTypeOK /\ [LifeNext]_lifeVars => LifeTypeOK'
<1>. SUFFICES ASSUME LifeTypeOK, [LifeNext]_lifeVars PROVE LifeTypeOK'
  OBVIOUS
<1>. USE DEF LifeTypeOK, mainVars, iotVars
<1>1. CASE StartCend
  BY <1>1 DEF StartCend, Register, Subscription, Server
<1>2. CASE StartIot
  BY <1>2 DEF StartIot, Register, Subscription, Server
<1>3. CASE StartIotFails \/ Signal
  BY <1>3, Zenon DEF StartIotFails, Signal, Stage
<1>4. CASE CendStop \/ CendWaited \/ CheckerEnds
  <2>1. CASE CendStop
    BY <2>1 DEF CendStop, Server, Stage
  <2>2. CASE CendWaited
    BY <2>2 DEF CendWaited, Server, Stage
  <2>3. CASE CheckerEnds
    BY <2>3 DEF CheckerEnds, Server
  <2>. QED  BY <1>4, <2>1, <2>2, <2>3
<1>5. CASE CendShutdown
  BY <1>5, Zenon DEF CendShutdown
<1>6. CASE IotStop \/ IotClose \/ IotWaited
  BY <1>6, Zenon DEF IotStop, IotClose, IotWaited, Server, Stage
<1>7. CASE MqClose \/ Exit
  BY <1>7, Zenon DEF MqClose, Exit, Stage
<1>8. ASSUME NEW d \in Charger, SweepOne(d) \/ AsyncTakes(d) \/ AsyncTouches(d)
      PROVE  LifeTypeOK'
  BY <1>8, Zenon DEF SweepOne, AsyncTakes, AsyncTouches
<1>9. ASSUME NEW name, IotLoopEnds(name) PROVE LifeTypeOK'
  BY <1>9 DEF IotLoopEnds
<1>10. CASE ConnOpens \/ ConnCloses \/ ForwardToBusiness
  BY <1>10, Zenon DEF ConnOpens, ConnCloses, ForwardToBusiness, ToKafka
<1>11. ASSUME NEW w \in PoolWorker, WorkConnect(w) \/ WorkPublish(w) \/ WorkerEnds(w)
       PROVE  LifeTypeOK'
  BY <1>11, Zenon DEF WorkConnect, WorkPublish, WorkerEnds, ToKafka
<1>12. ASSUME NEW w \in PoolWorker, NEW d \in Charger, TakePacket(w, d) PROVE LifeTypeOK'
  BY <1>12 DEF TakePacket
<1>13. ASSUME NEW name \in {"dtls", "quic"}, LinkOpens(name) \/ LinkEnds(name)
       PROVE  LifeTypeOK'
  BY <1>13, Zenon DEF LinkOpens, LinkEnds
<1>14. CASE UNCHANGED lifeVars
  BY <1>14 DEF lifeVars
<1>. HIDE DEF LifeTypeOK, mainVars, iotVars
<1>. QED
  BY <1>1, <1>2, <1>3, <1>4, <1>5, <1>6, <1>7, <1>8, <1>9, <1>10, <1>11, <1>12, <1>13,
     <1>14 DEF LifeNext, StopStep

\* Every variable of the life of a process keeps its type.
THEOREM LifeTypeCorrect == LifeSpec => []LifeTypeOK
BY LifeTypeInit, LifeTypeStep, PTL DEF LifeSpec

-----------------------------------------------------------------------------
(* The process: the stop *)

\* A context is cancelled only by the stop.  The stages of the stop come one
\* after the other, each with what was waited for before it at an end for good;
\* the registry is left by the goroutine the first wait includes; only the last
\* stage closes Kafka.
StopInv ==
  /\ stopper # "none" => proc \in {"stopping", "gone"}
  /\ cancelled # {} => stopper # "none"
  /\ proc = "up" \/ (proc = "start" /\ cendLoops # {}) => "shutdown" \in cendLoops
  /\ stopper # "none" /\ "shutdown" \notin cendLoops => "cend" \notin registry
  /\ stopper \in {"iot.Stop", "iot.sweep", "iot.Wait", "mq.Close", "done"} => cendLoops = {}
  /\ stopper \in {"mq.Close", "done"} => iotLoops = {} /\ PoolEnded
  /\ kafka = "closed" => stopper = "done"
  /\ KafkaClosedLast
  /\ CendLeavesRegistry

LEMMA StopInvInit == LifeInit => StopInv
BY DEF LifeInit, RedisInit, KafkaInit, StopInv, KafkaClosedLast, CendLeavesRegistry

LEMMA StopInvStep == LifeTypeOK /\ StopInv /\ [LifeNext]_lifeVars => StopInv'
<1>. SUFFICES ASSUME LifeTypeOK, StopInv, [LifeNext]_lifeVars PROVE StopInv'
  OBVIOUS
<1>. USE DEF StopInv, KafkaClosedLast, CendLeavesRegistry, PoolEnded, mainVars, iotVars
<1>1. CASE StartCend
  BY <1>1 DEF StartCend
<1>2. CASE StartIot
  BY <1>2 DEF StartIot
<1>3. CASE StartIotFails \/ Signal
  BY <1>3 DEF StartIotFails, Signal
<1>4. CASE CendStop \/ CendWaited
  BY <1>4 DEF CendStop, CendWaited, Alive
<1>5. CASE CheckerEnds
  BY <1>5 DEF CheckerEnds, Alive
<1>6. CASE CendShutdown
  <2>1. /\ Alive /\ "cend" \in cancelled /\ "shutdown" \in cendLoops
        /\ UNCHANGED <<proc, kafka, stopper, cancelled, iotLoops, pool, wroteClosed>>
    BY <1>6 DEF CendShutdown
  <2>2. CASE cendLoops' = cendLoops \ {"http"} /\ UNCHANGED registry
    BY <2>1, <2>2 DEF Alive
  <2>3. CASE cendLoops' = cendLoops \ {"shutdown"} /\ registry' = registry \ {"cend"}
    <3>1. proc # "start" /\ proc # "up"
      BY <2>1
    <3>. QED  BY <2>1, <2>3, <3>1 DEF Alive
  <2>. QED  BY <1>6, <2>2, <2>3 DEF CendShutdown
<1>7. CASE IotStop \/ IotClose \/ IotWaited
  BY <1>7 DEF IotStop, IotClose, IotWaited, Alive
<1>8. CASE MqClose
  BY <1>8 DEF MqClose, Alive
<1>9. CASE Exit
  BY <1>9 DEF Exit, Stuck
<1>10. ASSUME NEW d \in Charger, SweepOne(d) \/ AsyncTakes(d) \/ AsyncTouches(d)
       PROVE  StopInv'
  BY <1>10 DEF SweepOne, AsyncTakes, AsyncTouches
<1>11. ASSUME NEW name, IotLoopEnds(name) PROVE StopInv'
  BY <1>11 DEF IotLoopEnds
<1>12. CASE ConnOpens \/ ConnCloses \/ ForwardToBusiness
  <2>1. /\ Alive /\ cendLoops # {}
        /\ UNCHANGED <<mainVars, iotVars>>
        /\ cendLoops' \ {"conn"} = cendLoops \ {"conn"}
        /\ wroteClosed' \in {wroteClosed, wroteClosed \/ kafka = "closed"}
    BY <1>12 DEF ConnOpens, ConnCloses, ForwardToBusiness, ToKafka
  <2>2. kafka # "closed" /\ ~wroteClosed'
    BY <2>1, Zenon
  <2>. QED  BY <2>1, <2>2 DEF Alive
<1>13. ASSUME NEW w \in PoolWorker, pool[w] # "ended"
       PROVE  stopper \notin {"mq.Close", "done"} /\ kafka # "closed"
  BY <1>13
<1>14. ASSUME NEW w \in PoolWorker,
              \/ WorkConnect(w) \/ WorkPublish(w) \/ WorkerEnds(w)
              \/ \E d \in Charger : TakePacket(w, d)
       PROVE  StopInv'
  <2>1. /\ pool[w] # "ended"
        /\ UNCHANGED <<proc, kafka, registry, stopper, cancelled, cendLoops>>
        /\ wroteClosed' \in {wroteClosed, wroteClosed \/ kafka = "closed"}
    BY <1>14, LifecycleAssumption
       DEF WorkConnect, WorkPublish, WorkerEnds, TakePacket, ToKafka, LifeTypeOK
  <2>2. ~wroteClosed'
    BY <1>13, <2>1, Zenon
  <2>. QED  BY <1>13, <2>1, <2>2
<1>15. ASSUME NEW name \in {"dtls", "quic"}, LinkOpens(name) \/ LinkEnds(name)
       PROVE  StopInv'
  BY <1>15 DEF LinkOpens, LinkEnds
<1>16. CASE UNCHANGED lifeVars
  BY <1>16 DEF lifeVars
<1>. HIDE DEF StopInv, KafkaClosedLast, CendLeavesRegistry, PoolEnded, mainVars, iotVars
<1>. QED
  BY <1>1, <1>2, <1>3, <1>4, <1>5, <1>6, <1>7, <1>8, <1>9, <1>10, <1>11, <1>12, <1>13,
     <1>14, <1>15, <1>16 DEF LifeNext, StopStep

LEMMA StopInvHolds == LifeSpec => []StopInv
<1>1. LifeInit => LifeTypeOK /\ StopInv
  BY LifeTypeInit, StopInvInit
<1>2. LifeTypeOK /\ StopInv /\ [LifeNext]_lifeVars => LifeTypeOK' /\ StopInv'
  BY LifeTypeStep, StopInvStep
<1>. QED  BY <1>1, <1>2, PTL DEF LifeSpec

\* Nothing is written to a closed Kafka writer: when mq.Close runs, no
\* connection and no worker is left that could publish, for any number of
\* workers and piles.
THEOREM KafkaIsClosedLast == LifeSpec => []KafkaClosedLast
<1>1. StopInv => KafkaClosedLast
  BY DEF StopInv
<1>. QED  BY <1>1, StopInvHolds, PTL

\* A stopped process leaves no entry of its C-end gateway behind, however main
\* comes to give up waiting (waitForShutdown is part of the first wait).
THEOREM CendHasLeft == LifeSpec => []CendLeavesRegistry
<1>1. StopInv => CendLeavesRegistry
  BY DEF StopInv
<1>. QED  BY <1>1, StopInvHolds, PTL

-----------------------------------------------------------------------------
(* The commands *)

\* The strengthening: only a pile that handled a command acknowledges it,
\* so MarkDone only removes what the pile has handled.
AcksAreHandled == \A m \in up : m.type = "CMDACK" => m.cmd \in done

DeliveryInv == TypeOK /\ AcksAreHandled /\ NoCommandLost

-----------------------------------------------------------------------------
(* The list *)

LEMMA LenIs ==
  ASSUME NEW S, NEW s \in Seq(S)
  PROVE  Len(s) \in Nat /\ DOMAIN s = 1 .. Len(s)
OBVIOUS

LEMMA ElementOf ==
  ASSUME NEW S, NEW s \in Seq(S), NEW i \in 1 .. Len(s)
  PROVE  s[i] \in S
OBVIOUS

LEMMA IsSequence ==
  ASSUME NEW S, NEW n \in Nat, NEW f \in [1 .. n -> S]
  PROVE  f \in Seq(S)
OBVIOUS

\* RemoveIndex takes one element out and keeps the others.
LEMMA RemoveIndexProperties ==
  ASSUME NEW S, NEW q \in Seq(S), NEW i \in DOMAIN q
  PROVE  /\ RemoveIndex(q, i) \in Seq(S)
         /\ DOMAIN RemoveIndex(q, i) = 1..(Len(q) - 1)
         /\ \A j \in DOMAIN q : j # i =>
              \E k \in DOMAIN RemoveIndex(q, i) : RemoveIndex(q, i)[k] = q[j]
         /\ \A k \in DOMAIN RemoveIndex(q, i) :
              RemoveIndex(q, i)[k] = IF k < i THEN q[k] ELSE q[k + 1]
<1> DEFINE R == RemoveIndex(q, i)
<1>1. Len(q) \in Nat /\ DOMAIN q = 1..Len(q) /\ Len(q) - 1 \in Nat
  BY LenIs
<1>2. \A j \in DOMAIN q : q[j] \in S
  BY ElementOf, <1>1
<1>3. /\ DOMAIN R = 1..(Len(q) - 1)
      /\ \A k \in 1..(Len(q) - 1) : R[k] = IF k < i THEN q[k] ELSE q[k + 1]
  BY DEF RemoveIndex
<1>4. R \in Seq(S)
  <2>1. \A k \in 1..(Len(q) - 1) : (IF k < i THEN q[k] ELSE q[k + 1]) \in S
    BY <1>1, <1>2
  <2>2. R \in [1..(Len(q) - 1) -> S]
    BY <2>1 DEF RemoveIndex
  <2> QED  BY <2>2, <1>1, IsSequence
<1>5. ASSUME NEW j \in DOMAIN q, j # i
      PROVE  \E k \in DOMAIN R : R[k] = q[j]
  <2>1. CASE j < i
    <3>1. j \in DOMAIN R /\ R[j] = q[j]
      BY <1>1, <1>3, <2>1
    <3> QED  BY <3>1
  <2>2. CASE j > i
    <3>1. j - 1 \in DOMAIN R /\ R[j - 1] = q[j]
      BY <1>1, <1>3, <2>2
    <3> QED  BY <3>1
  <2> QED  BY <1>1, <1>5, <2>1, <2>2
<1> QED  BY <1>3, <1>4, <1>5

\* Appending keeps what is listed and adds the new command at the end.
LEMMA AppendListed ==
  ASSUME NEW S, NEW q \in Seq(S), NEW r \in S
  PROVE  /\ Append(q, r) \in Seq(S)
         /\ DOMAIN Append(q, r) = 1..(Len(q) + 1)
         /\ DOMAIN q = 1..Len(q) /\ Len(q) \in Nat
         /\ \A i \in DOMAIN q : Append(q, r)[i] = q[i]
         /\ Append(q, r)[Len(q) + 1] = r
OBVIOUS

\* MarkDone keeps every other command in the list.
LEMMA MarkDoneKeeps ==
  ASSUME queue \in Seq(Request), NEW c \in Request, MarkDone(c)
  PROVE  /\ queue' \in Seq(Request)
         /\ \A r \in Request \ {c} : InQueue(r) => InQueue(r)'
<1>1. CASE ~InQueue(c) /\ UNCHANGED queue
  BY <1>1 DEF InQueue
<1>2. ASSUME NEW i \in DOMAIN queue, IsFirst(c, i), queue' = RemoveIndex(queue, i)
      PROVE  /\ queue' \in Seq(Request)
             /\ \A r \in Request \ {c} : InQueue(r) => InQueue(r)'
  <2>1. queue' \in Seq(Request)
    BY <1>2, RemoveIndexProperties
  <2>2. ASSUME NEW r \in Request \ {c}, InQueue(r)
        PROVE  InQueue(r)'
    <3>1. PICK j \in DOMAIN queue : queue[j] = r
      BY <2>2 DEF InQueue
    <3>2. j # i
      BY <1>2, <3>1 DEF IsFirst
    <3>3. \E k \in DOMAIN RemoveIndex(queue, i) : RemoveIndex(queue, i)[k] = r
      BY <3>1, <3>2, RemoveIndexProperties
    <3> QED  BY <3>3, <1>2 DEF InQueue
  <2> QED  BY <2>1, <2>2
<1> QED  BY <1>1, <1>2 DEF MarkDone

-----------------------------------------------------------------------------
(* Typing *)

\* The initial state is well typed.
LEMMA InitType == ASSUME FlowAssumption  PROVE Init => TypeOK
<1> SUFFICES ASSUME Init PROVE TypeOK
  OBVIOUS
<1>1. queue \in Seq(Request)
  BY DEF Init
<1>2. shadow \in State /\ req \in [Request -> Step \cup Answer]
  BY DEF Init, State, Step, Answer
<1>3. pile \in [state : PileState, by : Request \cup {None}]
  BY DEF Init, PileState
<1> QED  BY <1>1, <1>2, <1>3 DEF Init, TypeOK

\* A request of the C-end gateway keeps the types.
LEMMA RequestType ==
  ASSUME TypeOK, NEW r \in Request,
         \/ TryPreoccupy(r) \/ TryPreoccupyFails(r)
         \/ Enqueue(r) \/ EnqueueFails(r) \/ Trigger(r)
  PROVE  TypeOK'
<1>1. \A a \in Step \cup Answer : [req EXCEPT ![r] = a] \in [Request -> Step \cup Answer]
  BY DEF TypeOK
<1>2. req' \in [Request -> Step \cup Answer]
  BY <1>1 DEF TryPreoccupy, TryPreoccupyFails, Enqueue, EnqueueFails, Trigger, Step, Answer
<1>3. Append(queue, r) \in Seq(Request)
  BY AppendListed DEF TypeOK
<1>4. queue' \in Seq(Request)
  BY <1>3 DEF TryPreoccupy, TryPreoccupyFails, Enqueue, EnqueueFails, Trigger, TypeOK
<1>5. shadow' \in State /\ holder' \in Request \cup {None}
  BY DEF TryPreoccupy, TryPreoccupyFails, Enqueue, EnqueueFails, Trigger, TypeOK, State
<1>6. UNCHANGED <<lapsed, linked, down, up, acked, pile, done>>
  BY DEF TryPreoccupy, TryPreoccupyFails, Enqueue, EnqueueFails, Trigger
<1> QED  BY <1>2, <1>4, <1>5, <1>6 DEF TypeOK

\* A report leaves the shadow in a state and its holder a request or none.
LEMMA ReportType ==
  ASSUME TypeOK, NEW state \in PileState, Report(state)
  PROVE  shadow' \in State /\ holder' \in Request \cup {None}
BY DEF TypeOK, Report, PileState, State

\* A step of the IoT gateway keeps the types.
LEMMA GatewayType ==
  ASSUME TypeOK,
         \/ \E m \in up : \/ HandleStatus(m) \/ HandlePublish(m)
                          \/ CmdAck(m) \/ CmdAckUnmarked(m)
         \/ \E state \in acked : CmdAckReport(state)
         \/ Dispatch \/ LinkDown \/ SilenceDetected \/ LinkUp
  PROVE  TypeOK'
<1>0. \A m \in up : /\ m.state \in PileState
                    /\ m.type = "CMDACK" => m.cmd \in Request
  BY DEF TypeOK, Packet
<1>1. ASSUME NEW m \in up, HandleStatus(m) \/ HandlePublish(m) PROVE TypeOK'
  <2>1. shadow' \in State /\ holder' \in Request \cup {None}
    BY <1>0, <1>1, ReportType DEF HandleStatus, HandlePublish, TypeOK
  <2> QED  BY <1>1, <2>1 DEF HandleStatus, HandlePublish, TypeOK
<1>2. ASSUME NEW m \in up, CmdAck(m) PROVE TypeOK'
  <2>1. queue' \in Seq(Request)
    BY <1>0, <1>2, MarkDoneKeeps DEF CmdAck, TypeOK
  <2> QED  BY <1>0, <1>2, <2>1 DEF CmdAck, TypeOK
<1>3. ASSUME NEW m \in up, CmdAckUnmarked(m) PROVE TypeOK'
  BY <1>0, <1>3 DEF CmdAckUnmarked, TypeOK, cloud
<1>4. ASSUME NEW state \in acked, CmdAckReport(state) PROVE TypeOK'
  <2>1. state \in PileState
    BY DEF TypeOK
  <2>2. shadow' \in State /\ holder' \in Request \cup {None}
    BY <1>4, <2>1, ReportType DEF CmdAckReport
  <2> QED  BY <1>4, <2>2 DEF CmdAckReport, TypeOK
<1>5. CASE Dispatch
  <2>1. Batch \subseteq Request
    <3>1. \A i \in DOMAIN queue : queue[i] \in Request
      BY ElementOf, LenIs DEF TypeOK
    <3> QED  BY <3>1 DEF Batch
  <2> QED  BY <1>5, <2>1 DEF Dispatch, TypeOK, cloud
<1>6. CASE LinkDown
  BY <1>6, Zenon DEF LinkDown, TypeOK, State
<1>7. CASE SilenceDetected
  BY <1>7 DEF SilenceDetected, TypeOK, State
<1>8. CASE LinkUp
  BY <1>8 DEF LinkUp, TypeOK, cloud
<1> QED  BY <1>1, <1>2, <1>3, <1>4, <1>5, <1>6, <1>7, <1>8

\* A step of a scanner, of Redis, of the network or of the pile keeps the
\* types.
LEMMA WorldType ==
  ASSUME TypeOK,
         \/ \E r \in Request : Deliver(r)
         \/ \E type \in {"STATUS", "PUBLISH"} : SendReport(type)
         \/ Rollback \/ QueueExpires \/ Lose \/ EndCharge
  PROVE  TypeOK'
<1>1. ASSUME NEW r \in Request, Deliver(r) PROVE TypeOK'
  <2>1. pile' \in [state : PileState, by : Request \cup {None}]
    BY <1>1 DEF Deliver, PileAfter, TypeOK, PileState
  <2>2. Ack(r, pile'.state) \in Packet
    BY <2>1 DEF Ack, Packet
  <2> QED  BY <1>1, <2>1, <2>2 DEF Deliver, TypeOK, cloud
<1>2. ASSUME NEW type \in {"STATUS", "PUBLISH"}, SendReport(type) PROVE TypeOK'
  <2>1. Status(type, pile.state) \in Packet
    BY DEF Status, Packet, TypeOK
  <2> QED  BY <1>2, <2>1, Zenon DEF SendReport, TypeOK, cloud
<1>3. CASE Rollback
  BY <1>3 DEF Rollback, TypeOK, State
<1>4. CASE QueueExpires
  <2>1. \A i \in DOMAIN queue : queue[i] \in Request
    BY ElementOf, LenIs DEF TypeOK
  <2>2. queue' \in Seq(Request)
    BY <1>4 DEF QueueExpires
  <2> QED  BY <1>4, <2>1, <2>2 DEF QueueExpires, TypeOK
<1>5. CASE Lose
  BY <1>5 DEF Lose, TypeOK, cloud
<1>6. CASE EndCharge
  BY <1>6 DEF EndCharge, TypeOK, PileState, cloud
<1> QED  BY <1>1, <1>2, <1>3, <1>4, <1>5, <1>6

\* Every step keeps the types.
LEMMA StepType == TypeOK /\ [Next]_vars => TypeOK'
<1> SUFFICES ASSUME TypeOK, [Next]_vars PROVE TypeOK'
  OBVIOUS
<1>1. CASE UNCHANGED vars
  BY <1>1 DEF vars, TypeOK
<1>2. CASE Next
  BY <1>2, RequestType, GatewayType, WorldType DEF Next
<1> QED  BY <1>1, <1>2

-----------------------------------------------------------------------------
(* Delivery *)

\* Only Deliver creates an acknowledgement, and the pile never forgets.
LEMMA AcksStep ==
  ASSUME TypeOK, AcksAreHandled, [Next]_vars
  PROVE  AcksAreHandled' /\ done \subseteq done'
<1>1. ASSUME NEW r \in Request, Deliver(r)
      PROVE  AcksAreHandled' /\ done \subseteq done'
  <2>1. Ack(r, pile'.state).cmd = r
    BY DEF Ack
  <2> QED  BY <1>1, <2>1 DEF Deliver, AcksAreHandled
<1>2. ASSUME NEW type \in {"STATUS", "PUBLISH"}, SendReport(type)
      PROVE  AcksAreHandled' /\ done \subseteq done'
  <2>1. Status(type, pile.state).type # "CMDACK"
    BY DEF Status
  <2> QED  BY <1>2, <2>1 DEF SendReport, AcksAreHandled
<1>3. CASE \/ UNCHANGED vars
           \/ \E r \in Request : \/ TryPreoccupy(r) \/ TryPreoccupyFails(r)
                                 \/ Enqueue(r) \/ EnqueueFails(r) \/ Trigger(r)
           \/ \E m \in up : \/ HandleStatus(m) \/ HandlePublish(m)
                            \/ CmdAck(m) \/ CmdAckUnmarked(m)
           \/ \E state \in acked : CmdAckReport(state)
           \/ Dispatch \/ LinkDown \/ SilenceDetected \/ LinkUp
           \/ Rollback \/ QueueExpires \/ Lose \/ EndCharge
  <2>1. up' \subseteq up /\ done' = done
    BY <1>3, Zenon DEF vars, TryPreoccupy, TryPreoccupyFails, Enqueue, EnqueueFails,
         Trigger, HandleStatus, HandlePublish, CmdAck, CmdAckUnmarked, CmdAckReport, Dispatch,
         LinkDown, SilenceDetected, LinkUp, Rollback, QueueExpires, Lose, EndCharge
  <2> QED  BY <2>1 DEF AcksAreHandled
<1> QED  BY <1>1, <1>2, <1>3 DEF Next

\* A command leaves the list only when the pile has handled it or the list
\* reached its time to live; it becomes accepted only by entering the list.
LEMMA LostStep ==
  ASSUME TypeOK, AcksAreHandled, NoCommandLost, [Next]_vars
  PROVE  NoCommandLost'
<1>0. done \subseteq done'
  BY AcksStep
<1>1. ASSUME NEW r \in Request, TryPreoccupy(r) \/ TryPreoccupyFails(r) \/ Trigger(r)
      PROVE  NoCommandLost'
  <2>1. Accepted' \subseteq Accepted
    BY <1>1 DEF TryPreoccupy, TryPreoccupyFails, Trigger, Accepted, TypeOK
  <2>2. UNCHANGED <<queue, lapsed, done>>
    BY <1>1 DEF TryPreoccupy, TryPreoccupyFails, Trigger
  <2> QED  BY <2>1, <2>2 DEF NoCommandLost, InQueue
<1>2. ASSUME NEW r \in Request, Enqueue(r) \/ EnqueueFails(r)
      PROVE  NoCommandLost'
  <2>1. \A c \in Request : InQueue(c) => InQueue(c)'
    BY <1>2, AppendListed DEF Enqueue, EnqueueFails, InQueue, TypeOK
  <2>2. Enqueue(r) => InQueue(r)'
    <3> SUFFICES ASSUME Enqueue(r) PROVE InQueue(r)'
      OBVIOUS
    <3>1. queue' = Append(queue, r) /\ Len(queue) + 1 \in DOMAIN queue'
      BY AppendListed DEF Enqueue, TypeOK
    <3>2. queue'[Len(queue) + 1] = r
      BY <3>1, AppendListed DEF TypeOK
    <3> QED  BY <3>1, <3>2 DEF InQueue
  <2>3. Accepted' \subseteq Accepted \cup (IF Enqueue(r) THEN {r} ELSE {})
    BY <1>2 DEF Enqueue, EnqueueFails, Accepted, TypeOK
  <2>4. UNCHANGED <<lapsed, done>>
    BY <1>2 DEF Enqueue, EnqueueFails
  <2>5. Accepted \subseteq Request
    BY DEF Accepted
  <2> QED  BY <2>1, <2>2, <2>3, <2>4, <2>5 DEF NoCommandLost
<1>3. ASSUME NEW m \in up, CmdAck(m) PROVE NoCommandLost'
  <2>1. m.cmd \in Request /\ m.cmd \in done
    BY <1>3 DEF CmdAck, AcksAreHandled, TypeOK, Packet
  <2>2. \A r \in Request \ {m.cmd} : InQueue(r) => InQueue(r)'
    BY <1>3, <2>1, MarkDoneKeeps DEF CmdAck, TypeOK
  <2>3. Accepted' = Accepted /\ Accepted \subseteq Request /\ UNCHANGED <<lapsed, done>>
    BY <1>3 DEF CmdAck, Accepted
  <2> QED  BY <2>1, <2>2, <2>3 DEF NoCommandLost
<1>4. CASE QueueExpires
  <2>1. \A r \in Accepted : InQueue(r) => r \in lapsed'
    BY <1>4 DEF QueueExpires, InQueue
  <2>2. Accepted' = Accepted /\ lapsed \subseteq lapsed' /\ done' = done
    BY <1>4 DEF QueueExpires, Accepted
  <2> QED  BY <2>1, <2>2 DEF NoCommandLost
<1>5. CASE \/ UNCHANGED vars
           \/ \E r \in Request : Deliver(r)
           \/ \E m \in up : HandleStatus(m) \/ HandlePublish(m) \/ CmdAckUnmarked(m)
           \/ \E state \in acked : CmdAckReport(state)
           \/ \E type \in {"STATUS", "PUBLISH"} : SendReport(type)
           \/ Dispatch \/ LinkDown \/ SilenceDetected \/ LinkUp
           \/ Rollback \/ Lose \/ EndCharge
  <2>1. UNCHANGED <<req, queue, lapsed>>
    BY <1>5, Zenon DEF vars, cloud, Deliver, HandleStatus, HandlePublish, CmdAckUnmarked, CmdAckReport,
         SendReport, Dispatch, LinkDown, SilenceDetected, LinkUp, Rollback, Lose, EndCharge
  <2> QED  BY <1>0, <2>1 DEF NoCommandLost, Accepted, InQueue
<1> QED  BY <1>1, <1>2, <1>3, <1>4, <1>5 DEF Next

\* The state keeps its type, whatever the faults.
THEOREM FlowTypeCorrect == Spec => []TypeOK
<1>1. Init => TypeOK
  BY InitType, FlowAssumption
<1> QED  BY <1>1, StepType, PTL DEF Spec

\* No accepted command is lost: Fetch leaves it in the list, and MarkDone
\* removes it only for an acknowledgement, which only a pile that handled
\* the command sends.
THEOREM AcceptedNeverLost == Spec => []NoCommandLost
<1>1. Init => DeliveryInv
  <2> SUFFICES ASSUME Init PROVE DeliveryInv
    OBVIOUS
  <2>1. TypeOK
    BY InitType, FlowAssumption
  <2>2. AcksAreHandled /\ NoCommandLost
    BY DEF Init, AcksAreHandled, NoCommandLost, Accepted
  <2> QED  BY <2>1, <2>2 DEF DeliveryInv
<1>2. DeliveryInv /\ [Next]_vars => DeliveryInv'
  BY StepType, AcksStep, LostStep DEF DeliveryInv
<1>3. DeliveryInv => NoCommandLost
  BY DEF DeliveryInv
<1> QED  BY <1>1, <1>2, <1>3, PTL DEF Spec

-----------------------------------------------------------------------------
(* The list holds each command once *)

\* Taking an element out keeps the others distinct.
LEMMA RemoveKeepsOnce ==
  ASSUME TypeOK, ListedOnce, NEW i \in DOMAIN queue,
         queue' = RemoveIndex(queue, i), UNCHANGED req
  PROVE  ListedOnce'
<1> DEFINE At(k) == IF k < i THEN k ELSE k + 1
<1>1. queue \in Seq(Request) /\ DOMAIN queue = 1..Len(queue) /\ Len(queue) \in Nat
  BY LenIs DEF TypeOK
<1>2. /\ DOMAIN queue' = 1..(Len(queue) - 1)
      /\ \A k \in DOMAIN queue' : queue'[k] = IF k < i THEN queue[k] ELSE queue[k + 1]
  BY <1>1, RemoveIndexProperties, Zenon
<1>3. \A k \in DOMAIN queue' : At(k) \in DOMAIN queue /\ queue'[k] = queue[At(k)]
  BY <1>1, <1>2
<1>4. \A k, l \in DOMAIN queue' : At(k) = At(l) => k = l
  BY <1>1, <1>2
<1> HIDE DEF At
<1>5. ASSUME NEW k \in DOMAIN queue', NEW l \in DOMAIN queue', queue'[k] = queue'[l]
      PROVE  k = l
  <2>1. At(k) \in DOMAIN queue /\ At(l) \in DOMAIN queue /\ queue[At(k)] = queue[At(l)]
    BY <1>3, <1>5, Zenon
  <2>2. At(k) = At(l)
    BY <2>1, Zenon DEF ListedOnce
  <2> QED  BY <1>4, <2>2, Zenon
<1>6. ASSUME NEW k \in DOMAIN queue'
      PROVE  req'[queue'[k]] \in {"trigger", "200", "500"}
  <2>1. At(k) \in DOMAIN queue /\ queue'[k] = queue[At(k)] /\ req' = req
    BY <1>3, Zenon
  <2> QED  BY <2>1, Zenon DEF ListedOnce
<1> QED  BY <1>5, <1>6, Zenon DEF ListedOnce

\* A command enters the list only from a request that was not listed yet.
LEMMA OnceStep ==
  ASSUME TypeOK, ListedOnce, [Next]_vars
  PROVE  ListedOnce'
<1>1. ASSUME NEW r \in Request, TryPreoccupy(r) \/ TryPreoccupyFails(r) \/ Trigger(r)
      PROVE  ListedOnce'
  BY <1>1 DEF TryPreoccupy, TryPreoccupyFails, Trigger, ListedOnce, TypeOK
<1>2. ASSUME NEW r \in Request, Enqueue(r) \/ EnqueueFails(r)
      PROVE  ListedOnce'
  <2>1. \A i \in DOMAIN queue : queue[i] # r
    BY <1>2, Zenon DEF Enqueue, EnqueueFails, ReadyToEnqueue, ListedOnce
  <2>2. req'[r] \in {"trigger", "500"} /\ \A c \in Request \ {r} : req'[c] = req[c]
    BY <1>2 DEF Enqueue, EnqueueFails, TypeOK
  <2>3. \A i \in DOMAIN queue : queue[i] \in Request
    BY ElementOf, LenIs DEF TypeOK
  <2>4. CASE queue' = queue
    BY <2>1, <2>2, <2>3, <2>4 DEF ListedOnce
  <2>5. CASE queue' = Append(queue, r)
    <3>1. /\ DOMAIN queue' = 1..(Len(queue) + 1)
          /\ DOMAIN queue = 1..Len(queue) /\ Len(queue) \in Nat
          /\ \A i \in DOMAIN queue : queue'[i] = queue[i]
          /\ queue'[Len(queue) + 1] = r
      BY <2>5, AppendListed DEF TypeOK
    <3>2. \A i \in DOMAIN queue' : i \in DOMAIN queue \/ i = Len(queue) + 1
      BY <3>1
    <3> QED  BY <2>1, <2>2, <2>3, <3>1, <3>2 DEF ListedOnce
  <2> QED  BY <1>2, <2>4, <2>5 DEF Enqueue, EnqueueFails
<1>3. ASSUME NEW m \in up, CmdAck(m) PROVE ListedOnce'
  <2>1. UNCHANGED req /\ MarkDone(m.cmd)
    BY <1>3 DEF CmdAck
  <2>2. CASE UNCHANGED queue
    BY <2>1, <2>2 DEF ListedOnce
  <2>3. ASSUME NEW i \in DOMAIN queue, queue' = RemoveIndex(queue, i)
        PROVE  ListedOnce'
    BY <2>1, <2>3, RemoveKeepsOnce
  <2> QED  BY <2>1, <2>2, <2>3 DEF MarkDone
<1>4. CASE QueueExpires
  <2>1. UNCHANGED req /\ DOMAIN queue' = {}
    BY <1>4 DEF QueueExpires
  <2> QED  BY <2>1, Zenon DEF ListedOnce
<1>5. CASE \/ UNCHANGED vars
           \/ \E r \in Request : Deliver(r)
           \/ \E m \in up : HandleStatus(m) \/ HandlePublish(m) \/ CmdAckUnmarked(m)
           \/ \E state \in acked : CmdAckReport(state)
           \/ \E type \in {"STATUS", "PUBLISH"} : SendReport(type)
           \/ Dispatch \/ LinkDown \/ SilenceDetected \/ LinkUp
           \/ Rollback \/ Lose \/ EndCharge
  <2>1. UNCHANGED <<req, queue>>
    BY <1>5, Zenon DEF vars, cloud, Deliver, HandleStatus, HandlePublish, CmdAckUnmarked, CmdAckReport,
         SendReport, Dispatch, LinkDown, SilenceDetected, LinkUp, Rollback, Lose, EndCharge
  <2> QED  BY <2>1, Zenon DEF ListedOnce
<1> QED  BY <1>1, <1>2, <1>3, <1>4, <1>5 DEF Next

\* The list never holds a command twice, even when a push took effect and
\* its answer was lost: such a command is not pushed again.
THEOREM NeverListedTwice == Spec => []ListedOnce
<1>1. Init => TypeOK /\ ListedOnce
  <2> SUFFICES ASSUME Init PROVE TypeOK /\ ListedOnce
    OBVIOUS
  <2>1. TypeOK
    BY InitType, FlowAssumption
  <2>2. DOMAIN queue = {}
    BY DEF Init
  <2> QED  BY <2>1, <2>2 DEF ListedOnce
<1>2. TypeOK /\ ListedOnce /\ [Next]_vars => TypeOK' /\ ListedOnce'
  BY StepType, OnceStep
<1> QED  BY <1>1, <1>2, PTL DEF Spec
=============================================================================
