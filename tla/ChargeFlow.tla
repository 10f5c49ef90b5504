---------------------------- MODULE ChargeFlow ----------------------------
(***************************************************************************)
(* One charging pile, from the user's request to the pile and back.        *)
(*                                                                         *)
(* A request runs through handleDeviceCommand of the C-end gateway: grab   *)
(* the pile (charge.start only), put the command into the pile's Redis     *)
(* list, publish a trigger, answer the user.  The IoT gateway reads the    *)
(* head of that list whenever the pile connects, pings, fetches or a       *)
(* trigger arrives, and sends what it read; nothing leaves the list before *)
(* the pile acknowledges it.  The network loses, repeats, delays and       *)
(* reorders packets.  Piles do not interact with one another in this flow, *)
(* so one is enough; the shadow's own concurrency is the subject of Shadow *)
(* and the tables of the IoT gateway that of IotSessions: here the shadow  *)
(* is its state, and being connected is a Boolean.                         *)
(***************************************************************************)
EXTENDS Naturals, Sequences, FiniteSets, ShadowTable

CONSTANTS
  Request,      \* the users' requests; a request stands for its command ID
  Start,        \* those that are charge.start, the others are charge.stop
  MaxBatch,     \* commands read from the list at a time
  RedisFaults,  \* may a call to Redis fail, before or after its effect?
  LongAbsence,  \* may the list reach its time to live?
  MaxReports,   \* bound: state reports of the pile in flight at a time
  None

ASSUME FlowAssumption ==
  /\ Start \subseteq Request
  /\ MaxBatch \in Nat \ {0}
  /\ RedisFaults \in BOOLEAN
  /\ LongAbsence \in BOOLEAN
  /\ MaxReports \in Nat \ {0}
  /\ None \notin Request

VARIABLES
  req,      \* where each request is in handleDeviceCommand, or its answer
  shadow,   \* state of the pile's shadow
  holder,   \* history: the request that made the shadow preoccupy
  queue,    \* the pile's list of commands
  lapsed,   \* history: commands dropped with the list's time to live
  linked,   \* is the pile in the IoT gateway's device table?
  down,     \* CMD packets on their way to the pile
  up,       \* packets on their way to the gateway
  acked,    \* CMDACK handlers past MarkDone: the states still to report
  pile,     \* what the pile does, and for which request
  done      \* commands the pile has handled (its duplicate filter)

cloud == <<req, shadow, holder, queue, lapsed>>
vars == <<req, shadow, holder, queue, lapsed, linked, down, up, acked, pile, done>>

-----------------------------------------------------------------------------
(* State *)

Step == {"new", "enqueue", "trigger"}
Answer == {"200", "409", "500"}

PileState == {"idle", "charging"}

Ack(r, state) == [type |-> "CMDACK", cmd |-> r, state |-> state]
Status(type, state) == [type |-> type, cmd |-> None, state |-> state]

Packet ==
  [type : {"CMDACK"}, cmd : Request, state : PileState] \cup
  [type : {"STATUS", "PUBLISH"}, cmd : {None}, state : PileState]

InQueue(r) == \E i \in DOMAIN queue : queue[i] = r

\* Requests whose command was accepted into the list.
Accepted == {r \in Request : req[r] \in {"trigger", "200"}}

Init ==
  /\ req = [r \in Request |-> "new"]
  /\ shadow = "idle"
  /\ holder = None
  /\ queue = <<>>
  /\ lapsed = {}
  /\ linked = TRUE
  /\ down = {}
  /\ up = {}
  /\ acked = {}
  /\ pile = [state |-> "idle", by |-> None]
  /\ done = {}

-----------------------------------------------------------------------------
(* C-end gateway: handleDeviceCommand *)

\* charge.start first grabs the pile; a pile that cannot be grabbed is 409.
TryPreoccupy(r) ==
  /\ r \in Start
  /\ req[r] = "new"
  /\ \/ /\ Preoccupiable(shadow)
        /\ shadow' = "preoccupy"
        /\ holder' = r
        /\ req' = [req EXCEPT ![r] = "enqueue"]
     \/ /\ ~Preoccupiable(shadow)
        /\ req' = [req EXCEPT ![r] = "409"]
        /\ UNCHANGED <<shadow, holder>>
  /\ UNCHANGED <<queue, lapsed, linked, down, up, acked, pile, done>>

\* The script's answer is lost: the user hears 409 whether it ran or not.
TryPreoccupyFails(r) ==
  /\ RedisFaults
  /\ r \in Start
  /\ req[r] = "new"
  /\ req' = [req EXCEPT ![r] = "409"]
  /\ \/ Preoccupiable(shadow) /\ shadow' = "preoccupy" /\ holder' = r
     \/ UNCHANGED <<shadow, holder>>
  /\ UNCHANGED <<queue, lapsed, linked, down, up, acked, pile, done>>

ReadyToEnqueue(r) == req[r] = IF r \in Start THEN "enqueue" ELSE "new"

\* Enqueue: the command ID is fresh, so SET NX succeeds; then RPUSH.
Enqueue(r) ==
  /\ ReadyToEnqueue(r)
  /\ queue' = Append(queue, r)
  /\ req' = [req EXCEPT ![r] = "trigger"]
  /\ UNCHANGED <<shadow, holder, lapsed, linked, down, up, acked, pile, done>>

\* Mutant: a failed Enqueue is tried again, perhaps after its effect.
EnqueueRetried(r) ==
  /\ RedisFaults
  /\ ReadyToEnqueue(r)
  /\ Len(queue) < Cardinality(Request)
  /\ queue' \in {queue, Append(queue, r)}
  /\ UNCHANGED <<req, shadow, holder, lapsed, linked, down, up, acked, pile, done>>

\* SET NX or RPUSH fails, RPUSH perhaps after its effect.  The user hears
\* 500; the preoccupation is not undone.
EnqueueFails(r) ==
  /\ RedisFaults
  /\ ReadyToEnqueue(r)
  /\ queue' \in {queue, Append(queue, r)}
  /\ req' = [req EXCEPT ![r] = "500"]
  /\ UNCHANGED <<shadow, holder, lapsed, linked, down, up, acked, pile, done>>

\* The trigger is published and the user answered.  A trigger that arrives
\* makes the IoT gateway dispatch, which it may do at any time anyway; one
\* that is lost does nothing.
Trigger(r) ==
  /\ req[r] = "trigger"
  /\ req' = [req EXCEPT ![r] = "200"]
  /\ UNCHANGED <<shadow, holder, queue, lapsed, linked, down, up, acked, pile, done>>

-----------------------------------------------------------------------------
(* IoT gateway *)

\* Fetch: the first MaxBatch commands of the list.
Batch == {queue[i] : i \in {j \in DOMAIN queue : j <= MaxBatch}}

\* Mutant: what is fetched leaves the list.
DispatchAndPop ==
  /\ linked
  /\ queue # <<>>
  /\ down' = down \cup Batch
  /\ queue' = SubSeq(queue, MaxBatch + 1, Len(queue))
  /\ UNCHANGED <<req, shadow, holder, lapsed, linked, up, acked, pile, done>>

\* dispatchPendingCommands, on CONNECT, PINGREQ, FETCH or a trigger.  The
\* list keeps the commands.
Dispatch ==
  /\ linked
  /\ queue # <<>>
  /\ down' = down \cup Batch
  /\ UNCHANGED <<cloud, linked, up, acked, pile, done>>

\* What the shadow makes of a state reported by the pile.
Report(state) ==
  /\ shadow' = IF LuaReportLegal(shadow, state) THEN state ELSE shadow
  /\ holder' = IF shadow' = "preoccupy" THEN holder ELSE None

\* handleStatus: only a pile in the device table counts.
HandleStatus(m) ==
  /\ m \in up
  /\ m.type = "STATUS"
  /\ up' = up \ {m}
  /\ IF linked THEN Report(m.state) ELSE UNCHANGED <<shadow, holder>>
  /\ UNCHANGED <<req, queue, lapsed, linked, down, acked, pile, done>>

\* handlePublish: no such check.
HandlePublish(m) ==
  /\ m \in up
  /\ m.type = "PUBLISH"
  /\ up' = up \ {m}
  /\ Report(m.state)
  /\ UNCHANGED <<req, queue, lapsed, linked, down, acked, pile, done>>

RemoveIndex(q, i) ==
  [j \in 1..(Len(q) - 1) |-> IF j < i THEN q[j] ELSE q[j + 1]]

\* The first position of r.
IsFirst(r, i) ==
  /\ i \in DOMAIN queue
  /\ queue[i] = r
  /\ \A j \in DOMAIN queue : queue[j] = r => i <= j

\* Mutant: the head is removed, whichever command was acknowledged.
MarkDoneHead(r) ==
  IF queue = <<>> THEN UNCHANGED queue ELSE queue' = Tail(queue)

\* MarkDone removes the command, if it is still there.
MarkDone(r) ==
  \/ \E i \in DOMAIN queue : IsFirst(r, i) /\ queue' = RemoveIndex(queue, i)
  \/ ~InQueue(r) /\ UNCHANGED queue

\* handleCmdAck, first half.
CmdAck(m) ==
  /\ m \in up
  /\ m.type = "CMDACK"
  /\ up' = up \ {m}
  /\ MarkDone(m.cmd)
  /\ acked' = acked \cup {m.state}
  /\ UNCHANGED <<req, shadow, holder, lapsed, linked, down, pile, done>>

\* handleCmdAck when MarkDone fails: the error is logged, and the handler
\* goes on.
CmdAckUnmarked(m) ==
  /\ RedisFaults
  /\ m \in up
  /\ m.type = "CMDACK"
  /\ up' = up \ {m}
  /\ acked' = acked \cup {m.state}
  /\ UNCHANGED <<cloud, linked, down, pile, done>>

\* handleCmdAck, second half: the resulting state goes to the shadow.
CmdAckReport(state) ==
  /\ state \in acked
  /\ acked' = acked \ {state}
  /\ Report(state)
  /\ UNCHANGED <<req, queue, lapsed, linked, down, up, pile, done>>

\* dropDevice, after DISCONNECT or a lost connection: the pile leaves the
\* device table and its shadow goes offline.
LinkDown ==
  /\ linked
  /\ linked' = FALSE
  /\ shadow' = "offline"
  /\ holder' = None
  /\ UNCHANGED <<req, queue, lapsed, down, up, acked, pile, done>>

\* sessionCleanup, after silence: the shadow goes offline, the pile stays in
\* the device table.
SilenceDetected ==
  /\ shadow' = "offline"
  /\ holder' = None
  /\ UNCHANGED <<req, queue, lapsed, linked, down, up, acked, pile, done>>

\* CONNECT: the pile is in the table again; Touch keeps the shadow's state.
LinkUp ==
  /\ ~linked
  /\ linked' = TRUE
  /\ UNCHANGED <<cloud, down, up, acked, pile, done>>

-----------------------------------------------------------------------------
(* Scanners and Redis *)

\* Mutant: the wild card passed as the target state.
RollbackToAny ==
  /\ shadow = "preoccupy"
  /\ shadow' = AnyState
  /\ holder' = None
  /\ UNCHANGED <<req, queue, lapsed, linked, down, up, acked, pile, done>>

\* recoverExpiredPreoccupy, once the preoccupation has timed out.
Rollback ==
  /\ shadow = "preoccupy"
  /\ shadow' = "idle"
  /\ holder' = None
  /\ UNCHANGED <<req, queue, lapsed, linked, down, up, acked, pile, done>>

\* The list reaches the time to live its last RPUSH gave it.
QueueExpires ==
  /\ LongAbsence
  /\ queue # <<>>
  /\ lapsed' = lapsed \cup {queue[i] : i \in DOMAIN queue}
  /\ queue' = <<>>
  /\ UNCHANGED <<req, shadow, holder, linked, down, up, acked, pile, done>>

-----------------------------------------------------------------------------
(* The network and the pile (not part of the repository) *)

Lose ==
  /\ \/ \E r \in down : down' = down \ {r} /\ UNCHANGED up
     \/ \E m \in up : up' = up \ {m} /\ UNCHANGED down
  /\ UNCHANGED <<cloud, linked, acked, pile, done>>

\* The pile after it handles r: it starts when idle, stops when charging,
\* and refuses otherwise.
PileAfter(r) ==
  IF r \in Start /\ pile.state = "idle" THEN [state |-> "charging", by |-> r]
  ELSE IF r \notin Start /\ pile.state = "charging" THEN [state |-> "idle", by |-> None]
  ELSE pile

\* A CMD arrives.  A command ID the pile has seen is acknowledged again and
\* not executed again.
Deliver(r) ==
  /\ r \in down
  /\ down' = down \ {r}
  /\ pile' = IF r \in done THEN pile ELSE PileAfter(r)
  /\ done' = done \cup {r}
  /\ up' = up \cup {Ack(r, pile'.state)}
  /\ UNCHANGED <<cloud, linked, acked>>

\* The pile reports its state, in a STATUS or in telemetry.
SendReport(type) ==
  /\ Cardinality({m \in up : m.cmd = None}) < MaxReports
  /\ up' = up \cup {Status(type, pile.state)}
  /\ UNCHANGED <<cloud, linked, down, acked, pile, done>>

\* A charge ends at the pile.
EndCharge ==
  /\ pile.state = "charging"
  /\ pile' = [state |-> "idle", by |-> None]
  /\ UNCHANGED <<cloud, linked, down, up, acked, done>>

-----------------------------------------------------------------------------
Next ==
  \/ \E r \in Request : \/ TryPreoccupy(r) \/ TryPreoccupyFails(r)
                        \/ Enqueue(r) \/ EnqueueFails(r) \/ Trigger(r)
                        \/ Deliver(r)
  \/ \E m \in up : \/ HandleStatus(m) \/ HandlePublish(m)
                   \/ CmdAck(m) \/ CmdAckUnmarked(m)
  \/ \E state \in acked : CmdAckReport(state)
  \/ \E type \in {"STATUS", "PUBLISH"} : SendReport(type)
  \/ Dispatch \/ LinkDown \/ SilenceDetected \/ LinkUp
  \/ Rollback \/ QueueExpires \/ Lose \/ EndCharge

Spec == Init /\ [][Next]_vars

(***************************************************************************)
(* Fairness.  The handlers run to their end (weak fairness).  A pile that  *)
(* lost its connection connects again, and while connected it pings, so    *)
(* the list is read again and again, and it reports its state again and    *)
(* again.  The network is fair-lossy: a packet that is sent again and      *)
(* again gets through at last, which for an unreliable link needs strong   *)
(* fairness.                                                               *)
(***************************************************************************)
DeliveryFairness ==
  /\ \A r \in Request : /\ WF_vars(Trigger(r))
                        /\ SF_vars(Deliver(r))
                        /\ SF_vars(\E m \in up : m.cmd = r /\ CmdAck(m))
  /\ WF_vars(LinkUp)
  /\ SF_vars(Dispatch)

ReportFairness ==
  /\ WF_vars(LinkUp)
  /\ WF_vars(SendReport("STATUS"))
  /\ WF_vars(SendReport("PUBLISH"))
  /\ WF_vars(\E m \in up : HandleStatus(m) \/ HandlePublish(m))
  /\ SF_vars(\E m \in up : /\ m.state = pile.state
                           /\ HandleStatus(m) \/ HandlePublish(m))

DeliverySpec == Spec /\ DeliveryFairness
ReportSpec == Spec /\ ReportFairness

-----------------------------------------------------------------------------
(* Properties *)

\* Type invariant; the pile handles only commands of real requests, and
\* packets name their command exactly when they acknowledge one.
TypeOK ==
  /\ req \in [Request -> Step \cup Answer]
  /\ shadow \in State
  /\ holder \in Request \cup {None}
  /\ queue \in Seq(Request)
  /\ lapsed \subseteq Request
  /\ linked \in BOOLEAN
  /\ down \subseteq Request
  /\ up \subseteq Packet
  /\ acked \subseteq PileState
  /\ pile \in [state : PileState, by : Request \cup {None}]
  /\ done \subseteq Request

\* An accepted command is never lost: it stays in the pile's list until the
\* pile has handled it, however often packets, triggers, answers of Redis
\* and connections are lost in between (Fetch does not remove, only
\* MarkDone after CMDACK does).  The one exception is a list that reaches
\* its time to live.
NoCommandLost ==
  \A r \in Accepted : InQueue(r) \/ r \in done \/ r \in lapsed

\* A command is listed once, and never again after it was acknowledged and
\* removed: the list holds no command twice, so LREM of one occurrence
\* removes the command.
ListedOnce ==
  /\ \A i, j \in DOMAIN queue : queue[i] = queue[j] => i = j
  /\ \A i \in DOMAIN queue : req[queue[i]] \in {"trigger", "200", "500"}

\* Every command the user was told is queued is handled by the pile at last
\* and leaves the list (unless the list reaches its time to live), although
\* only the first MaxBatch commands of the list are ever sent, and although
\* commands whose user was told 500 may stand before it.
AcceptedIsHandled ==
  \A r \in Request :
    req[r] = "200" ~> (~InQueue(r) /\ r \in done \cup lapsed)

\* No charge starts for one user while another holds the pile: what grabbing
\* it before queueing charge.start is for.  The code does not guarantee this:
\* the command of a request that lost the pile (its preoccupation timed out,
\* or an idle report or a lost connection ended it) stays in the list.
NoStartAgainstHolder ==
  [][\A r \in Start : pile'.by = r /\ pile.by # r => holder \in {r, None}]_vars

\* The shadow is a projection of the pile: a pile that charges and stays
\* connected, and keeps reporting that it charges, is shown as charging.  The
\* code does not guarantee this: "charging" is not a legal report from an
\* offline shadow.
ShadowFollowsPile ==
  <>[](pile.state = "charging" /\ linked) => []<>(shadow = "charging")

=============================================================================
