---------------------------- MODULE IotSessions ----------------------------
(***************************************************************************)
(* The IoT server's device table and session table, at the granularity of  *)
(* the locks: every critical section and every Redis call is one step, and *)
(* the worker pool, the reader of each DTLS or QUIC connection, the        *)
(* asynchronous Redis work and the session cleanup interleave in between.  *)
(*                                                                         *)
(* A packet is its type and the connection it came from; a pile speaks     *)
(* only for itself (Owner).  The clock is abstracted to one bit per        *)
(* session: LastActive is further back than the session timeout.  Of the   *)
(* shadow only "offline or not" matters here; what the tables store and    *)
(* never read (Status, LastSeen, PSK) is left out.                         *)
(***************************************************************************)
EXTENDS Naturals, Sequences, FiniteSets

CONSTANTS
  Device,
  Conn,        \* transport endpoints
  Stream,      \* those that can close (DTLS, QUIC); the others are plain UDP
  Quic,        \* those whose stream and connection are dropped separately
  Owner,       \* Owner[c]: the pile at the other end of c
  Worker,      \* the worker pool
  None,        \* no device, connection or session
  QueueCap,    \* capacity of packetCh
  AsyncCap,    \* capacity of AsyncRedis
  MaxPackets   \* bound: packets received in all

ASSUME SessionsAssumption ==
  /\ Stream \subseteq Conn /\ Quic \subseteq Stream
  /\ Owner \in [Conn -> Device]
  /\ None \notin Device \cup Conn \cup Nat
  /\ Worker \cap Conn = {}
  /\ QueueCap \in Nat \ {0} /\ AsyncCap \in Nat /\ MaxPackets \in Nat

VARIABLES
  queue,      \* packetCh
  received,   \* number of packets received so far
  closed,     \* connections that have closed
  job,        \* job[p]: what a worker, or the reader of a connection, is doing
  devices,    \* devices[d]: the Peer of d in the device table, or None
  sessions,   \* the session table
  byDevice,   \* its index: the session ID of a device, or None
  lastID,     \* the last session ID generated
  async,      \* endpoints whose Redis registration waits in AsyncRedis
  registered, \* registered[d]: the endpoint in the Redis hash iot_devices
  up,         \* devices whose shadow is not offline
  expired,    \* session IDs the cleanup has collected
  doomed      \* devices the cleanup has yet to mark offline

network == <<queue, received, closed>>
tables  == <<devices, sessions, byDevice, lastID>>
redis   == <<async, registered, up>>
cleanup == <<expired, doomed>>
vars    == <<network, job, tables, redis, cleanup>>

Proc == Worker \cup Conn

PacketType == {"CONNECT", "PINGREQ", "STATUS", "PUBLISH", "DISCONNECT"}

PC == {"idle", "packet", "session", "redis", "report",
       "find", "drop device", "drop session", "drop registration",
       "mark offline"}

Session == [id : Nat, device : Device, stale : BOOLEAN]

Job == [pc : PC, type : PacketType \cup {None}, conn : Conn \cup {None},
        device : Device \cup {None}, again : BOOLEAN]

NoJob == [pc |-> "idle", type |-> None, conn |-> None, device |-> None,
          again |-> FALSE]

TypeOK ==
  /\ queue \in Seq([type : PacketType, conn : Conn]) /\ Len(queue) <= QueueCap
  /\ received \in Nat
  /\ closed \subseteq Stream
  /\ job \in [Proc -> Job]
  /\ devices \in [Device -> Conn \cup {None}]
  /\ sessions \subseteq Session
  /\ byDevice \in [Device -> Nat \cup {None}]
  /\ lastID \in Nat
  /\ async \subseteq Conn
  /\ registered \in [Device -> Conn \cup {None}]
  /\ up \subseteq Device
  /\ expired \subseteq Nat
  /\ doomed \subseteq Device

Init ==
  /\ queue = <<>> /\ received = 0 /\ closed = {}
  /\ job = [p \in Proc |-> NoJob]
  /\ devices = [d \in Device |-> None]
  /\ sessions = {} /\ byDevice = [d \in Device |-> None] /\ lastID = 0
  /\ async = {} /\ registered = [d \in Device |-> None] /\ up = {}
  /\ expired = {} /\ doomed = {}

-----------------------------------------------------------------------------
(* The readers *)

\* Mutant: the queue is taken to be unbounded.
ReceiveUnbounded(c, type) ==
  /\ c \notin closed
  /\ received < MaxPackets
  /\ received' = received + 1
  /\ queue' = Append(queue, [type |-> type, conn |-> c])
  /\ UNCHANGED <<closed, job, tables, redis, cleanup>>

\* A packet arrives: it is queued, or dropped when the queue is full.
Receive(c, type) ==
  /\ c \notin closed
  /\ received < MaxPackets
  /\ received' = received + 1
  /\ queue' = IF Len(queue) < QueueCap
                THEN Append(queue, [type |-> type, conn |-> c])
                ELSE queue
  /\ UNCHANGED <<closed, job, tables, redis, cleanup>>

\* The read fails; the reader's deferred calls drop the device by its stream
\* and by its connection (QUIC) or by its connection (DTLS).
Close(c) ==
  /\ c \in Stream \ closed
  /\ closed' = closed \cup {c}
  /\ job' = [job EXCEPT ![c] = [NoJob EXCEPT !.pc = "find", !.conn = c,
                                             !.again = (c \in Quic)]]
  /\ UNCHANGED <<queue, received, tables, redis, cleanup>>

-----------------------------------------------------------------------------
(* The workers *)

At(p, pc) == job[p].pc = pc

Goto(p, pc) == job' = [job EXCEPT ![p].pc = pc]

\* The end of a handler, or of one of a reader's two drops.
Finish(p) ==
  job' = [job EXCEPT ![p] =
            IF job[p].again
              THEN [NoJob EXCEPT !.pc = "find", !.conn = job[p].conn]
              ELSE NoJob]

Take(w) ==
  /\ At(w, "idle")
  /\ queue # <<>>
  /\ LET p == Head(queue) IN
       job' = [job EXCEPT ![w] = [pc |-> "packet", type |-> p.type,
                                  conn |-> p.conn, device |-> Owner[p.conn],
                                  again |-> FALSE]]
  /\ queue' = Tail(queue)
  /\ UNCHANGED <<received, closed, tables, redis, cleanup>>

Handling(w, type) == At(w, "packet") /\ job[w].type = type

\* handleConnect up to the registration in the device table.
ConnectDevice(w) ==
  /\ Handling(w, "CONNECT")
  /\ devices' = [devices EXCEPT ![job[w].device] = job[w].conn]
  /\ Goto(w, "session")
  /\ UNCHANGED <<network, sessions, byDevice, lastID, redis, cleanup>>

\* The rate limiters or the PSK store refuse the CONNECT.
ConnectRefused(w) ==
  /\ Handling(w, "CONNECT")
  /\ Finish(w)
  /\ UNCHANGED <<network, tables, redis, cleanup>>

\* Mutant: the old session is left in the table.
ConnectSessionOnly(w) ==
  /\ At(w, "session")
  /\ lastID' = lastID + 1
  /\ sessions' = sessions \cup {[id |-> lastID + 1, device |-> job[w].device,
                                  stale |-> FALSE]}
  /\ byDevice' = [byDevice EXCEPT ![job[w].device] = lastID + 1]
  /\ Goto(w, "redis")
  /\ UNCHANGED <<network, devices, redis, cleanup>>

\* handleConnect: the new session replaces the one the index names.
ConnectSession(w) ==
  LET d == job[w].device IN
  /\ At(w, "session")
  /\ lastID' = lastID + 1
  /\ sessions' = {s \in sessions : s.id # byDevice[d]}
                   \cup {[id |-> lastID + 1, device |-> d, stale |-> FALSE]}
  /\ byDevice' = [byDevice EXCEPT ![d] = lastID + 1]
  /\ Goto(w, "redis")
  /\ UNCHANGED <<network, devices, redis, cleanup>>

\* handleConnect hands the Redis work over; when the channel is full the
\* worker does it itself.
ConnectRedis(w) ==
  /\ At(w, "redis")
  /\ IF Cardinality(async) < AsyncCap
       THEN async' = async \cup {job[w].conn} /\ UNCHANGED registered
       ELSE /\ registered' = [registered EXCEPT ![job[w].device] = job[w].conn]
            /\ UNCHANGED async
  /\ Finish(w)
  /\ UNCHANGED <<network, tables, up, cleanup>>

\* The asynchronous RegisterIoTDevice.
AsyncRegister(c) ==
  /\ async' = async \ {c}
  /\ registered' = [registered EXCEPT ![Owner[c]] = c]
  /\ UNCHANGED <<network, job, tables, up, cleanup>>

\* handlePingReq: the session of the device is active again.
PingReq(w) ==
  /\ Handling(w, "PINGREQ")
  /\ sessions' = {IF s.id = byDevice[job[w].device]
                    THEN [s EXCEPT !.stale = FALSE] ELSE s : s \in sessions}
  /\ Finish(w)
  /\ UNCHANGED <<network, devices, byDevice, lastID, redis, cleanup>>

\* handleStatus: a device that is not in the table is ignored.
StatusCheck(w) ==
  /\ Handling(w, "STATUS")
  /\ IF devices[job[w].device] # None THEN Goto(w, "report") ELSE Finish(w)
  /\ UNCHANGED <<network, tables, redis, cleanup>>

\* handlePublish: no such check.
PublishCheck(w) ==
  /\ Handling(w, "PUBLISH")
  /\ Goto(w, "report")
  /\ UNCHANGED <<network, tables, redis, cleanup>>

\* Both report a state to the shadow, which is then no longer offline.
Report(w) ==
  /\ At(w, "report")
  /\ up' = up \cup {job[w].device}
  /\ Finish(w)
  /\ UNCHANGED <<network, tables, async, registered, cleanup>>

\* handleDisconnect with a client ID drops that device, without one it looks
\* for the device of the endpoint.
Disconnect(w) ==
  /\ Handling(w, "DISCONNECT")
  /\ Goto(w, "drop device") \/ Goto(w, "find")
  /\ UNCHANGED <<network, tables, redis, cleanup>>

-----------------------------------------------------------------------------
(* Dropping a device: workers and readers *)

\* dropDeviceByConn, dropDeviceByStream: the device is looked up under the
\* read lock, which is released before dropDevice is called.
FindDevice(p) ==
  /\ At(p, "find")
  /\ \/ \E d \in Device :
          /\ devices[d] = job[p].conn
          /\ job' = [job EXCEPT ![p].pc = "drop device", ![p].device = d]
     \/ /\ \A d \in Device : devices[d] # job[p].conn
        /\ Finish(p)
  /\ UNCHANGED <<network, tables, redis, cleanup>>

DropDevice(p) ==
  /\ At(p, "drop device")
  /\ devices' = [devices EXCEPT ![job[p].device] = None]
  /\ Goto(p, "drop session")
  /\ UNCHANGED <<network, sessions, byDevice, lastID, redis, cleanup>>

DropSession(p) ==
  LET d == job[p].device IN
  /\ At(p, "drop session")
  /\ sessions' = {s \in sessions : s.id # byDevice[d]}
  /\ byDevice' = [byDevice EXCEPT ![d] = None]
  /\ Goto(p, "drop registration")
  /\ UNCHANGED <<network, devices, lastID, redis, cleanup>>

DropRegistration(p) ==
  /\ At(p, "drop registration")
  /\ registered' = [registered EXCEPT ![job[p].device] = None]
  /\ Goto(p, "mark offline")
  /\ UNCHANGED <<network, tables, async, up, cleanup>>

DropMarkOffline(p) ==
  /\ At(p, "mark offline")
  /\ up' = up \ {job[p].device}
  /\ Finish(p)
  /\ UNCHANGED <<network, tables, async, registered, cleanup>>

-----------------------------------------------------------------------------
(* The session cleanup *)

\* The session timeout passes without a PINGREQ.
Elapse(s) ==
  /\ ~s.stale
  /\ sessions' = (sessions \ {s}) \cup {[s EXCEPT !.stale = TRUE]}
  /\ UNCHANGED <<network, job, devices, byDevice, lastID, redis, cleanup>>

\* CleanupExpiredSessions, under the read lock.
CleanupCollect ==
  /\ expired = {} /\ doomed = {}
  /\ expired' = {s.id : s \in {t \in sessions : t.stale}}
  /\ expired' # {}
  /\ UNCHANGED <<network, job, tables, redis, doomed>>

\* Mutant: only the index is cleaned, the session stays in the table.
CleanupIndexOnly ==
  LET gone == {s \in sessions : s.id \in expired} IN
  /\ expired # {}
  /\ expired' = {}
  /\ doomed' = {s.device : s \in gone}
  /\ byDevice' = [d \in Device |-> IF byDevice[d] \in {s.id : s \in gone}
                                     THEN None ELSE byDevice[d]]
  /\ UNCHANGED <<network, job, devices, sessions, lastID, redis>>

\* CleanupExpiredSessions, under the write lock: the collected sessions that
\* are still there go; whether they are still stale is not asked.
CleanupRemove ==
  LET gone == {s \in sessions : s.id \in expired} IN
  /\ expired # {}
  /\ sessions' = sessions \ gone
  /\ byDevice' = [d \in Device |-> IF byDevice[d] \in {s.id : s \in gone}
                                     THEN None ELSE byDevice[d]]
  /\ doomed' = {s.device : s \in gone}
  /\ expired' = {}
  /\ UNCHANGED <<network, job, devices, lastID, redis>>

\* sessionCleanup marks them offline, one call each.
CleanupMarkOffline(d) ==
  /\ doomed' = doomed \ {d}
  /\ up' = up \ {d}
  /\ UNCHANGED <<network, job, tables, async, registered, expired>>

-----------------------------------------------------------------------------
WorkerStep(w) ==
  \/ Take(w)
  \/ ConnectDevice(w)
  \/ ConnectRefused(w)
  \/ ConnectSession(w)
  \/ ConnectRedis(w)
  \/ PingReq(w)
  \/ StatusCheck(w)
  \/ PublishCheck(w)
  \/ Report(w)
  \/ Disconnect(w)

DropStep(p) ==
  \/ FindDevice(p)
  \/ DropDevice(p)
  \/ DropSession(p)
  \/ DropRegistration(p)
  \/ DropMarkOffline(p)

CleanupStep ==
  \/ CleanupCollect
  \/ CleanupRemove
  \/ \E d \in doomed : CleanupMarkOffline(d)

Next ==
  \/ \E c \in Conn : (\E type \in PacketType : Receive(c, type)) \/ Close(c)
  \/ \E w \in Worker : WorkerStep(w)
  \/ \E p \in Proc : DropStep(p)
  \/ \E c \in async : AsyncRegister(c)
  \/ \E s \in sessions : Elapse(s)
  \/ CleanupStep

Spec == Init /\ [][Next]_vars

\* Workers, readers and the cleanup ticker are goroutines that keep running,
\* and time passes; the piles are under no obligation.
Fairness ==
  /\ \A w \in Worker : WF_vars(WorkerStep(w))
  /\ \A p \in Proc : WF_vars(DropStep(p))
  /\ WF_vars(\E c \in async : AsyncRegister(c))
  /\ WF_vars(\E s \in sessions : Elapse(s))
  /\ WF_vars(CleanupStep)

FairSpec == Spec /\ Fairness

-----------------------------------------------------------------------------
(* Properties *)

\* "A reconnect replaces the old session": a device has at most one session,
\* the index names it, and names nothing else, whatever connects, drops and
\* cleanups interleave (handleConnect, dropDevice, CleanupExpiredSessions).
SessionIndex ==
  /\ \A s \in sessions : byDevice[s.device] = s.id
  /\ \A d \in Device :
       byDevice[d] # None =>
         \E s \in sessions : s.device = d /\ s.id = byDevice[d]

\* "Cleaned up after 300s without activity, and the shadow set offline": a
\* session does not outlive the silence of its pile, and with the session the
\* shadow goes offline, through the cleanup, a closed connection or a
\* DISCONNECT (CleanupExpiredSessions, sessionCleanup, dropDevice).
SilentSessionEnds ==
  \A d \in Device :
    (\E s \in sessions : s.device = d)
      ~> (d \notin up /\ \A s \in sessions : s.device # d)

Quiet ==
  /\ queue = <<>> /\ async = {} /\ expired = {} /\ doomed = {}
  /\ \A p \in Proc : At(p, "idle")

\* "Connection closed: its device goes offline": when nothing is in progress
\* no device is in the table with a connection that has closed.  The code
\* does not guarantee this: a CONNECT that is still queued when its
\* connection closes is handled after the drop.
NoGhost == Quiet => \A d \in Device : devices[d] \notin closed

=============================================================================
