------------------------- MODULE IotSessions_proofs -------------------------
(***************************************************************************)
(* Theorems about IotSessions, for any number of piles, connections,       *)
(* workers and packets.                                                    *)
(***************************************************************************)
EXTENDS IotSessions, TLAPS

LEMMA Appended ==
  ASSUME NEW S, NEW s \in Seq(S), NEW e \in S
  PROVE  /\ Append(s, e) \in Seq(S) /\ Append(s, e) # <<>>
         /\ Len(Append(s, e)) = Len(s) + 1 /\ Append(s, e)[Len(s) + 1] = e
         /\ \A i \in 1 .. Len(s) : Append(s, e)[i] = s[i]
OBVIOUS

LEMMA LenIs ==
  ASSUME NEW S, NEW s \in Seq(S)
  PROVE  Len(s) \in Nat /\ DOMAIN s = 1 .. Len(s)
OBVIOUS

LEMMA HeadTail ==
  ASSUME NEW S, NEW s \in Seq(S), s # <<>>
  PROVE  /\ Head(s) \in S /\ Tail(s) \in Seq(S) /\ Len(Tail(s)) = Len(s) - 1
         /\ \A i \in 1 .. Len(Tail(s)) : Tail(s)[i] = s[i + 1]
OBVIOUS

\* Session IDs are generated in order, and no two devices share one.
SessionIDs ==
  /\ lastID \in Nat
  /\ sessions \subseteq Session
  /\ byDevice \in [Device -> Nat \cup {None}]
  /\ \A s \in sessions : s.id <= lastID
  /\ \A s, t \in sessions : s.id = t.id => s.device = t.device

\* SessionIndex is inductive together with SessionIDs, once the devices the
\* workers and readers work on are known to be devices.
JobDevices ==
  /\ job \in [Proc -> Job]
  /\ \A p \in Proc :
       job[p].pc \in {"packet", "session", "redis", "report", "drop device",
                      "drop session", "drop registration", "mark offline"}
         => job[p].device \in Device
  /\ queue \in Seq([type : PacketType, conn : Conn])

IndexInv == SessionIDs /\ JobDevices /\ SessionIndex

-----------------------------------------------------------------------------
(* What goes on in the queue and in the jobs *)

\* Going on with a job, or ending it, keeps the types.
LEMMA GotoJob ==
  ASSUME JobDevices, NEW p \in Proc, NEW pc \in PC, Goto(p, pc),
         job[p].device \in Device \/ pc \in {"idle", "find"},
         UNCHANGED queue
  PROVE  JobDevices'
BY ZenonT(30) DEF JobDevices, Goto, Job

\* Ending a job keeps the types of the jobs.
LEMMA FinishJob ==
  ASSUME JobDevices, NEW p \in Proc, Finish(p), UNCHANGED queue
  PROVE  JobDevices'
<1>1. NoJob \in Job /\ NoJob.pc = "idle"
  BY DEF NoJob, Job, PC
<1>2. ASSUME NEW c \in Conn \cup {None}
      PROVE  /\ [NoJob EXCEPT !.pc = "find", !.conn = c] \in Job
             /\ [NoJob EXCEPT !.pc = "find", !.conn = c].pc = "find"
  BY Zenon DEF NoJob, Job, PC
<1>3. job[p].conn \in Conn \cup {None}
  BY Zenon DEF JobDevices, Job
<1>. QED  BY <1>1, <1>2, <1>3, Zenon DEF JobDevices, Finish

\* Every step keeps the jobs and the queue well formed.
LEMMA JobStep == JobDevices /\ [Next]_vars => JobDevices'
<1>. SUFFICES ASSUME JobDevices, [Next]_vars PROVE JobDevices'
  OBVIOUS
<1>. USE SessionsAssumption
<1>1. ASSUME NEW c \in Conn, NEW type \in PacketType, Receive(c, type)
      PROVE  JobDevices'
  <2>1. [type |-> type, conn |-> c] \in [type : PacketType, conn : Conn]
    OBVIOUS
  <2>2. Append(queue, [type |-> type, conn |-> c])
          \in Seq([type : PacketType, conn : Conn])
    BY <2>1, Appended, Zenon DEF JobDevices
  <2>3. queue' \in Seq([type : PacketType, conn : Conn])
    BY <1>1, <2>2, Zenon DEF JobDevices, Receive
  <2>. QED  BY <1>1, <2>3, Zenon DEF JobDevices, Receive
<1>2. ASSUME NEW c \in Conn, Close(c) PROVE JobDevices'
  <2>1. PICK new \in Job : new.pc = "find" /\ job' = [job EXCEPT ![c] = new]
    <3>1. \A b \in BOOLEAN :
            /\ [NoJob EXCEPT !.pc = "find", !.conn = c, !.again = b] \in Job
            /\ [NoJob EXCEPT !.pc = "find", !.conn = c, !.again = b].pc = "find"
      BY Zenon DEF NoJob, Job, PC
    <3>2. (c \in Quic) \in BOOLEAN
      OBVIOUS
    <3>. QED  BY <1>2, <3>1, <3>2, Zenon DEF Close
  <2>2. UNCHANGED queue
    BY <1>2 DEF Close
  <2>. QED  BY <2>1, <2>2, Zenon DEF JobDevices
<1>3. ASSUME NEW w \in Worker, Take(w) PROVE JobDevices'
  <2>1. Head(queue) \in [type : PacketType, conn : Conn]
        /\ Tail(queue) \in Seq([type : PacketType, conn : Conn])
    BY <1>3, HeadTail, Zenon DEF JobDevices, Take
  <2>. DEFINE new == [pc |-> "packet", type |-> Head(queue).type,
                      conn |-> Head(queue).conn,
                      device |-> Owner[Head(queue).conn], again |-> FALSE]
  <2>2. new \in Job /\ new.pc = "packet" /\ new.device \in Device
    BY <2>1 DEF Job, PC
  <2>3. job' = [job EXCEPT ![w] = new] /\ queue' = Tail(queue)
    BY <1>3 DEF Take
  <2>. HIDE DEF new
  <2>. QED  BY <2>1, <2>2, <2>3, Zenon DEF JobDevices, Proc
<1>4. ASSUME NEW w \in Worker,
             \/ ConnectDevice(w) \/ ConnectRefused(w) \/ ConnectSession(w)
             \/ ConnectRedis(w) \/ PingReq(w) \/ StatusCheck(w)
             \/ PublishCheck(w) \/ Report(w) \/ Disconnect(w)
      PROVE  JobDevices'
  <2>1. w \in Proc /\ UNCHANGED queue
    BY <1>4, Zenon DEF Proc, network, ConnectDevice, ConnectRefused, ConnectSession,
                ConnectRedis, PingReq, StatusCheck, PublishCheck, Report,
                Disconnect
  <2>2. Finish(w) => JobDevices'
    BY <2>1, FinishJob
  <2>3. ASSUME NEW pc \in PC, Goto(w, pc), job[w].device \in Device
        PROVE  JobDevices'
    BY <2>1, <2>3, GotoJob
  <2>4. At(w, "packet") \/ At(w, "session") => job[w].device \in Device
    BY <2>1, Zenon DEF At, JobDevices
  <2>5. \/ Finish(w)
        \/ \E pc \in PC : Goto(w, pc) /\ (At(w, "packet") \/ At(w, "session"))
    BY <1>4, Zenon DEF PC, Handling, ConnectDevice, ConnectRefused, ConnectSession,
                ConnectRedis, PingReq, StatusCheck, PublishCheck, Report,
                Disconnect
  <2>. QED  BY <2>2, <2>3, <2>4, <2>5
<1>5. ASSUME NEW p \in Proc, DropStep(p) PROVE JobDevices'
  <2>1. UNCHANGED queue
    BY <1>5, Zenon DEF network, DropStep, FindDevice, DropDevice, DropSession,
                DropRegistration, DropMarkOffline
  <2>2. CASE FindDevice(p)
    <3>1. Finish(p) => JobDevices'
      BY <2>1, FinishJob
    <3>2. ASSUME NEW d \in Device,
                 job' = [job EXCEPT ![p].pc = "drop device", ![p].device = d]
          PROVE  JobDevices'
      <4>. DEFINE new == [job[p] EXCEPT !.pc = "drop device", !.device = d]
      <4>1. job[p] \in Job
        BY Zenon DEF JobDevices
      <4>2. new \in Job /\ new.device \in Device
        BY <4>1, Zenon DEF Job, PC
      <4>3. job' = [job EXCEPT ![p] = new]
        BY <3>2, <4>1, Zenon DEF JobDevices
      <4>. HIDE DEF new
      <4>. QED  BY <2>1, <4>2, <4>3, Zenon DEF JobDevices
    <3>. QED  BY <2>2, <3>1, <3>2, Zenon DEF FindDevice
  <2>3. CASE DropMarkOffline(p)
    BY <2>1, <2>3, FinishJob, Zenon DEF DropMarkOffline
  <2>4. CASE DropDevice(p) \/ DropSession(p) \/ DropRegistration(p)
    <3>1. job[p].device \in Device
      BY <2>4, Zenon DEF At, JobDevices, DropDevice, DropSession, DropRegistration
    <3>2. \E pc \in PC : Goto(p, pc)
      BY <2>4, Zenon DEF PC, DropDevice, DropSession, DropRegistration
    <3>. QED  BY <2>1, <3>1, <3>2, GotoJob
  <2>. QED  BY <1>5, <2>2, <2>3, <2>4 DEF DropStep
<1>6. ASSUME UNCHANGED <<job, queue>> PROVE JobDevices'
  BY <1>6, Zenon DEF JobDevices
<1>. QED
  BY <1>1, <1>2, <1>3, <1>4, <1>5, <1>6
     DEF Next, vars, network, WorkerStep, CleanupStep, AsyncRegister, Elapse,
         CleanupCollect, CleanupRemove, CleanupMarkOffline

-----------------------------------------------------------------------------
(* The session table and its index *)

\* Removing the session that the index names for d, and its entry.
LEMMA DropKeepsIndex ==
  ASSUME SessionIDs, SessionIndex, NEW d \in Device,
         sessions' = {s \in sessions : s.id # byDevice[d]},
         byDevice' = [byDevice EXCEPT ![d] = None],
         UNCHANGED lastID
  PROVE  SessionIDs' /\ SessionIndex'
<1>1. SessionIDs'
  BY DEF SessionIDs
<1>2. ASSUME NEW s \in sessions' PROVE byDevice'[s.device] = s.id
  <2>1. s \in sessions /\ s.id # byDevice[d] /\ s.device \in Device
    BY <1>2 DEF SessionIDs, Session
  <2>2. byDevice[s.device] = s.id
    BY <2>1 DEF SessionIndex
  <2>. QED  BY <2>1, <2>2 DEF SessionIDs
<1>3. ASSUME NEW e \in Device, byDevice'[e] # None
      PROVE  \E s \in sessions' : s.device = e /\ s.id = byDevice'[e]
  <2>1. e # d /\ byDevice'[e] = byDevice[e]
    BY <1>3 DEF SessionIDs
  <2>2. PICK s \in sessions : s.device = e /\ s.id = byDevice[e]
    BY <1>3, <2>1 DEF SessionIndex
  <2>3. s.id # byDevice[d]
    <3>1. SUFFICES ASSUME s.id = byDevice[d] PROVE FALSE
      OBVIOUS
    <3>2. byDevice[d] # None
      BY <1>3, <2>1, <2>2, <3>1
    <3>3. PICK t \in sessions : t.device = d /\ t.id = byDevice[d]
      BY <3>2 DEF SessionIndex
    <3>. QED  BY <2>1, <2>2, <3>1, <3>3 DEF SessionIDs
  <2>. QED  BY <2>1, <2>2, <2>3
<1>. QED  BY <1>1, <1>2, <1>3 DEF SessionIndex

\* handleConnect: a fresh session takes the place of the old one.
LEMMA ConnectKeepsIndex ==
  ASSUME SessionIDs, SessionIndex, NEW d \in Device,
         lastID' = lastID + 1,
         sessions' = {s \in sessions : s.id # byDevice[d]}
                       \cup {[id |-> lastID + 1, device |-> d, stale |-> FALSE]},
         byDevice' = [byDevice EXCEPT ![d] = lastID + 1]
  PROVE  SessionIDs' /\ SessionIndex'
<1>. DEFINE new == [id |-> lastID + 1, device |-> d, stale |-> FALSE]
<1>0. new \in Session /\ new.id = lastID + 1 /\ new.device = d
  BY DEF SessionIDs, Session
<1>00. lastID \in Nat /\ \A s \in sessions : s.id \in Nat /\ s.device \in Device
                                         /\ s.id <= lastID
  BY DEF SessionIDs, Session
<1>000. sessions' = {s \in sessions : s.id # byDevice[d]} \cup {new}
  OBVIOUS
<1>. HIDE DEF new
<1>1. SessionIDs'
  <2>1. lastID' \in Nat /\ sessions' \subseteq Session
    BY <1>0, <1>00, <1>000 DEF SessionIDs
  <2>2. byDevice' \in [Device -> Nat \cup {None}]
    BY <1>00 DEF SessionIDs
  <2>3. \A s \in sessions' : s.id <= lastID'
    BY <1>0, <1>00, <1>000
  <2>4. \A s, t \in sessions' : s.id = t.id => s.device = t.device
    BY <1>0, <1>00, <1>000 DEF SessionIDs
  <2>. QED  BY <2>1, <2>2, <2>3, <2>4 DEF SessionIDs
<1>2. ASSUME NEW s \in sessions' PROVE byDevice'[s.device] = s.id
  <2>1. CASE s = new
    BY <1>0, <2>1 DEF SessionIDs
  <2>2. CASE s # new
    <3>1. s \in sessions /\ s.id # byDevice[d] /\ s.device \in Device
      BY <1>00, <1>000, <1>2, <2>2
    <3>2. byDevice[s.device] = s.id
      BY <3>1 DEF SessionIndex
    <3>. QED  BY <3>1, <3>2 DEF SessionIDs
  <2>. QED  BY <2>1, <2>2
<1>3. ASSUME NEW e \in Device, byDevice'[e] # None
      PROVE  \E s \in sessions' : s.device = e /\ s.id = byDevice'[e]
  <2>1. CASE e = d
    BY <1>0, <1>000, <2>1 DEF SessionIDs
  <2>2. CASE e # d
    <3>1. byDevice'[e] = byDevice[e]
      BY <2>2 DEF SessionIDs
    <3>2. PICK s \in sessions : s.device = e /\ s.id = byDevice[e]
      BY <1>3, <3>1 DEF SessionIndex
    <3>3. s.id # byDevice[d]
      <4>1. SUFFICES ASSUME s.id = byDevice[d] PROVE FALSE
        OBVIOUS
      <4>2. byDevice[d] # None
        BY <1>3, <3>1, <3>2, <4>1
      <4>3. PICK t \in sessions : t.device = d /\ t.id = byDevice[d]
        BY <4>2 DEF SessionIndex
      <4>. QED  BY <2>2, <3>2, <4>1, <4>3 DEF SessionIDs
    <3>. QED  BY <1>000, <3>1, <3>2, <3>3
  <2>. QED  BY <2>1, <2>2
<1>. QED  BY <1>1, <1>2, <1>3 DEF SessionIndex

\* A step that only changes the activity of sessions, as a map on the table
\* that keeps IDs and devices.
LEMMA ActivityKeepsIndex ==
  ASSUME SessionIDs, SessionIndex, UNCHANGED <<byDevice, lastID>>,
         sessions' \subseteq Session,
         \A s \in sessions' : \E t \in sessions : s.id = t.id /\ s.device = t.device,
         \A t \in sessions : \E s \in sessions' : s.id = t.id /\ s.device = t.device
  PROVE  SessionIDs' /\ SessionIndex'
<1>1. SessionIDs'
  BY DEF SessionIDs
<1>2. SessionIndex'
  BY DEF SessionIndex
<1>. QED  BY <1>1, <1>2

\* The cleanup removes sessions together with their index entries.
LEMMA CleanupKeepsIndex ==
  ASSUME SessionIDs, SessionIndex, CleanupRemove
  PROVE  SessionIDs' /\ SessionIndex'
<1>. DEFINE gone == {s \in sessions : s.id \in expired}
            ids  == {s.id : s \in gone}
<1>1. /\ sessions' = sessions \ gone
      /\ byDevice' = [d \in Device |-> IF byDevice[d] \in ids THEN None
                                        ELSE byDevice[d]]
      /\ lastID' = lastID
  BY DEF CleanupRemove
<1>2. SessionIDs'
  BY <1>1 DEF SessionIDs
<1>3. ASSUME NEW s \in sessions' PROVE byDevice'[s.device] = s.id
  <2>1. s \in sessions /\ s.id \notin expired /\ s.device \in Device
    BY <1>1, <1>3 DEF SessionIDs, Session
  <2>2. byDevice[s.device] = s.id /\ s.id \notin ids
    BY <2>1 DEF SessionIndex
  <2>. QED  BY <1>1, <2>1, <2>2
<1>4. ASSUME NEW d \in Device, byDevice'[d] # None
      PROVE  \E s \in sessions' : s.device = d /\ s.id = byDevice'[d]
  <2>1. byDevice'[d] = byDevice[d] /\ byDevice[d] \notin ids
    BY <1>1, <1>4
  <2>2. PICK s \in sessions : s.device = d /\ s.id = byDevice[d]
    BY <1>4, <2>1 DEF SessionIndex
  <2>3. s \notin gone
    BY <2>1, <2>2
  <2>. QED  BY <1>1, <2>1, <2>2, <2>3
<1>. QED  BY <1>2, <1>3, <1>4 DEF SessionIndex

\* Every step keeps the index.
LEMMA IndexStep ==
  ASSUME IndexInv, [Next]_vars
  PROVE  IndexInv'
<1>. USE SessionsAssumption DEF IndexInv
<1>1. JobDevices'
  BY JobStep
<1>2. ASSUME UNCHANGED <<sessions, byDevice, lastID>>
      PROVE  SessionIDs' /\ SessionIndex'
  BY <1>2 DEF SessionIDs, SessionIndex
<1>3. ASSUME NEW w \in Worker, ConnectSession(w)
      PROVE  SessionIDs' /\ SessionIndex'
  <2>1. job[w].device \in Device
    BY <1>3, Zenon DEF ConnectSession, At, JobDevices, Proc
  <2>. QED  BY <1>3, <2>1, ConnectKeepsIndex, Zenon DEF ConnectSession
<1>4. ASSUME NEW w \in Worker, PingReq(w)
      PROVE  SessionIDs' /\ SessionIndex'
  <2>. DEFINE awake(s) == IF s.id = byDevice[job[w].device]
                            THEN [s EXCEPT !.stale = FALSE] ELSE s
  <2>1. sessions' = {awake(s) : s \in sessions} /\ UNCHANGED <<byDevice, lastID>>
    BY <1>4 DEF PingReq
  <2>2. \A s \in sessions : /\ awake(s) \in Session
                            /\ awake(s).id = s.id /\ awake(s).device = s.device
    <3>1. ASSUME NEW s \in Session
          PROVE  /\ [s EXCEPT !.stale = FALSE] \in Session
                 /\ [s EXCEPT !.stale = FALSE].id = s.id
                 /\ [s EXCEPT !.stale = FALSE].device = s.device
      BY Zenon DEF Session
    <3>2. \A s \in sessions : s \in Session
      BY DEF SessionIDs
    <3>. QED  BY <3>1, <3>2, Zenon
  <2>. HIDE DEF awake
  <2>3. /\ sessions' \subseteq Session
        /\ \A s \in sessions' : \E t \in sessions : s.id = t.id /\ s.device = t.device
        /\ \A t \in sessions : \E s \in sessions' : s.id = t.id /\ s.device = t.device
    BY <2>1, <2>2
  <2>. QED  BY <2>1, <2>3, ActivityKeepsIndex
<1>5. ASSUME NEW s \in sessions, Elapse(s)
      PROVE  SessionIDs' /\ SessionIndex'
  <2>. DEFINE old == [s EXCEPT !.stale = TRUE]
  <2>1. sessions' = (sessions \ {s}) \cup {old} /\ UNCHANGED <<byDevice, lastID>>
    BY <1>5 DEF Elapse
  <2>2. old \in Session /\ old.id = s.id /\ old.device = s.device
    BY Zenon DEF SessionIDs, Session
  <2>. HIDE DEF old
  <2>3. /\ sessions' \subseteq Session
        /\ \A r \in sessions' : \E t \in sessions : r.id = t.id /\ r.device = t.device
        /\ \A t \in sessions : \E r \in sessions' : r.id = t.id /\ r.device = t.device
    BY <2>1, <2>2 DEF SessionIDs
  <2>. QED  BY <2>1, <2>3, ActivityKeepsIndex
<1>6. ASSUME NEW p \in Proc, DropSession(p)
      PROVE  SessionIDs' /\ SessionIndex'
  <2>1. job[p].device \in Device
    BY <1>6, Zenon DEF DropSession, At, JobDevices
  <2>. QED  BY <1>6, <2>1, DropKeepsIndex, Zenon DEF DropSession
<1>7. ASSUME CleanupRemove PROVE SessionIDs' /\ SessionIndex'
  BY <1>7, CleanupKeepsIndex
<1>8. SessionIDs' /\ SessionIndex'
  <2>1. ASSUME NEW w \in Worker, WorkerStep(w) PROVE SessionIDs' /\ SessionIndex'
    BY <1>2, <1>3, <1>4, <2>1, Zenon
       DEF WorkerStep, tables, Take, ConnectDevice, ConnectRefused,
           ConnectRedis, StatusCheck, PublishCheck, Report, Disconnect
  <2>2. ASSUME NEW p \in Proc, DropStep(p) PROVE SessionIDs' /\ SessionIndex'
    BY <1>2, <1>6, <2>2, Zenon
       DEF DropStep, tables, FindDevice, DropDevice, DropRegistration,
           DropMarkOffline
  <2>. QED
    BY <1>2, <1>5, <1>7, <2>1, <2>2, Zenon
       DEF Next, vars, tables, Receive, Close, AsyncRegister, CleanupStep,
           CleanupCollect, CleanupMarkOffline
<1>. QED  BY <1>1, <1>8

LEMMA IndexInvHolds == Spec => []IndexInv
<1>1. Init => IndexInv
  <2>. SUFFICES ASSUME Init PROVE IndexInv
    OBVIOUS
  <2>1. NoJob \in Job /\ NoJob.pc = "idle"
    BY DEF NoJob, Job, PC
  <2>2. <<>> \in Seq([type : PacketType, conn : Conn])
    OBVIOUS
  <2>3. JobDevices
    BY <2>1, <2>2, Zenon DEF Init, JobDevices
  <2>4. SessionIDs /\ SessionIndex
    BY DEF Init, SessionIDs, SessionIndex
  <2>. QED  BY <2>3, <2>4 DEF IndexInv
<1>2. IndexInv /\ [Next]_vars => IndexInv'
  BY IndexStep
<1>. QED  BY <1>1, <1>2, PTL DEF Spec

\* A device has at most one session and the index names exactly that one,
\* however the workers, the readers of closing connections and the cleanup
\* interleave (handleConnect, dropDevice, CleanupExpiredSessions).
THEOREM IndexIsExact == Spec => []SessionIndex
<1>1. IndexInv => SessionIndex
  BY DEF IndexInv
<1>. QED  BY <1>1, IndexInvHolds, PTL

-----------------------------------------------------------------------------
(* Typing *)

\* What TypeOK says beyond IndexInv; the connection a CONNECT came by is one.
RestOK ==
  /\ Len(queue) <= QueueCap
  /\ received \in Nat /\ closed \subseteq Stream
  /\ \A p \in Proc : job[p].pc \in {"packet", "session", "redis"} => job[p].conn \in Conn
  /\ devices \in [Device -> Conn \cup {None}]
  /\ async \subseteq Conn /\ registered \in [Device -> Conn \cup {None}]
  /\ up \subseteq Device /\ expired \subseteq Nat /\ doomed \subseteq Device

\* Going on with a job keeps its connection, ending it leaves no CONNECT.
LEMMA JobConn ==
  ASSUME JobDevices, RestOK, NEW p \in Proc,
         \/ Finish(p)
         \/ \E pc \in PC : /\ Goto(p, pc)
                          /\ \/ pc \notin {"packet", "session", "redis"}
                             \/ At(p, "packet") \/ At(p, "session")
         \/ \E d \in Device : job' = [job EXCEPT ![p].pc = "drop device", ![p].device = d]
  PROVE  \A q \in Proc : job'[q].pc \in {"packet", "session", "redis"} => job'[q].conn \in Conn
<1>1. ASSUME NEW q \in Proc, q # p PROVE job'[q] = job[q]
  BY <1>1, Zenon DEF JobDevices, Finish, Goto
<1>2. job'[p].pc \in {"packet", "session", "redis"} => job'[p].conn \in Conn
  <2>1. CASE Finish(p)
    <3>1. job'[p].pc \in {"idle", "find"}
      BY <2>1, Zenon DEF JobDevices, Job, Finish, NoJob
    <3>. QED  BY <3>1, Zenon
  <2>2. ASSUME NEW pc \in PC, Goto(p, pc) PROVE job'[p].pc = pc /\ job'[p].conn = job[p].conn
    <3>1. job[p] \in Job /\ job' = [job EXCEPT ![p] = [job[p] EXCEPT !.pc = pc]]
      BY <2>2, Zenon DEF JobDevices, Goto
    <3>2. [job[p] EXCEPT !.pc = pc].pc = pc /\ [job[p] EXCEPT !.pc = pc].conn = job[p].conn
      BY <3>1, Zenon DEF Job
    <3>. QED  BY <3>1, <3>2, Zenon DEF JobDevices
  <2>3. ASSUME NEW d \in Device, job' = [job EXCEPT ![p].pc = "drop device", ![p].device = d]
        PROVE  job'[p].pc = "drop device"
    <3>. DEFINE drop == [[job[p] EXCEPT !.pc = "drop device"] EXCEPT !.device = d]
    <3>1. job[p] \in Job /\ job' = [job EXCEPT ![p] = drop]
      BY <2>3, Zenon DEF JobDevices
    <3>2. drop.pc = "drop device"
      BY <3>1, Zenon DEF Job
    <3>. HIDE DEF drop
    <3>. QED  BY <3>1, <3>2, Zenon DEF JobDevices
  <2>4. At(p, "packet") \/ At(p, "session") => job[p].conn \in Conn
    BY Zenon DEF At, RestOK
  <2>. QED  BY <2>1, <2>2, <2>3, <2>4, Zenon
<1>. QED  BY <1>1, <1>2, Zenon DEF RestOK

\* Every step keeps the rest of the types.
LEMMA RestStep ==
  ASSUME IndexInv, RestOK, [Next]_vars
  PROVE  RestOK'
<1>. USE SessionsAssumption
<1>. DEFINE ConnsOK == \A p \in Proc : job[p].pc \in {"packet", "session", "redis"}
                                        => job[p].conn \in Conn
<1>1. JobDevices /\ SessionIDs
  BY DEF IndexInv
<1>2. ASSUME NEW c \in Conn, NEW type \in PacketType, Receive(c, type) PROVE RestOK'
  <2>. DEFINE Packet == [type : PacketType, conn : Conn]
              new == [type |-> type, conn |-> c]
  <2>1. queue \in Seq(Packet) /\ new \in Packet
    BY <1>1, Zenon DEF JobDevices
  <2>2. queue' = IF Len(queue) < QueueCap THEN Append(queue, new) ELSE queue
    BY <1>2 DEF Receive
  <2>. HIDE DEF Packet, new
  <2>3. Len(queue') <= QueueCap
    <3>1. Len(Append(queue, new)) = Len(queue) + 1 /\ Len(queue) \in Nat
      BY <2>1, Appended, LenIs
    <3>. QED  BY <2>2, <3>1 DEF RestOK
  <2>. QED  BY <1>2, <2>3 DEF RestOK, Receive, tables, redis, cleanup
<1>3. ASSUME NEW c \in Conn, Close(c) PROVE RestOK'
  <2>1. job'[c].pc = "find" /\ \A q \in Proc : q # c => job'[q] = job[q]
    BY <1>1, <1>3, Zenon DEF Close, JobDevices, NoJob, Proc
  <2>2. ConnsOK'
    BY <2>1 DEF RestOK
  <2>. QED  BY <1>3, <2>2 DEF RestOK, Close, tables, redis, cleanup
<1>4. ASSUME NEW w \in Worker, Take(w) PROVE RestOK'
  <2>1. /\ Head(queue) \in [type : PacketType, conn : Conn]
        /\ Len(Tail(queue)) = Len(queue) - 1 /\ Len(queue) \in Nat
    BY <1>1, <1>4, HeadTail, LenIs, Zenon DEF JobDevices, Take
  <2>2. job'[w].conn \in Conn /\ \A q \in Proc : q # w => job'[q] = job[q]
    BY <1>1, <1>4, <2>1, Zenon DEF Take, JobDevices, Proc
  <2>3. ConnsOK'
    BY <2>2 DEF RestOK
  <2>4. Len(queue') <= QueueCap
    BY <1>4, <2>1 DEF RestOK, Take
  <2>. QED  BY <1>4, <2>3, <2>4 DEF RestOK, Take, tables, redis, cleanup
<1>5. ASSUME NEW w \in Worker, WorkerStep(w), ~Take(w) PROVE RestOK'
  <2>1. w \in Proc /\ UNCHANGED <<queue, received, closed, expired, doomed>>
    BY <1>5, Zenon DEF Proc, network, cleanup, WorkerStep, ConnectDevice, ConnectRefused,
                ConnectSession, ConnectRedis, PingReq, StatusCheck, PublishCheck, Report,
                Disconnect
  <2>2. /\ job[w].conn \in Conn \cup {None}
        /\ At(w, "redis") => job[w].conn \in Conn
        /\ At(w, "packet") \/ At(w, "redis") \/ At(w, "report") => job[w].device \in Device
    BY <1>1, <2>1, Zenon DEF JobDevices, Job, RestOK, At
  <2>3. \/ Finish(w)
        \/ \E pc \in PC : Goto(w, pc) /\ (At(w, "packet") \/ At(w, "session"))
    BY <1>5, Zenon DEF PC, Handling, WorkerStep, ConnectDevice, ConnectRefused, ConnectSession,
                ConnectRedis, PingReq, StatusCheck, PublishCheck, Report, Disconnect
  <2>4. ConnsOK'
    BY <1>1, <2>1, <2>3, JobConn, Zenon
  <2>5. devices' \in [Device -> Conn \cup {None}]
    BY <1>5, <2>2, Zenon DEF RestOK, tables, Handling, WorkerStep, ConnectDevice, ConnectRefused,
                      ConnectSession, ConnectRedis, PingReq, StatusCheck, PublishCheck, Report,
                      Disconnect
  <2>6. async' \subseteq Conn /\ registered' \in [Device -> Conn \cup {None}]
    BY <1>5, <2>2, Zenon DEF RestOK, redis, WorkerStep, ConnectDevice, ConnectRefused,
                      ConnectSession, ConnectRedis, PingReq, StatusCheck, PublishCheck, Report,
                      Disconnect
  <2>7. up' \subseteq Device
    BY <1>5, <2>2, Zenon DEF RestOK, redis, WorkerStep, ConnectDevice, ConnectRefused,
                      ConnectSession, ConnectRedis, PingReq, StatusCheck, PublishCheck, Report,
                      Disconnect
  <2>. QED  BY <2>1, <2>4, <2>5, <2>6, <2>7 DEF RestOK
<1>6. ASSUME NEW p \in Proc, DropStep(p) PROVE RestOK'
  <2>1. UNCHANGED <<queue, received, closed, async, expired, doomed>>
    BY <1>6, Zenon DEF network, redis, cleanup, DropStep, FindDevice, DropDevice, DropSession,
                DropRegistration, DropMarkOffline
  <2>2. \/ Finish(p)
        \/ \E pc \in PC : Goto(p, pc) /\ pc \notin {"packet", "session", "redis"}
        \/ \E d \in Device : job' = [job EXCEPT ![p].pc = "drop device", ![p].device = d]
    BY <1>6, Zenon DEF PC, DropStep, FindDevice, DropDevice, DropSession, DropRegistration,
                DropMarkOffline
  <2>3. ConnsOK'
    BY <1>1, <2>2, JobConn, Zenon
  <2>4. /\ devices' \in [Device -> Conn \cup {None}]
        /\ registered' \in [Device -> Conn \cup {None}] /\ up' \subseteq Device
    BY <1>6, Zenon DEF RestOK, tables, redis, DropStep, FindDevice, DropDevice, DropSession,
                DropRegistration, DropMarkOffline
  <2>. QED  BY <2>1, <2>3, <2>4 DEF RestOK
<1>7. ASSUME NEW c \in async, AsyncRegister(c) PROVE RestOK'
  BY <1>7 DEF RestOK, AsyncRegister, network, tables, cleanup
<1>8. ASSUME NEW s \in sessions, Elapse(s) PROVE RestOK'
  BY <1>8 DEF RestOK, Elapse, network, redis, cleanup
<1>9. ASSUME CleanupStep PROVE RestOK'
  <2>1. \A s \in sessions : s.id \in Nat /\ s.device \in Device
    BY <1>1 DEF SessionIDs, Session
  <2>2. CASE CleanupCollect
    BY <2>1, <2>2 DEF RestOK, CleanupCollect, network, tables, redis
  <2>3. CASE CleanupRemove
    BY <2>1, <2>3 DEF RestOK, CleanupRemove, network, redis
  <2>4. ASSUME NEW d \in doomed, CleanupMarkOffline(d) PROVE RestOK'
    BY <2>4 DEF RestOK, CleanupMarkOffline, network, tables
  <2>. QED  BY <1>9, <2>2, <2>3, <2>4 DEF CleanupStep
<1>10. ASSUME UNCHANGED vars PROVE RestOK'
  BY <1>10 DEF RestOK, vars, network, tables, redis, cleanup
<1>. QED  BY <1>2, <1>3, <1>4, <1>5, <1>6, <1>7, <1>8, <1>9, <1>10 DEF Next

\* The tables, the queue, the jobs and what is in Redis keep their types, and
\* packetCh its capacity (the readers drop a packet rather than wait).
THEOREM SessionsTypeCorrect == Spec => []TypeOK
<1>1. Init => RestOK
  BY SessionsAssumption DEF Init, RestOK, NoJob
<1>2. IndexInv /\ RestOK /\ [Next]_vars => RestOK'
  BY RestStep
<1>3. IndexInv /\ RestOK => TypeOK
  BY Zenon DEF IndexInv, SessionIDs, JobDevices, RestOK, TypeOK
<1>. QED  BY <1>1, <1>2, <1>3, IndexInvHolds, PTL DEF Spec
=============================================================================
