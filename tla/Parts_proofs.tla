---------------------------- MODULE Parts_proofs ----------------------------
(***************************************************************************)
(* The parts that do not interact.  What the console's tasks and           *)
(* acceptance runs do, for any number of either and of cases.  The shadow  *)
(* of local mode, for every set of devices and every timeout: its types,   *)
(* the lease a preoccupation has, and that it keeps the promise of         *)
(* DeviceShadow.  And that the IDs of one generator increase, for every    *)
(* size of the fields, every node and any number of restarts and of clocks *)
(* set back.                                                               *)
(***************************************************************************)
EXTENDS AdminTasks, ShadowLocal, Snowflake, TLAPS

-----------------------------------------------------------------------------
(* The console: types *)

TaskType ==
  [status : {"none", "running", "ended"}, proc : {"none", "alive", "exited"},
   run : {"none", "starting", "reading", "ended"}]

VerifyType ==
  [at : {"none", "launch", "wait", "next", "iot", "settle", "answer", "collect",
         "shadow", "finish", "stamped", "ended"},
   left : 0 .. ConnCases, own : Seq(Task), cases : 0 .. AllCases, expired : BOOLEAN]

\* How many results an acceptance run has recorded, by where it is: without
\* this account the number of cases has no bound.
Counts(v) ==
  /\ v.at = "none" => v.left = ConnCases /\ v.cases = 0
  /\ v.at \in {"launch", "wait"} => v.left >= 1 /\ v.cases = 2 + (ConnCases - v.left)
  /\ v.at = "next" => v.left >= 1 /\ v.cases = 3 + (ConnCases - v.left)
  /\ v.at \in {"iot", "settle", "answer", "collect"} => v.left = 0 /\ v.cases = ConnCases + 2
  /\ v.at = "shadow" => v.cases = ConnCases + 3 \/ (v.expired /\ v.cases = ConnCases + 2)
  /\ v.at \in {"finish", "stamped", "ended"} =>
       v.cases = AllCases \/ (v.expired /\ v.cases = ConnCases + 3)

\* A process is started once, after the task was launched; a stop that got
\* past its kill found the process exited or not yet started.
Stops(t) ==
  /\ task[t].status = "none" => task[t].proc = "none"
  /\ task[t].run = "starting" => task[t].proc = "none"
  /\ stop[t] \in {"record", "returned"} => task[t].proc = "exited" \/ t \in early

TasksOK ==
  /\ task \in [Task -> TaskType]
  /\ stop \in [Task -> {"none", "kill", "record", "returned"}]
  /\ early \subseteq Task
  /\ \A t \in Task : Stops(t)

ReportsOK ==
  /\ verify \in [Report -> VerifyType]
  /\ last \in Report \cup {NoReport}
  /\ \A r \in Report : Counts(verify[r])

AdminInv == TasksOK /\ ReportsOK

LEMMA AdminHolds == AdminInv => AdminTypeOK /\ StopKills /\ ReportCoversAll
<1>. SUFFICES ASSUME AdminInv PROVE AdminTypeOK /\ StopKills /\ ReportCoversAll
  OBVIOUS
<1>1. AdminTypeOK
  BY DEF AdminInv, TasksOK, ReportsOK, AdminTypeOK, TaskType, VerifyType
<1>2. StopKills
  BY DEF AdminInv, TasksOK, Stops, StopKills
<1>3. ReportCoversAll
  BY DEF AdminInv, ReportsOK, Counts, ReportCoversAll, Finished
<1>. QED  BY <1>1, <1>2, <1>3

LEMMA AdminInitOK == AdminInit => AdminInv
<1>. SUFFICES ASSUME AdminInit PROVE AdminInv
  OBVIOUS
<1>1. NewTask \in TaskType /\ NewTask.status = "none" /\ NewTask.proc = "none" /\ NewTask.run = "none"
  BY DEF NewTask, TaskType
<1>2. TasksOK
  BY <1>1 DEF AdminInit, TasksOK, Stops
<1>3. NewVerify \in VerifyType /\ Counts(NewVerify)
  <2>1. <<>> \in Seq(Task) /\ 0 \in 0 .. AllCases /\ ConnCases \in 0 .. ConnCases
    BY AdminAssumption DEF AllCases
  <2>. QED  BY <2>1 DEF NewVerify, VerifyType, Counts
<1>4. ReportsOK
  BY <1>3 DEF AdminInit, ReportsOK
<1>. QED  BY <1>2, <1>4 DEF AdminInv

-----------------------------------------------------------------------------
(* The console: the tasks *)

\* Launching a task and killing a process, by whomever.
LEMMA LaunchOK ==
  ASSUME TasksOK, NEW t \in Task, Launchable(t), Launch(t), UNCHANGED <<stop, early>>
  PROVE  TasksOK'
BY DEF TasksOK, TaskType, Stops, Launchable, Launch

LEMMA KilledOK ==
  ASSUME TasksOK, NEW t, task' = Killed(t), UNCHANGED <<stop, early>>
  PROVE  TasksOK'
<1>1. task' \in [Task -> TaskType]
  <2>. DEFINE k == [task[t] EXCEPT !.proc = IF @ = "alive" THEN "exited" ELSE @]
  <2>1. t \in Task => k \in TaskType
    BY DEF TasksOK, TaskType
  <2>2. task' = [task EXCEPT ![t] = k]
    BY DEF Killed
  <2>. HIDE DEF k
  <2>. QED  BY <2>1, <2>2, Zenon DEF TasksOK
<1>2. \A u \in Task : /\ task'[u].status = task[u].status /\ task'[u].run = task[u].run
                      /\ task'[u].proc = task[u].proc \/ (task[u].proc = "alive" /\ task'[u].proc = "exited")
  BY DEF TasksOK, TaskType, Killed
<1>3. ASSUME NEW u \in Task PROVE Stops(u)'
  <2>1. Stops(u) /\ stop' = stop /\ early' = early
    BY DEF TasksOK
  <2>2. task'[u].proc = task[u].proc \/ (task[u].proc = "alive" /\ task'[u].proc = "exited")
    BY <1>2
  <2>3. task'[u].status = task[u].status /\ task'[u].run = task[u].run
    BY <1>2
  <2>4. CASE task'[u].proc = task[u].proc
    BY <2>1, <2>3, <2>4 DEF Stops
  <2>5. CASE task[u].proc = "alive" /\ task'[u].proc = "exited"
    BY <2>1, <2>3, <2>5 DEF Stops
  <2>. QED  BY <2>2, <2>4, <2>5
<1>. QED  BY <1>1, <1>3 DEF TasksOK

LEMMA TaskStep ==
  ASSUME TasksOK, NEW t \in Task,
         \/ TestStart(t) \/ RunStart(t) \/ ProcessExits(t) \/ RunEnd(t)
         \/ StopCheck(t) \/ StopKill(t) \/ StopRecord(t)
  PROVE  TasksOK'
<1>1. CASE TestStart(t)
  BY <1>1, LaunchOK DEF TestStart
<1>2. CASE RunStart(t)
  BY <1>2 DEF RunStart, FinishTask, TasksOK, TaskType, Stops
<1>3. CASE ProcessExits(t)
  BY <1>3 DEF ProcessExits, TasksOK, TaskType, Stops
<1>4. CASE RunEnd(t)
  BY <1>4 DEF RunEnd, FinishTask, TasksOK, TaskType, Stops
<1>5. CASE StopCheck(t)
  BY <1>5 DEF StopCheck, TasksOK, TaskType, Stops
<1>6. CASE StopKill(t)
  <2>1. \A u \in Task : /\ task'[u].status = task[u].status /\ task'[u].run = task[u].run
                        /\ task'[u].proc = IF u = t /\ task[u].proc = "alive" THEN "exited"
                                           ELSE task[u].proc
    BY <1>6 DEF StopKill, Killed, TasksOK, TaskType
  <2>2. \A u \in Task : stop'[u] = IF u = t THEN "record" ELSE stop[u]
    BY <1>6 DEF StopKill, TasksOK
  <2>3. early \subseteq early' /\ early' \subseteq Task /\ (task[t].proc = "none" => t \in early')
    BY <1>6 DEF StopKill, TasksOK
  <2>4. task' \in [Task -> TaskType] /\ stop' \in [Task -> {"none", "kill", "record", "returned"}]
    BY <1>6 DEF StopKill, Killed, TasksOK, TaskType
  <2>5. task[t].proc \in {"none", "alive", "exited"}
    BY DEF TasksOK, TaskType
  <2>6. ASSUME NEW u \in Task PROVE Stops(u)'
    BY <2>1, <2>2, <2>3, <2>5 DEF TasksOK, Stops
  <2>. QED  BY <2>3, <2>4, <2>6 DEF TasksOK
<1>7. CASE StopRecord(t)
  <2>1. \A u \in Task : /\ task'[u].proc = task[u].proc /\ task'[u].run = task[u].run
                        /\ task'[u].status = IF u = t THEN "ended" ELSE task[u].status
    BY <1>7 DEF StopRecord, FinishTask, TasksOK, TaskType
  <2>2. \A u \in Task : stop'[u] = IF u = t THEN "returned" ELSE stop[u]
    BY <1>7 DEF StopRecord, TasksOK
  <2>3. early' = early /\ stop[t] = "record"
    BY <1>7 DEF StopRecord
  <2>4. task' \in [Task -> TaskType] /\ stop' \in [Task -> {"none", "kill", "record", "returned"}]
    <3>. DEFINE k == [task[t] EXCEPT !.status = "ended", !.run = task[t].run]
    <3>1. k \in TaskType
      BY Zenon DEF TasksOK, TaskType
    <3>2. task' = [task EXCEPT ![t] = k]
      BY <1>7, Zenon DEF StopRecord, FinishTask, TasksOK
    <3>3. stop' \in [Task -> {"none", "kill", "record", "returned"}]
      BY <1>7 DEF StopRecord, TasksOK
    <3>. HIDE DEF k
    <3>. QED  BY <3>1, <3>2, <3>3, Zenon DEF TasksOK
  <2>5. ASSUME NEW u \in Task PROVE Stops(u)'
    <3>1. Stops(u) /\ Stops(t)
      BY DEF TasksOK
    <3>2. CASE u = t
      <4>1. task'[t].status = "ended" /\ task'[t].proc = task[t].proc /\ task'[t].run = task[t].run
        BY <2>1
      <4>. QED  BY <2>3, <3>1, <3>2, <4>1 DEF Stops
    <3>3. CASE u # t
      <4>1. task'[u].status = task[u].status /\ task'[u].proc = task[u].proc /\ task'[u].run = task[u].run
        BY <2>1, <3>3
      <4>2. stop'[u] = stop[u]
        BY <2>2, <3>3
      <4>. QED  BY <2>3, <3>1, <4>1, <4>2 DEF Stops
    <3>. QED  BY <3>2, <3>3
  <2>. QED  BY <2>3, <2>4, <2>5 DEF TasksOK
<1>. QED  BY <1>1, <1>2, <1>3, <1>4, <1>5, <1>6, <1>7

-----------------------------------------------------------------------------
(* The console: the acceptance run *)

\* A step of one run.
LEMMA OneRun ==
  ASSUME ReportsOK, NEW r \in Report, NEW v \in VerifyType, Counts(v),
         verify' = [verify EXCEPT ![r] = v], last' \in {last, r}
  PROVE  ReportsOK'
BY DEF ReportsOK

LEMMA RecordOK ==
  ASSUME ReportsOK, NEW r \in Report, NEW at, Record(r, at), last' = last,
         \/ verify[r].at \in {"launch", "wait"} /\ at = "next"
         \/ verify[r].at \in {"iot", "answer", "collect"} /\ at = "shadow"
         \/ verify[r].at = "shadow" /\ at = "finish"
  PROVE  ReportsOK'
<1>. DEFINE old == verify[r]
            v == [old EXCEPT !.at = at, !.own = <<>>, !.cases = @ + 1]
<1>1. old \in VerifyType /\ Counts(old) /\ verify' = [verify EXCEPT ![r] = v]
  BY DEF ReportsOK, VerifyType, Record
<1>2. old.left \in Nat /\ old.cases \in Nat /\ ConnCases \in Nat /\ old.left <= ConnCases
  BY <1>1, AdminAssumption DEF VerifyType
<1>3. /\ v.at = at /\ v.left = old.left /\ v.cases = old.cases + 1 /\ v.expired = old.expired
      /\ v.own \in Seq(Task)
  BY <1>1 DEF VerifyType
<1>4. old.cases + 1 <= ConnCases + 4
  <2>1. CASE old.at \in {"launch", "wait"}
    BY <1>1, <1>2, <2>1 DEF Counts
  <2>2. CASE old.at \in {"iot", "answer", "collect"}
    BY <1>1, <1>2, <2>2 DEF Counts
  <2>3. CASE old.at = "shadow"
    BY <1>1, <1>2, <2>3 DEF Counts
  <2>. QED  BY <2>1, <2>2, <2>3
<1>5. v \in VerifyType
  <2>1. old.cases + 1 \in 0 .. AllCases /\ <<>> \in Seq(Task)
    BY <1>2, <1>4 DEF AllCases
  <2>. QED  BY <1>1, <2>1, Zenon DEF VerifyType
<1>6. Counts(v)
  <2>. HIDE DEF v
  <2>1. CASE old.at \in {"launch", "wait"} /\ at = "next"
    <3>1. old.left >= 1 /\ old.cases = 2 + (ConnCases - old.left)
      BY <1>1, <2>1 DEF Counts
    <3>2. old.cases + 1 = 3 + (ConnCases - old.left)
      BY <1>2, <3>1
    <3>. QED  BY <1>3, <2>1, <3>1, <3>2 DEF Counts
  <2>2. CASE old.at \in {"iot", "answer", "collect"} /\ at = "shadow"
    <3>1. old.cases = ConnCases + 2
      BY <1>1, <2>2 DEF Counts
    <3>2. old.cases + 1 = ConnCases + 3
      BY <1>2, <3>1
    <3>. QED  BY <1>3, <2>2, <3>2 DEF Counts
  <2>3. CASE old.at = "shadow" /\ at = "finish"
    <3>1. old.cases = ConnCases + 3 \/ (old.expired /\ old.cases = ConnCases + 2)
      BY <1>1, <2>3 DEF Counts
    <3>2. old.cases + 1 = AllCases \/ (old.expired /\ old.cases + 1 = ConnCases + 3)
      BY <1>2, <3>1 DEF AllCases
    <3>. QED  BY <1>3, <2>3, <3>2 DEF Counts
  <2>. QED  BY <2>1, <2>2, <2>3
<1>. HIDE DEF v, old
<1>. QED  BY <1>1, <1>5, <1>6, OneRun, Zenon

LEMMA GiveUpOK ==
  ASSUME ReportsOK, NEW r \in Report, GiveUp(r), last' = last,
         verify[r].at \in {"settle", "collect"}
  PROVE  ReportsOK'
<1>. DEFINE old == verify[r]
            v == [old EXCEPT !.at = "shadow", !.own = <<>>, !.expired = TRUE]
<1>1. old \in VerifyType /\ Counts(old) /\ verify' = [verify EXCEPT ![r] = v]
  BY Zenon DEF ReportsOK, VerifyType, GiveUp
<1>2. v \in VerifyType /\ v.at = "shadow" /\ v.cases = old.cases /\ v.expired
  <2>1. <<>> \in Seq(Task)
    OBVIOUS
  <2>2. v \in VerifyType
    BY <1>1, <2>1, Zenon DEF VerifyType
  <2>3. v.at = "shadow" /\ v.cases = old.cases
    BY <1>1 DEF VerifyType
  <2>4. v.expired = TRUE
    BY <1>1 DEF VerifyType
  <2>. QED  BY <2>2, <2>3, <2>4
<1>3. old.cases = ConnCases + 2
  BY <1>1 DEF Counts
<1>. HIDE DEF v, old
<1>4. Counts(v)
  BY <1>2, <1>3 DEF Counts
<1>. QED  BY <1>1, <1>2, <1>4, OneRun, Zenon

LEMMA LaunchForOK ==
  ASSUME TasksOK, ReportsOK, NEW r \in Report, NEW t \in Task, NEW at,
         LaunchFor(r, t, at), UNCHANGED <<stop, early, last>>,
         \/ verify[r].at = "launch" /\ at = "wait"
         \/ verify[r].at = "iot" /\ at = "settle"
         \/ verify[r].at = "settle" /\ at = "answer"
  PROVE  TasksOK' /\ ReportsOK'
<1>. DEFINE old == verify[r]
            v == [old EXCEPT !.at = at, !.own = Append(@, t)]
<1>1. old \in VerifyType /\ Counts(old) /\ verify' = [verify EXCEPT ![r] = v]
  BY Zenon DEF ReportsOK, VerifyType, LaunchFor
<1>2. Append(old.own, t) \in Seq(Task)
  BY <1>1 DEF VerifyType
<1>3. /\ v \in VerifyType /\ v.at = at /\ v.left = old.left /\ v.cases = old.cases
  BY <1>1, <1>2, Zenon DEF VerifyType
<1>. HIDE DEF v, old
<1>4. Counts(v)
  BY <1>1, <1>3 DEF Counts, old
<1>5. TasksOK'
  BY LaunchOK DEF LaunchFor
<1>. QED  BY <1>1, <1>3, <1>4, <1>5, OneRun, Zenon

\* The run goes to its next place and nothing is recorded.
MovesTo(r, at) == verify' = [verify EXCEPT ![r].at = at]

LEMMA MoveOK ==
  ASSUME ReportsOK, NEW r \in Report, NEW at, MovesTo(r, at), last' \in {last, r},
         \/ verify[r].at = "answer" /\ at = "collect"
         \/ verify[r].at = "finish" /\ at = "stamped"
         \/ verify[r].at = "stamped" /\ at = "ended"
  PROVE  ReportsOK'
<1>. DEFINE old == verify[r]
            v == [old EXCEPT !.at = at]
<1>1. old \in VerifyType /\ Counts(old) /\ verify' = [verify EXCEPT ![r] = v]
  BY DEF ReportsOK, VerifyType, MovesTo
<1>2. v \in VerifyType /\ v.at = at /\ v.left = old.left /\ v.cases = old.cases /\ v.expired = old.expired
  BY <1>1 DEF VerifyType
<1>. HIDE DEF v, old
<1>3. Counts(v)
  BY <1>1, <1>2 DEF Counts, old
<1>. QED  BY <1>1, <1>2, <1>3, OneRun, Zenon

LEMMA VerifyRunOK ==
  ASSUME ReportsOK, NEW r \in Report, VerifyRun(r)
  PROVE  ReportsOK'
<1>. DEFINE old == verify[r]
            v == [old EXCEPT !.at = IF ConnCases = 0 THEN "iot" ELSE "launch", !.cases = 2]
<1>1. old \in VerifyType /\ Counts(old) /\ old.at = "none" /\ verify' = [verify EXCEPT ![r] = v]
  BY Zenon DEF ReportsOK, VerifyType, VerifyRun
<1>2. ConnCases \in Nat /\ old.left = ConnCases
  BY <1>1, AdminAssumption DEF Counts
<1>3. 2 \in 0 .. AllCases
  BY <1>2 DEF AllCases
<1>4. /\ v \in VerifyType /\ v.left = ConnCases /\ v.cases = 2
      /\ v.at = IF ConnCases = 0 THEN "iot" ELSE "launch"
  BY <1>1, <1>2, <1>3, Zenon DEF VerifyType
<1>. HIDE DEF v, old
<1>5. Counts(v)
  BY <1>2, <1>4 DEF Counts
<1>6. last' = r
  BY DEF VerifyRun
<1>. QED  BY <1>1, <1>4, <1>5, <1>6, OneRun, Zenon

LEMMA ConnNextOK ==
  ASSUME ReportsOK, NEW r \in Report, ConnNext(r)
  PROVE  ReportsOK'
<1>. DEFINE old == verify[r]
            v == [old EXCEPT !.left = @ - 1, !.at = IF old.left > 1 THEN "launch" ELSE "iot"]
<1>1. old \in VerifyType /\ Counts(old) /\ old.at = "next" /\ verify' = [verify EXCEPT ![r] = v]
  BY DEF ReportsOK, VerifyType, ConnNext
<1>2. /\ ConnCases \in Nat /\ old.left \in 1 .. ConnCases
      /\ old.cases = 3 + (ConnCases - old.left)
  BY <1>1, AdminAssumption DEF Counts, VerifyType
<1>3. old.left - 1 \in 0 .. ConnCases
  BY <1>2
<1>4. /\ v \in VerifyType /\ v.left = old.left - 1 /\ v.cases = old.cases
      /\ v.at = IF old.left > 1 THEN "launch" ELSE "iot"
  BY <1>1, <1>3, Zenon DEF VerifyType
<1>. HIDE DEF v, old
<1>5. Counts(v)
  BY <1>2, <1>4 DEF Counts
<1>6. last' = last
  BY DEF ConnNext
<1>. QED  BY <1>1, <1>4, <1>5, <1>6, OneRun, Zenon

LEMMA VerifyStepOK ==
  ASSUME TasksOK, ReportsOK, NEW r \in Report, VerifyStep(r)
  PROVE  TasksOK' /\ ReportsOK'
<1>0. ASSUME UNCHANGED <<task, stop, early>> PROVE TasksOK'
  BY <1>0 DEF TasksOK, Stops
<1>1. CASE ConnLaunch(r)
  <2>1. CASE \E t \in Task : LaunchFor(r, t, "wait")
    BY <1>1, <2>1, LaunchForOK DEF ConnLaunch
  <2>2. CASE Record(r, "next") /\ UNCHANGED task
    BY <1>0, <1>1, <2>2, RecordOK DEF ConnLaunch
  <2>. QED  BY <1>1, <2>1, <2>2 DEF ConnLaunch
<1>2. CASE ConnWait(r)
  <2>1. Record(r, "next") /\ last' = last /\ verify[r].at = "wait"
    BY <1>2 DEF ConnWait
  <2>2. TasksOK'
    BY <1>0, <1>2, KilledOK DEF ConnWait
  <2>. QED  BY <2>1, <2>2, RecordOK
<1>3. CASE ConnNext(r)
  BY <1>0, <1>3, ConnNextOK, Zenon DEF ConnNext
<1>4. CASE CmdLaunch(r)
  <2>1. CASE \E t \in Task : LaunchFor(r, t, "settle")
    BY <1>4, <2>1, LaunchForOK DEF CmdLaunch
  <2>2. CASE Record(r, "shadow") /\ UNCHANGED task
    BY <1>0, <1>4, <2>2, RecordOK DEF CmdLaunch
  <2>. QED  BY <1>4, <2>1, <2>2 DEF CmdLaunch
<1>5. CASE CmdSettle(r)
  <2>1. CASE \E t \in Task : LaunchFor(r, t, "answer")
    BY <1>5, <2>1, LaunchForOK DEF CmdSettle
  <2>2. CASE GiveUp(r) /\ UNCHANGED task
    BY <1>0, <1>5, <2>2, GiveUpOK DEF CmdSettle
  <2>. QED  BY <1>5, <2>1, <2>2 DEF CmdSettle
<1>6. CASE CmdAnswer(r)
  <2>1. CASE verify' = [verify EXCEPT ![r].at = "collect"] /\ UNCHANGED task
    <3>1. /\ UNCHANGED <<task, stop, early, last>> /\ verify[r].at = "answer"
          /\ MovesTo(r, "collect")
      BY <1>6, <2>1 DEF CmdAnswer, MovesTo
    <3>. QED  BY <1>0, <3>1, MoveOK
  <2>2. CASE Record(r, "shadow") /\ task' = Killed(verify[r].own[1])
    BY <1>6, <2>2, RecordOK, KilledOK DEF CmdAnswer
  <2>. QED  BY <1>6, <2>1, <2>2 DEF CmdAnswer
<1>7. CASE CmdCollect(r)
  <2>1. CASE Record(r, "shadow") /\ task' = Killed(verify[r].own[1])
    BY <1>7, <2>1, RecordOK, KilledOK DEF CmdCollect
  <2>2. CASE GiveUp(r) /\ UNCHANGED task
    BY <1>0, <1>7, <2>2, GiveUpOK DEF CmdCollect
  <2>. QED  BY <1>7, <2>1, <2>2 DEF CmdCollect
<1>8. CASE ShadowCase(r)
  BY <1>0, <1>8, RecordOK DEF ShadowCase
<1>9. CASE VerifyStamp(r)
  <2>1. /\ UNCHANGED <<task, stop, early, last>> /\ verify[r].at = "finish"
        /\ MovesTo(r, "stamped")
    BY <1>9 DEF VerifyStamp, MovesTo
  <2>. QED  BY <1>0, <2>1, MoveOK
<1>10. CASE VerifyPublish(r)
  <2>1. /\ UNCHANGED <<task, stop, early>> /\ last' = r /\ verify[r].at = "stamped"
        /\ MovesTo(r, "ended")
    BY <1>10 DEF VerifyPublish, MovesTo
  <2>. QED  BY <1>0, <2>1, MoveOK
<1>. QED
  BY <1>1, <1>2, <1>3, <1>4, <1>5, <1>6, <1>7, <1>8, <1>9, <1>10 DEF VerifyStep

LEMMA AdminStep == AdminInv /\ [AdminNext]_adminVars => AdminInv'
<1>. SUFFICES ASSUME TasksOK, ReportsOK, [AdminNext]_adminVars PROVE TasksOK' /\ ReportsOK'
  BY DEF AdminInv
<1>1. ASSUME UNCHANGED <<verify, last>> PROVE ReportsOK'
  BY <1>1 DEF ReportsOK
<1>2. ASSUME UNCHANGED <<task, stop, early>> PROVE TasksOK'
  BY <1>2 DEF TasksOK, Stops
<1>3. CASE UNCHANGED adminVars
  BY <1>1, <1>2, <1>3 DEF adminVars
<1>4. ASSUME NEW t \in Task,
             \/ TestStart(t) \/ RunStart(t) \/ ProcessExits(t) \/ RunEnd(t)
             \/ StopCheck(t) \/ StopKill(t) \/ StopRecord(t)
      PROVE  TasksOK' /\ ReportsOK'
  <2>1. UNCHANGED <<verify, last>>
    BY <1>4 DEF TestStart, RunStart, ProcessExits, RunEnd, StopCheck, StopKill, StopRecord
  <2>. QED  BY <1>1, <1>4, <2>1, TaskStep
<1>5. ASSUME NEW r \in Report, VerifyRun(r) PROVE TasksOK' /\ ReportsOK'
  BY <1>2, <1>5, VerifyRunOK, Zenon DEF VerifyRun
<1>6. ASSUME NEW r \in Report, VerifyStep(r) PROVE TasksOK' /\ ReportsOK'
  BY <1>6, VerifyStepOK
<1>. QED  BY <1>3, <1>4, <1>5, <1>6 DEF AdminNext

LEMMA AdminInvariant == AdminSpec => []AdminInv
BY AdminInitOK, AdminStep, PTL DEF AdminSpec

\* Every variable of the console keeps its type: a report never has more
\* results than there are cases, however often runVerify goes round.
THEOREM AdminTypeCorrect == AdminSpec => []AdminTypeOK
BY AdminInvariant, AdminHolds, PTL

\* A task whose stop was answered has no process left, unless the request
\* came in before the process was started (apiTestStop against runTask).
THEOREM StopIsFinal == AdminSpec => []StopKills
BY AdminInvariant, AdminHolds, PTL

\* A finished report has a result for every case, unless the context of the
\* run was over in the command loop (runVerify), whatever the number of cases
\* and of runs.
THEOREM ReportsComplete == AdminSpec => []ReportCoversAll
BY AdminInvariant, AdminHolds, PTL

-----------------------------------------------------------------------------
(* The local shadow: types *)

\* A shadow that is found or written is one (Touch, transition).
LEMMA ShadowTypes ==
  ASSUME TypeOK
  PROVE  /\ NoShadow \in Shadow
         /\ \A d \in Device : local[d] \in Shadow /\ Found(d) \in Shadow
         /\ \A s \in Shadow, to \in State : Changed(s, to) \in Shadow
<1>1. NoShadow \in Shadow /\ NewShadow \in Shadow
  BY DEF TypeOK, NoShadow, NewShadow, Shadow, State
<1>2. \A d \in Device : local[d] \in Shadow
  BY DEF TypeOK
<1>3. ASSUME NEW s \in Shadow, NEW to \in State PROVE Changed(s, to) \in Shadow
  BY DEF TypeOK, Changed, Shadow
<1>. QED  BY <1>1, <1>2, <1>3 DEF Found

LEMMA LocalTypeInit == Init => TypeOK
BY DEF Init, TypeOK, NoShadow, Shadow, State

LEMMA LocalTypeStep == TypeOK /\ [Next]_vars => TypeOK'
<1>. SUFFICES ASSUME TypeOK, [Next]_vars PROVE TypeOK'
  OBVIOUS
<1>. USE LocalConstantsAssumption, ShadowTypes
<1>1. ASSUME NEW d \in Device, Touch(d) PROVE TypeOK'
  BY <1>1 DEF TypeOK, Touch, Seen
<1>2. ASSUME NEW d \in Device, NEW s \in State, ReportState(d, s) PROVE TypeOK'
  BY <1>2 DEF TypeOK, ReportState, Seen
<1>3. ASSUME NEW d \in Device, TryPreoccupy(d) \/ MarkOffline(d) PROVE TypeOK'
  <2>1. "preoccupy" \in State /\ "offline" \in State
    BY DEF State
  <2>. QED  BY <1>3, <2>1 DEF TypeOK, TryPreoccupy, MarkOffline, Seen
<1>4. CASE Recover
  <2>1. "idle" \in State
    BY DEF State
  <2>. QED  BY <1>4, <2>1 DEF TypeOK, Recover
<1>5. CASE Tick
  BY <1>5 DEF TypeOK, Tick
<1>6. CASE UNCHANGED vars
  BY <1>6 DEF TypeOK, vars
<1>. QED  BY <1>1, <1>2, <1>3, <1>4, <1>5, <1>6 DEF Next

\* The maps of the manager and its clock always have their types.
THEOREM LocalTypeCorrect == Spec => []TypeOK
BY LocalTypeInit, LocalTypeStep, PTL DEF Spec

-----------------------------------------------------------------------------
(* The local shadow: what a step may do to one device *)

Untouched(d) == local'[d] = local[d]
Rewritten(d, to) == local'[d] = Changed(local[d], to)
Created(d) == /\ local[d] = NoShadow
              /\ \/ local'[d] = NewShadow
                 \/ \E s \in State : /\ legalReport("idle", s) /\ s # "idle"
                                     /\ local'[d] = Changed(NewShadow, s)

\* Every step leaves a device alone, creates its shadow, has its pile report,
\* or is one of the other three writes, of which only the scan leads to idle.
LEMMA LocalStepEffect ==
  ASSUME TypeOK, [Next]_vars, NEW e \in Device
  PROVE  \/ Untouched(e) \/ Created(e)
         \/ \E s \in State : /\ ReportState(e, s) /\ Rewritten(e, s)
                             /\ legalReport(local[e].state, s)
         \/ Preoccupiable(local[e].state) /\ Rewritten(e, "preoccupy")
         \/ Rewritten(e, "offline")
         \/ Overdue(e) /\ Rewritten(e, "idle")
<1>1. ASSUME NEW d \in Device, Touch(d) PROVE Untouched(e) \/ Created(e)
  BY <1>1 DEF TypeOK, Touch, Found, Exists, Untouched, Created
<1>2. ASSUME NEW d \in Device, NEW s \in State, ReportState(d, s)
      PROVE  \/ Untouched(e) \/ Created(e)
             \/ ReportState(e, s) /\ Rewritten(e, s) /\ legalReport(local[e].state, s)
  <2>1. CASE e = d
    <3>1. local'[e] = IF s # Found(e).state /\ legalReport(Found(e).state, s)
                        THEN Changed(Found(e), s) ELSE Found(e)
      BY <1>2, <2>1 DEF TypeOK, ReportState
    <3>2. CASE Exists(e)
      BY <1>2, <2>1, <3>1, <3>2 DEF Found, Untouched, Rewritten
    <3>3. CASE ~Exists(e)
      <4>1. local[e] = NoShadow /\ Found(e) = NewShadow /\ NewShadow.state = "idle"
        BY <3>3 DEF Exists, Found, NewShadow
      <4>. QED  BY <3>1, <4>1 DEF Created
    <3>. QED  BY <3>2, <3>3
  <2>2. CASE e # d
    BY <1>2, <2>2 DEF TypeOK, ReportState, Untouched
  <2>. QED  BY <2>1, <2>2
<1>3. ASSUME NEW d \in Device, TryPreoccupy(d)
      PROVE  Untouched(e) \/ (Preoccupiable(local[e].state) /\ Rewritten(e, "preoccupy"))
  BY <1>3 DEF TypeOK, TryPreoccupy, Untouched, Rewritten
<1>4. ASSUME NEW d \in Device, MarkOffline(d)
      PROVE  Untouched(e) \/ Rewritten(e, "offline")
  BY <1>4 DEF TypeOK, MarkOffline, Untouched, Rewritten
<1>5. ASSUME Recover PROVE Untouched(e) \/ (Overdue(e) /\ Rewritten(e, "idle"))
  BY <1>5 DEF Recover, Untouched, Rewritten
<1>6. ASSUME UNCHANGED local PROVE Untouched(e)
  BY <1>6 DEF Untouched
<1>. QED
  BY <1>1, <1>2, <1>3, <1>4, <1>5, <1>6 DEF Next, vars, Tick

-----------------------------------------------------------------------------
(* The local shadow: the lease *)

\* In local mode a preoccupation is a lease, for any number of devices: before
\* it is overdue, only the report of the pile itself takes it back to idle
\* (recoverExpiredPreoccupy judges and writes in one critical section).
THEOREM LeaseIsKept == Spec => LeaseKept
<1>. DEFINE Lease == \A d \in Device :
                       /\ local[d].state = "preoccupy" /\ local'[d].state = "idle"
                       /\ now <= local[d].updatedAt + PreoccupyTimeout
                       => ReportState(d, "idle")
<1>1. ASSUME TypeOK, [Next]_vars, NEW d \in Device,
             local[d].state = "preoccupy", local'[d].state = "idle",
             now <= local[d].updatedAt + PreoccupyTimeout
      PROVE  ReportState(d, "idle")
  <2>1. ~Untouched(d) /\ ~Created(d)
    BY <1>1 DEF Untouched, Created, NoShadow
  <2>2. ~Rewritten(d, "preoccupy") /\ ~Rewritten(d, "offline")
    BY <1>1 DEF Rewritten, Changed
  <2>3. ~Overdue(d)
    <3>1. local[d].updatedAt \in Nat /\ now \in Nat /\ PreoccupyTimeout \in Nat
      BY <1>1, LocalConstantsAssumption DEF TypeOK, Shadow
    <3>. QED  BY <1>1, <3>1 DEF Overdue
  <2>4. PICK s \in State : ReportState(d, s) /\ Rewritten(d, s)
    BY <1>1, <2>1, <2>2, <2>3, LocalStepEffect
  <2>5. s = "idle"
    BY <1>1, <2>4 DEF Rewritten, Changed
  <2>. QED  BY <2>4, <2>5
<1>2. TypeOK /\ [Next]_vars => [Lease]_vars
  BY <1>1
<1>. QED  BY <1>2, LocalTypeCorrect, PTL DEF Spec, LeaseKept

-----------------------------------------------------------------------------
(* The local shadow: the promise *)

\* The white list of local mode agrees with the Go table (legalReport,
\* tryPreoccupy, MarkOffline).
LEMMA LocalGuardsAgree ==
  ASSUME NEW cur \in State
  PROVE  /\ \A to \in State :
              legalReport(cur, to) => to = cur \/ CanTransition(cur, to)
         /\ Preoccupiable(cur) => CanTransition(cur, "preoccupy")
         /\ CanTransition(cur, "offline")
         /\ CanTransition("preoccupy", "idle")
BY DEF State, legalReport, Preoccupiable, CanTransition, transitions

LEMMA LocalStepPromise ==
  ASSUME TypeOK, [Next]_vars
  PROVE  Promise!Next
<1>1. TypeOK'
  BY LocalTypeStep
<1>2. /\ [d \in Device |-> local[d].state]' \in [Device -> State]
      /\ [d \in Device |-> local[d].version]' \in [Device -> Nat]
  BY <1>1 DEF TypeOK, Shadow
<1>3. ASSUME NEW d \in Device
      PROVE  \/ Promise!Keep(d) \/ Promise!Refresh(d) \/ Promise!Move(d)
             \/ Promise!Appear(d) \/ Promise!Forget(d)
  <2>1. CASE Untouched(d)
    BY <2>1 DEF Untouched, Promise!Keep
  <2>2. ASSUME NEW to, Rewritten(d, to),
               to = local[d].state \/ CanTransition(local[d].state, to)
        PROVE  Promise!Refresh(d) \/ Promise!Move(d)
    BY <2>2 DEF Rewritten, Changed, Promise!Refresh, Promise!Move, CanTransition,
                transitions, Promise!CanTransition, Promise!transitions
  <2>3. CASE Created(d)
    <3>1. local[d].state = "offline" /\ local[d].version = 0
      BY <2>3 DEF Created, NoShadow
    <3>2. \/ local'[d].state = "idle" /\ local'[d].version = 0
          \/ CanTransition("idle", local'[d].state) /\ local'[d].version = 1
      <4>1. "idle" \in State
        BY DEF State
      <4>2. \A to \in State : legalReport("idle", to) /\ to # "idle" => CanTransition("idle", to)
        BY <4>1, LocalGuardsAgree
      <4>3. /\ NewShadow.state = "idle" /\ NewShadow.version = 0
            /\ \A to : /\ Changed(NewShadow, to).state = to
                       /\ Changed(NewShadow, to).version = 1
        BY DEF NewShadow, Changed
      <4>. QED  BY <2>3, <4>2, <4>3 DEF Created
    <3>. QED  BY <3>1, <3>2 DEF Promise!Appear, CanTransition, transitions,
                                Promise!CanTransition, Promise!transitions
  <2>4. local[d].state \in State
    BY DEF TypeOK, Shadow
  <2>5. CASE Overdue(d) /\ Rewritten(d, "idle")
    BY <2>2, <2>4, <2>5, LocalGuardsAgree DEF Overdue
  <2>. QED  BY <2>1, <2>2, <2>3, <2>4, <2>5, LocalStepEffect, LocalGuardsAgree, Zenon
<1>. QED  BY <1>2, <1>3 DEF Promise!Next, Promise!State, State

\* The in-process maps implement the abstract shadow, for every set of
\* devices.
THEOREM LocalKeepsPromise == Spec => KeepsPromise
<1>1. Init => Promise!Init
  BY DEF Init, Promise!Init, NoShadow
<1>2. TypeOK /\ [Next]_vars => Promise!Next
  BY LocalStepPromise
<1>. QED  BY <1>1, <1>2, LocalTypeCorrect, PTL DEF Spec, KeepsPromise, Promise!Spec

-----------------------------------------------------------------------------
(* The IDs: arithmetic of the fields *)

LEMMA TimesOrder ==
  ASSUME NEW a \in Nat, NEW b \in Nat, NEW k \in Nat, a < b
  PROVE  a * k + k <= b * k
<1>1. PICK m \in Nat : b = a + 1 + m
  <2>. WITNESS b - a - 1 \in Nat
  <2>. QED  OBVIOUS
<1>2. b * k = a * k + k + m * k
  BY <1>1
<1>3. m * k \in Nat /\ a * k \in Nat
  OBVIOUS
<1>. QED  BY <1>2, <1>3

LEMMA TimesNat == ASSUME NEW a \in Nat, NEW b \in Nat PROVE a * b \in Nat
OBVIOUS

\* The node fills its ten bits at most.
LEMMA NodeField == NodeID % NodeSize \in 0 .. NodeSize - 1
BY SnowflakeAssumption

\* What follows the sequence number of a millisecond.
LEMMA NextSequence ==
  ASSUME NEW s \in 0 .. SeqSize - 1
  PROVE  /\ (s + 1) % SeqSize \in 0 .. SeqSize - 1
         /\ (s + 1) % SeqSize # 0 => (s + 1) % SeqSize = s + 1
BY SnowflakeAssumption

\* The fields of an ID are compared from left to right.
LEMMA PackOrder ==
  ASSUME NEW t \in Nat, t >= Epoch, NEW s \in 0 .. SeqSize - 1
  PROVE  /\ Pack(t, s) \in Nat
         /\ \A r \in 0 .. SeqSize - 1 : s < r => Pack(t, s) < Pack(t, r)
         /\ \A u \in Nat, r \in 0 .. SeqSize - 1 : t < u => Pack(t, s) < Pack(u, r)
<1>. DEFINE K == NodeSize * SeqSize
            N == (NodeID % NodeSize) * SeqSize
<1>1. SeqSize \in Nat /\ NodeSize \in Nat /\ Epoch \in Nat /\ K \in Nat
  BY SnowflakeAssumption, TimesNat
<1>2. N \in Nat /\ N + SeqSize <= K
  BY <1>1, NodeField, TimesOrder, TimesNat
<1>3. \A x \in Nat : x >= Epoch => (x - Epoch) * K \in Nat
  BY <1>1, TimesNat
<1>4. \A x, r : Pack(x, r) = (x - Epoch) * K + N + r
  BY DEF Pack
<1>5. ASSUME NEW u \in Nat, t < u
      PROVE  (t - Epoch) * K + K <= (u - Epoch) * K
  BY <1>1, <1>5, TimesOrder
<1>. HIDE DEF K, N
<1>. QED  BY <1>1, <1>2, <1>3, <1>4, <1>5

-----------------------------------------------------------------------------
(* The IDs: the invariant *)

\* IDs of this run are not beyond the generator; a caller that waits has
\* reset the sequence number already.  IDs of earlier runs are behind the
\* clock, unless it was set back.
IdInv ==
  /\ millis >= Epoch
  /\ idgen.last = 0 \/ idgen.last >= Epoch
  /\ idWaits => idgen.last >= Epoch
  /\ setBacks = 0 => idgen.last <= millis
  /\ \A i \in DOMAIN issued :
       /\ issued[i].run <= idRun
       /\ issued[i].run = idRun =>
            /\ idgen.last >= Epoch
            /\ issued[i].id <= Pack(idgen.last, IF idWaits THEN SeqSize - 1 ELSE idgen.seq)
       /\ issued[i].run # idRun /\ setBacks = 0 => issued[i].id < Pack(millis, 0)

LEMMA IdInitOK == IdInit => IdTypeOK /\ IdInv /\ IdsIncrease
<1>. SUFFICES ASSUME IdInit PROVE IdTypeOK /\ IdInv /\ IdsIncrease
  OBVIOUS
<1>1. issued = <<>> /\ issued \in Seq(IssuedID) /\ DOMAIN issued = {}
  BY DEF IdInit
<1>2. IdTypeOK
  <2>1. idWaits \in BOOLEAN
    BY Zenon DEF IdInit
  <2>2. idgen \in [last : Nat, seq : 0 .. SeqSize - 1]
    BY SnowflakeAssumption DEF IdInit, NewGenerator
  <2>. QED  BY <1>1, <2>1, <2>2, SnowflakeAssumption DEF IdInit, IdTypeOK
<1>3. IdInv
  BY <1>1, SnowflakeAssumption DEF IdInit, IdInv, NewGenerator
<1>4. IdsIncrease
  BY <1>1 DEF IdsIncrease
<1>. QED  BY <1>2, <1>3, <1>4

\* An ID beyond all the earlier ones of its run.
LEMMA IssueOK ==
  ASSUME IdTypeOK, IdInv, IdsIncrease,
         NEW t \in Nat, NEW s \in 0 .. SeqSize - 1, Issue(t, s), t >= millis,
         setBacks = 0 => t = millis,
         \A i \in DOMAIN issued : issued[i].run = idRun => issued[i].id < Pack(t, s),
         idWaits' = FALSE, UNCHANGED <<millis, setBacks, idRun>>
  PROVE  IdTypeOK' /\ IdInv' /\ IdsIncrease'
<1>. DEFINE new == [id |-> Pack(t, s), run |-> idRun]
<1>1. t >= Epoch /\ Epoch \in Nat /\ millis \in Nat /\ SeqSize \in Nat /\ 0 \in 0 .. SeqSize - 1
  BY SnowflakeAssumption DEF IdTypeOK, IdInv
<1>2. Pack(t, s) \in Nat /\ Pack(millis, 0) \in Nat
  BY <1>1, PackOrder DEF IdInv
<1>3. issued' = Append(issued, new) /\ idgen' = [last |-> t, seq |-> s]
  BY DEF Issue
<1>4. issued \in Seq(IssuedID) /\ new \in IssuedID
  BY <1>2 DEF IdTypeOK, IssuedID
<1>5. /\ issued' \in Seq(IssuedID)
      /\ DOMAIN issued = 1 .. Len(issued) /\ Len(issued) \in Nat
      /\ DOMAIN issued' = 1 .. (Len(issued) + 1)
      /\ issued'[Len(issued) + 1] = new
      /\ \A i \in DOMAIN issued : issued'[i] = issued[i] /\ issued[i] \in IssuedID
  BY <1>3, <1>4
<1>. HIDE DEF new
<1>6. new.id = Pack(t, s) /\ new.run = idRun /\ \A i \in DOMAIN issued : issued[i].id \in Nat
  BY <1>5 DEF new, IssuedID
<1>7. IdTypeOK'
  <2>1. idWaits' \in BOOLEAN
    BY Zenon
  <2>. QED  BY <1>1, <1>3, <1>5, <2>1 DEF IdTypeOK
<1>8. \A i \in DOMAIN issued :
        issued[i].run = idRun \/ setBacks = 0 => issued[i].id < Pack(t, s)
  <2>. SUFFICES ASSUME NEW i \in DOMAIN issued, issued[i].run # idRun, setBacks = 0
                PROVE  issued[i].id < Pack(t, s)
    OBVIOUS
  <2>1. issued[i].id < Pack(millis, 0) /\ t = millis
    BY DEF IdInv
  <2>2. Pack(millis, 0) <= Pack(millis, s)
    BY <1>1, <2>1, PackOrder
  <2>. QED  BY <1>2, <1>6, <2>1, <2>2
<1>9. IdInv'
  <2>. SUFFICES ASSUME NEW i \in DOMAIN issued'
                PROVE  /\ issued'[i].run <= idRun
                       /\ issued'[i].run = idRun => issued'[i].id <= Pack(t, s)
                       /\ issued'[i].run # idRun /\ setBacks = 0 =>
                            issued'[i].id < Pack(millis, 0)
    BY <1>1, <1>3, Zenon DEF IdInv, IdTypeOK
  <2>1. CASE i = Len(issued) + 1
    <3>1. idRun \in Nat
      BY DEF IdTypeOK
    <3>2. issued'[i].id = Pack(t, s) /\ issued'[i].run = idRun
      BY <1>5, <1>6, <2>1
    <3>. QED  BY <1>2, <3>1, <3>2
  <2>2. CASE i \in DOMAIN issued
    BY <1>2, <1>5, <1>6, <1>8, <2>2 DEF IdInv
  <2>. QED  BY <1>5, <2>1, <2>2
<1>10. IdsIncrease'
  <2>. SUFFICES ASSUME NEW i \in DOMAIN issued', NEW j \in DOMAIN issued', i < j,
                       issued'[i].run = issued'[j].run \/ setBacks = 0
                PROVE  issued'[i].id < issued'[j].id
    BY DEF IdsIncrease
  <2>1. i \in DOMAIN issued
    BY <1>5
  <2>2. CASE j = Len(issued) + 1
    BY <1>5, <1>6, <1>8, <2>1, <2>2
  <2>3. CASE j \in DOMAIN issued
    BY <1>5, <2>1, <2>3 DEF IdsIncrease
  <2>. QED  BY <1>5, <2>2, <2>3
<1>. QED  BY <1>7, <1>9, <1>10

\* The IDs of this run are behind a later millisecond, and behind a later
\* sequence number of the same.
LEMMA RunIsBehind ==
  ASSUME IdTypeOK, IdInv, NEW t \in Nat, NEW s \in 0 .. SeqSize - 1,
         t > idgen.last \/ (t = idgen.last /\ s > idgen.seq /\ ~idWaits)
  PROVE  \A i \in DOMAIN issued : issued[i].run = idRun => issued[i].id < Pack(t, s)
<1>. SUFFICES ASSUME NEW i \in DOMAIN issued, issued[i].run = idRun
              PROVE  issued[i].id < Pack(t, s)
  OBVIOUS
<1>. DEFINE r == IF idWaits THEN SeqSize - 1 ELSE idgen.seq
<1>1. /\ r \in 0 .. SeqSize - 1 /\ idgen.last \in Nat /\ idgen.last >= Epoch
      /\ issued[i].id <= Pack(idgen.last, r) /\ Epoch \in Nat
  BY SnowflakeAssumption DEF IdTypeOK, IdInv
<1>2. idWaits \/ r = idgen.seq
  OBVIOUS
<1>. HIDE DEF r
<1>3. Pack(idgen.last, r) < Pack(t, s)
  BY <1>1, <1>2, PackOrder
<1>4. Pack(idgen.last, r) \in Nat /\ Pack(t, s) \in Nat
  <2>1. t >= Epoch
    BY <1>1
  <2>. QED  BY <1>1, <2>1, PackOrder
<1>5. issued[i] \in IssuedID
  BY DEF IdTypeOK
<1>6. issued[i].id \in Nat
  BY <1>5 DEF IssuedID
<1>. QED  BY <1>1, <1>3, <1>4, <1>6

-----------------------------------------------------------------------------
(* The IDs: the steps *)

LEMMA GenerateOK ==
  ASSUME IdTypeOK, IdInv, IdsIncrease, Generate
  PROVE  IdTypeOK' /\ IdInv' /\ IdsIncrease'
<1>. DEFINE t == ReadClock
            s == IF t = idgen.last THEN (idgen.seq + 1) % SeqSize ELSE 0
<1>1. /\ millis \in Nat /\ Epoch \in Nat /\ millis >= Epoch /\ Epoch > 0 /\ SeqSize \in Nat \ {0}
      /\ idgen.last \in Nat /\ idgen.seq \in 0 .. SeqSize - 1
      /\ idgen = [last |-> idgen.last, seq |-> idgen.seq]
  BY SnowflakeAssumption DEF IdTypeOK, IdInv
<1>2. t \in Nat /\ t >= millis /\ t >= idgen.last /\ (setBacks = 0 => t = millis)
  BY <1>1 DEF ReadClock, IdInv
<1>3. s \in 0 .. SeqSize - 1 /\ (t = idgen.last /\ s # 0 => s > idgen.seq)
  BY <1>1, NextSequence
<1>4. ~idWaits /\ UNCHANGED <<millis, setBacks, idRun>>
  BY DEF Generate
<1>5. \/ /\ t # idgen.last \/ s # 0
         /\ Issue(t, s)
         /\ UNCHANGED idWaits
      \/ /\ t = idgen.last /\ s = 0
         /\ idgen' = [idgen EXCEPT !.seq = 0]
         /\ idWaits' = TRUE
         /\ UNCHANGED issued
  BY DEF Generate
<1>. HIDE DEF t, s
<1>6. CASE Issue(t, s) /\ UNCHANGED idWaits /\ (t # idgen.last \/ s # 0)
  <2>1. t > idgen.last \/ (t = idgen.last /\ s > idgen.seq /\ ~idWaits)
    BY <1>1, <1>2, <1>3, <1>4, <1>6
  <2>2. idWaits' = FALSE
    BY <1>4, <1>6 DEF IdTypeOK
  <2>3. \A i \in DOMAIN issued : issued[i].run = idRun => issued[i].id < Pack(t, s)
    BY <1>2, <1>3, <2>1, RunIsBehind
  <2>. QED  BY <1>2, <1>3, <1>4, <1>6, <2>2, <2>3, IssueOK, Zenon
<1>7. CASE /\ t = idgen.last /\ idgen' = [idgen EXCEPT !.seq = 0]
           /\ idWaits' = TRUE /\ UNCHANGED issued
  <2>1. /\ idgen' = [last |-> idgen.last, seq |-> 0] /\ 0 \in 0 .. SeqSize - 1
        /\ idgen.last >= Epoch
    BY <1>1, <1>2, <1>7
  <2>2. IdTypeOK'
    <3>1. idWaits' \in BOOLEAN
      BY <1>7
    <3>. QED  BY <1>1, <1>4, <1>7, <2>1, <3>1 DEF IdTypeOK
  <2>3. Pack(idgen.last, idgen.seq) <= Pack(idgen.last, SeqSize - 1)
    <3>. DEFINE top == SeqSize - 1
    <3>1. top \in 0 .. SeqSize - 1 /\ (idgen.seq = top \/ idgen.seq < top)
      BY <1>1
    <3>. HIDE DEF top
    <3>2. Pack(idgen.last, idgen.seq) <= Pack(idgen.last, top)
      BY <1>1, <2>1, <3>1, PackOrder
    <3>. QED  BY <3>2 DEF top
  <2>4. ASSUME NEW i \in DOMAIN issued, issued[i].run = idRun
        PROVE  issued[i].id <= Pack(idgen.last, SeqSize - 1)
    <3>1. issued[i].id <= Pack(idgen.last, idgen.seq)
      BY <1>4, <2>4 DEF IdInv
    <3>2. issued[i] \in IssuedID
      BY DEF IdTypeOK
    <3>3. issued[i].id \in Nat
      BY <3>2 DEF IssuedID
    <3>4. Pack(idgen.last, idgen.seq) \in Nat /\ Pack(idgen.last, SeqSize - 1) \in Nat
      BY <1>1, <2>1, PackOrder
    <3>. QED  BY <2>3, <3>1, <3>3, <3>4
  <2>5. IdInv'
    BY <1>1, <1>4, <1>7, <2>1, <2>4 DEF IdInv
  <2>. QED  BY <1>4, <1>7, <2>2, <2>5 DEF IdsIncrease
<1>. QED  BY <1>5, <1>6, <1>7, Zenon

LEMMA GenerateWakesOK ==
  ASSUME IdTypeOK, IdInv, IdsIncrease, GenerateWakes
  PROVE  IdTypeOK' /\ IdInv' /\ IdsIncrease'
<1>1. /\ millis \in Nat /\ idgen.seq \in 0 .. SeqSize - 1 /\ idgen.last \in Nat
      /\ millis > idgen.last
  BY DEF IdTypeOK, GenerateWakes
<1>2. Issue(millis, idgen.seq) /\ idWaits' = FALSE /\ UNCHANGED <<millis, setBacks, idRun>>
  BY DEF GenerateWakes
<1>3. \A i \in DOMAIN issued :
        issued[i].run = idRun => issued[i].id < Pack(millis, idgen.seq)
  BY <1>1, RunIsBehind
<1>4. millis >= millis /\ (setBacks = 0 => millis = millis)
  BY <1>1
<1>. QED  BY <1>1, <1>2, <1>3, <1>4, IssueOK, Zenon

LEMMA ClockTicksOK ==
  ASSUME IdTypeOK, IdInv, IdsIncrease, ClockTicks
  PROVE  IdTypeOK' /\ IdInv' /\ IdsIncrease'
<1>1. /\ millis \in Nat /\ millis' = millis + 1 /\ millis >= Epoch
      /\ Epoch \in Nat /\ 0 \in 0 .. SeqSize - 1
      /\ UNCHANGED <<idgen, idWaits, issued, setBacks, idRun>>
  BY SnowflakeAssumption DEF IdTypeOK, IdInv, ClockTicks
<1>2. /\ Pack(millis, 0) \in Nat /\ Pack(millis', 0) \in Nat
      /\ Pack(millis, 0) < Pack(millis', 0)
  BY <1>1, PackOrder
<1>3. IdTypeOK'
  BY <1>1 DEF IdTypeOK
<1>4. ASSUME NEW i \in DOMAIN issued, issued[i].id < Pack(millis, 0)
      PROVE  issued[i].id < Pack(millis', 0)
  <2>1. issued[i] \in IssuedID
    BY DEF IdTypeOK
  <2>2. issued[i].id \in Nat
    BY <2>1 DEF IssuedID
  <2>. QED  BY <1>2, <1>4, <2>2
<1>5. IdInv'
  <2>1. millis' >= Epoch /\ (setBacks' = 0 => idgen'.last <= millis')
    BY <1>1 DEF IdInv, IdTypeOK
  <2>. QED  BY <1>1, <1>4, <2>1 DEF IdInv
<1>. QED  BY <1>1, <1>3, <1>5 DEF IdsIncrease

LEMMA ClockSetBackOK ==
  ASSUME IdTypeOK, IdInv, IdsIncrease, ClockSetBack
  PROVE  IdTypeOK' /\ IdInv' /\ IdsIncrease'
<1>1. /\ millis' \in Nat /\ millis' >= Epoch
      /\ setBacks' \in Nat /\ setBacks' # 0
      /\ UNCHANGED <<idgen, idWaits, issued, idRun>>
  BY SnowflakeAssumption DEF IdTypeOK, ClockSetBack
<1>2. IdTypeOK'
  BY <1>1 DEF IdTypeOK
<1>3. IdInv'
  BY <1>1 DEF IdInv
<1>. QED  BY <1>1, <1>2, <1>3 DEF IdsIncrease

\* A restart makes the IDs of the run IDs of an earlier one.
LEMMA RestartOK ==
  ASSUME IdTypeOK, IdInv, IdsIncrease, Restart
  PROVE  IdTypeOK' /\ IdInv' /\ IdsIncrease'
<1>1. /\ millis \in Nat /\ millis' = millis + 1 /\ millis >= Epoch
      /\ idRun \in Nat /\ idRun' = idRun + 1 /\ idgen.last \in Nat
      /\ idgen' = [last |-> 0, seq |-> 0] /\ idWaits' = FALSE
      /\ Epoch \in Nat /\ 0 \in 0 .. SeqSize - 1
      /\ UNCHANGED <<issued, setBacks>>
  BY SnowflakeAssumption DEF IdTypeOK, IdInv, Restart, NewGenerator
<1>2. IdTypeOK'
  <2>1. idWaits' \in BOOLEAN
    BY <1>1, Zenon
  <2>. QED  BY <1>1, <2>1 DEF IdTypeOK
<1>3. ASSUME NEW i \in DOMAIN issued, setBacks = 0
      PROVE  issued[i].id < Pack(millis', 0)
  <2>1. CASE issued[i].run = idRun
    <3>1. millis' \in Nat /\ millis' > idgen.last
      BY <1>1, <1>3 DEF IdInv
    <3>. QED  BY <1>1, <2>1, <3>1, RunIsBehind
  <2>2. CASE issued[i].run # idRun
    <3>1. issued[i].id < Pack(millis, 0)
      BY <1>3, <2>2 DEF IdInv
    <3>2. /\ Pack(millis, 0) \in Nat /\ Pack(millis', 0) \in Nat
          /\ Pack(millis, 0) < Pack(millis', 0)
      BY <1>1, PackOrder
    <3>3. issued[i] \in IssuedID
      BY DEF IdTypeOK
    <3>4. issued[i].id \in Nat
      BY <3>3 DEF IssuedID
    <3>. QED  BY <3>1, <3>2, <3>4
  <2>. QED  BY <2>1, <2>2
<1>4. \A i \in DOMAIN issued : issued[i].run <= idRun' /\ issued[i].run # idRun'
  <2>. SUFFICES ASSUME NEW i \in DOMAIN issued
                PROVE  issued[i].run <= idRun' /\ issued[i].run # idRun'
    OBVIOUS
  <2>1. issued[i] \in IssuedID /\ issued[i].run <= idRun
    BY DEF IdTypeOK, IdInv
  <2>2. issued[i].run \in Nat
    BY <2>1 DEF IssuedID
  <2>. QED  BY <1>1, <2>1, <2>2
<1>5. IdInv'
  BY <1>1, <1>3, <1>4, SMTT(30) DEF IdInv
<1>. QED  BY <1>1, <1>2, <1>5 DEF IdsIncrease

LEMMA IdStep == IdTypeOK /\ IdInv /\ IdsIncrease /\ [IdNext]_idVars =>
                  IdTypeOK' /\ IdInv' /\ IdsIncrease'
<1>. SUFFICES ASSUME IdTypeOK, IdInv, IdsIncrease, [IdNext]_idVars
              PROVE  IdTypeOK' /\ IdInv' /\ IdsIncrease'
  OBVIOUS
<1>1. CASE UNCHANGED idVars
  <2>1. IdTypeOK'
    BY <1>1 DEF idVars, IdTypeOK
  <2>2. IdInv'
    BY <1>1 DEF idVars, IdInv
  <2>. QED  BY <1>1, <2>1, <2>2 DEF idVars, IdsIncrease
<1>. QED
  BY <1>1, GenerateOK, GenerateWakesOK, ClockTicksOK, ClockSetBackOK, RestartOK DEF IdNext

-----------------------------------------------------------------------------
\* The generator's variables always have their types; the sequence number
\* never leaves its field.
THEOREM IdTypeCorrect == IdSpec => []IdTypeOK
BY IdInitOK, IdStep, PTL DEF IdSpec

\* No ID is issued twice and each is larger than the ones before it, within a
\* run whatever the clock does and across restarts while the clock was never
\* set back (SnowflakeGenerator.Generate, waitNextMillis), for every size of
\* the fields.
THEOREM IdsAlwaysIncrease == IdSpec => []IdsIncrease
BY IdInitOK, IdStep, PTL DEF IdSpec
=============================================================================
