---------------------------- MODULE AdminTasks ----------------------------
(***************************************************************************)
(* The test tasks and the acceptance run of the admin console              *)
(* (internal/gateway/admin/admin.go).                                      *)
(*                                                                         *)
(* A task is a child process with a goroutine, runTask, that starts it,    *)
(* reads its output and records how it ended.  An operator may stop a task *)
(* by a request of its own, whose check, kill and record are three         *)
(* separate steps.  The acceptance run (runVerify) is another goroutine:   *)
(* it launches tasks one case after the other, waits for them with a       *)
(* deadline, and gives up on what is left when its own context of eight    *)
(* minutes is over.  The three connection cases have one shape and are     *)
(* ConnCases repetitions of it.  The numbers a child process prints decide *)
(* whether a case passes and are left out, as are the ways a task can end  *)
(* and the list of ended tasks; what counts here is whether a case is      *)
(* recorded at all.  Task IDs are taken to be distinct.                    *)
(***************************************************************************)
EXTENDS Naturals, Sequences, FiniteSets

CONSTANTS
  Task,       \* tasks that may be launched
  Report,     \* acceptance runs
  ConnCases,  \* connection cases of an acceptance run (3)
  NoReport

ASSUME AdminAssumption ==
  /\ ConnCases \in Nat
  /\ NoReport \notin Report

VARIABLES
  task,     \* task[t]: its status, its process and its runTask
  stop,     \* stop[t]: where apiTestStop of t is
  early,    \* history: tasks whose stop found no process to kill
  verify,   \* verify[r]: where runVerify of r is
  last      \* the report the console shows

adminVars == <<task, stop, early, verify, last>>

\* The cases of a report: health, Redis, the connections, the command loop,
\* the shadow.
AllCases == ConnCases + 4

-----------------------------------------------------------------------------
NewTask == [status |-> "none", proc |-> "none", run |-> "none"]

NewVerify ==
  [at |-> "none", left |-> ConnCases, own |-> <<>>, cases |-> 0, expired |-> FALSE]

AdminInit ==
  /\ task = [t \in Task |-> NewTask]
  /\ stop = [t \in Task |-> "none"]
  /\ early = {}
  /\ verify = [r \in Report |-> NewVerify]
  /\ last = NoReport

\* Tasks are launched in a fixed order.
Launchable(t) ==
  /\ task[t].status = "none"
  /\ t = CHOOSE u \in Task : task[u].status = "none"

Launch(t) ==
  task' = [task EXCEPT ![t] = [status |-> "running", proc |-> "none",
                               run |-> "starting"]]

\* finishTask: the task has ended, whatever its status was.  The history list
\* it is put at the head of is only displayed.
FinishTask(t, run) == task' = [task EXCEPT ![t].status = "ended", ![t].run = run]

\* Process.Kill, when there is a process.
Killed(t) ==
  [task EXCEPT ![t].proc = IF @ = "alive" THEN "exited" ELSE @]

-----------------------------------------------------------------------------
(* A task *)

\* apiTestStart.
TestStart(t) ==
  /\ Launchable(t)
  /\ Launch(t)
  /\ UNCHANGED <<stop, early, verify, last>>

\* runTask up to cmd.Start, which may fail.
RunStart(t) ==
  /\ task[t].run = "starting"
  /\ \/ task' = [task EXCEPT ![t].proc = "alive", ![t].run = "reading"]
     \/ FinishTask(t, "ended")
  /\ UNCHANGED <<stop, early, verify, last>>

\* The child process ends by itself (external).
ProcessExits(t) ==
  /\ task[t].proc = "alive"
  /\ task' = [task EXCEPT ![t].proc = "exited"]
  /\ UNCHANGED <<stop, early, verify, last>>

\* runTask after the last line of output.
RunEnd(t) ==
  /\ task[t].run = "reading"
  /\ task[t].proc = "exited"
  /\ FinishTask(t, "ended")
  /\ UNCHANGED <<stop, early, verify, last>>

-----------------------------------------------------------------------------
(* apiTestStop; one request per task at a time *)

StopCheck(t) ==
  /\ stop[t] = "none"
  /\ task[t].status = "running"
  /\ stop' = [stop EXCEPT ![t] = "kill"]
  /\ UNCHANGED <<task, early, verify, last>>

\* Mutant: the process is not killed.
StopWithoutKill(t) ==
  /\ stop[t] = "kill"
  /\ early' = IF task[t].proc = "none" THEN early \cup {t} ELSE early
  /\ stop' = [stop EXCEPT ![t] = "record"]
  /\ UNCHANGED <<task, verify, last>>

StopKill(t) ==
  /\ stop[t] = "kill"
  /\ task' = Killed(t)
  /\ early' = IF task[t].proc = "none" THEN early \cup {t} ELSE early
  /\ stop' = [stop EXCEPT ![t] = "record"]
  /\ UNCHANGED <<verify, last>>

StopRecord(t) ==
  /\ stop[t] = "record"
  /\ FinishTask(t, task[t].run)
  /\ stop' = [stop EXCEPT ![t] = "returned"]
  /\ UNCHANGED <<early, verify, last>>

-----------------------------------------------------------------------------
(* The acceptance run *)

\* FinishedAt is set.
Finished(r) == verify[r].at \in {"stamped", "ended"}

Running(r) == verify[r].at # "none" /\ ~Finished(r)

\* apiVerifyRun looks at the report shown last, and at nothing else.
MayVerify == last # NoReport => Finished(last)

\* apiVerifyRun, and the health and Redis cases of runVerify.
VerifyRun(r) ==
  /\ verify[r].at = "none"
  /\ r = CHOOSE q \in Report : verify[q].at = "none"
  /\ MayVerify
  /\ last' = r
  /\ verify' = [verify EXCEPT ![r].at = IF ConnCases = 0 THEN "iot" ELSE "launch",
                              ![r].cases = 2]
  /\ UNCHANGED <<task, stop, early>>

\* add: one more case, and where the run goes on.
Record(r, at) ==
  verify' = [verify EXCEPT ![r].at = at, ![r].own = <<>>, ![r].cases = @ + 1]

\* The run goes on at the next case without having recorded this one.
GiveUp(r) ==
  verify' = [verify EXCEPT ![r].at = "shadow", ![r].own = <<>>, ![r].expired = TRUE]

\* launchForVerify.
LaunchFor(r, t, at) ==
  /\ Launchable(t)
  /\ Launch(t)
  /\ verify' = [verify EXCEPT ![r].at = at, ![r].own = Append(@, t)]

\* verifyCend, verifyIoT: the load generator is launched, unless there is
\* none.
ConnLaunch(r) ==
  /\ verify[r].at = "launch"
  /\ \/ \E t \in Task : LaunchFor(r, t, "wait")
     \/ Record(r, "next") /\ UNCHANGED task
  /\ UNCHANGED <<stop, early, last>>

\* waitTask returns the numbers of a task that ended, whichever way, and
\* nothing if it is still running at the deadline.
TaskEnded(t) == task[t].status # "running"

ConnWait(r) ==
  /\ verify[r].at = "wait"
  /\ LET t == verify[r].own[1]
     IN \/ /\ TaskEnded(t)
           /\ Record(r, "next")
           /\ UNCHANGED task
        \/ /\ ~TaskEnded(t)
           /\ Record(r, "next")
           /\ task' = Killed(t)
  /\ UNCHANGED <<stop, early, last>>

\* Mutant: the loop over the connection cases goes round once too often.
ConnNextOnceMore(r) ==
  /\ verify[r].at = "next"
  /\ verify' = [verify EXCEPT ![r].left = @ - 1,
                              ![r].at = IF verify[r].left >= 1 THEN "launch" ELSE "iot"]
  /\ UNCHANGED <<task, stop, early, last>>

ConnNext(r) ==
  /\ verify[r].at = "next"
  /\ verify' = [verify EXCEPT ![r].left = @ - 1,
                              ![r].at = IF verify[r].left > 1 THEN "launch" ELSE "iot"]
  /\ UNCHANGED <<task, stop, early, last>>

\* verifyCmdLoop: the simulated piles.  Their keys in Redis are deleted first;
\* nothing here depends on them.
CmdLaunch(r) ==
  /\ verify[r].at = "iot"
  /\ \/ \E t \in Task : LaunchFor(r, t, "settle")
     \/ Record(r, "shadow") /\ UNCHANGED task
  /\ UNCHANGED <<stop, early, last>>

\* 25 seconds later the users are launched, unless the context is over.
CmdSettle(r) ==
  /\ verify[r].at = "settle"
  /\ \/ \E t \in Task : LaunchFor(r, t, "answer")
     \/ GiveUp(r) /\ UNCHANGED task
  /\ UNCHANGED <<stop, early, last>>

\* Mutant: the wait for the users has no deadline.
CmdAnswerWaits(r) ==
  /\ verify[r].at = "answer"
  /\ TaskEnded(verify[r].own[2])
  /\ verify' = [verify EXCEPT ![r].at = "collect"]
  /\ UNCHANGED <<task, stop, early, last>>

\* Mutant: the case is not recorded when the users take too long.
CmdAnswerUnrecorded(r) ==
  /\ verify[r].at = "answer"
  /\ \/ /\ TaskEnded(verify[r].own[2])
        /\ verify' = [verify EXCEPT ![r].at = "collect"]
        /\ UNCHANGED task
     \/ /\ ~TaskEnded(verify[r].own[2])
        /\ verify' = [verify EXCEPT ![r].at = "shadow", ![r].own = <<>>]
        /\ task' = Killed(verify[r].own[1])
  /\ UNCHANGED <<stop, early, last>>

\* When the users take too long the piles are killed, the users are not.
CmdAnswer(r) ==
  /\ verify[r].at = "answer"
  /\ \/ /\ TaskEnded(verify[r].own[2])
        /\ verify' = [verify EXCEPT ![r].at = "collect"]
        /\ UNCHANGED task
     \/ /\ ~TaskEnded(verify[r].own[2])
        /\ Record(r, "shadow")
        /\ task' = Killed(verify[r].own[1])
  /\ UNCHANGED <<stop, early, last>>

\* Another 15 seconds; a context that is over leaves the piles running.
CmdCollect(r) ==
  /\ verify[r].at = "collect"
  /\ \/ /\ Record(r, "shadow")
        /\ task' = Killed(verify[r].own[1])
     \/ GiveUp(r) /\ UNCHANGED task
  /\ UNCHANGED <<stop, early, last>>

\* verifyShadow.
ShadowCase(r) ==
  /\ verify[r].at = "shadow"
  /\ Record(r, "finish")
  /\ UNCHANGED <<task, stop, early, last>>

\* FinishedAt is written without the mutex that apiVerifyRun reads it under;
\* only then is the report put back.
VerifyStamp(r) ==
  /\ verify[r].at = "finish"
  /\ verify' = [verify EXCEPT ![r].at = "stamped"]
  /\ UNCHANGED <<task, stop, early, last>>

VerifyPublish(r) ==
  /\ verify[r].at = "stamped"
  /\ verify' = [verify EXCEPT ![r].at = "ended"]
  /\ last' = r
  /\ UNCHANGED <<task, stop, early>>

VerifyStep(r) ==
  \/ ConnLaunch(r) \/ ConnWait(r) \/ ConnNext(r)
  \/ CmdLaunch(r) \/ CmdSettle(r) \/ CmdAnswer(r) \/ CmdCollect(r)
  \/ ShadowCase(r) \/ VerifyStamp(r) \/ VerifyPublish(r)

-----------------------------------------------------------------------------
AdminNext ==
  \/ \E t \in Task : \/ TestStart(t) \/ RunStart(t) \/ ProcessExits(t) \/ RunEnd(t)
                     \/ StopCheck(t) \/ StopKill(t) \/ StopRecord(t)
  \/ \E r \in Report : VerifyRun(r) \/ VerifyStep(r)

AdminSpec == AdminInit /\ [][AdminNext]_adminVars

\* The goroutine of an acceptance run goes on; deadlines come.  Nothing is
\* assumed of the child processes, which may run for ever.
AdminFairness == \A r \in Report : WF_adminVars(VerifyStep(r))

-----------------------------------------------------------------------------
(* Properties *)

\* Type invariant.
AdminTypeOK ==
  /\ task \in [Task -> [status : {"none", "running", "ended"},
                        proc : {"none", "alive", "exited"},
                        run : {"none", "starting", "reading", "ended"}]]
  /\ stop \in [Task -> {"none", "kill", "record", "returned"}]
  /\ early \subseteq Task
  /\ verify \in [Report ->
                   [at : {"none", "launch", "wait", "next", "iot", "settle", "answer",
                          "collect", "shadow", "finish", "stamped", "ended"},
                    left : 0 .. ConnCases, own : Seq(Task), cases : 0 .. AllCases,
                    expired : BOOLEAN]]
  /\ last \in Report \cup {NoReport}

\* An operator who was told that a task is stopped has no process of it
\* left, unless the request came in before the process was started: then it
\* starts all the same (apiTestStop against runTask, which share the task
\* without a lock).
StopKills ==
  \A t \in Task :
    stop[t] = "returned" => task[t].proc # "alive" \/ t \in early

\* A finished report has a result for every case, so that "all passed" says
\* what it seems to say, unless the context of the run was over in the
\* command loop (runVerify and the early returns of its cases).
ReportCoversAll ==
  \A r \in Report :
    Finished(r) => verify[r].cases = AllCases \/ verify[r].expired

\* An acceptance run ends, whatever its child processes do, and the console
\* never stays locked by the report of a run that is over: "already under
\* way, please wait" comes to an end (waitTask, apiVerifyRun).
VerifyEnds ==
  /\ \A r \in Report : Running(r) ~> Finished(r)
  /\ []<>MayVerify
=============================================================================
