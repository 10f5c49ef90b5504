---------------------------- MODULE ShadowLocal ----------------------------
(***************************************************************************)
(* The device shadow in local mode (Redis was unreachable at start-up):    *)
(* the maps `local' and `localTTL' of ONE shadow manager.  Each operation  *)
(* runs under the manager's mutex from end to end, the rollback scan of    *)
(* all devices included, so each is one step; publishing is a no-op in     *)
(* this mode.                                                              *)
(***************************************************************************)
EXTENDS Naturals, ShadowTable

CONSTANTS
  Device,
  PreoccupyTimeout,  \* preoccupy_timeout_seconds
  Horizon,           \* bound: callers are active up to this time
  MaxVersion         \* bound: callers write a shadow up to this version

ASSUME LocalConstantsAssumption ==
  /\ PreoccupyTimeout \in Nat \ {0}
  /\ Horizon \in Nat
  /\ MaxVersion \in Nat

VARIABLES
  local,     \* local[d]: the shadow of d, NoShadow if the map has none
  lastSeen,  \* localTTL[d]
  now        \* the clock

vars == <<local, lastSeen, now>>

MaxNow == Horizon + PreoccupyTimeout + 2

Shadow == [state : State, version : Nat, updatedAt : Nat]

\* Mutant: Get returns an empty shadow.
EmptyShadow == [state |-> "", version |-> 0, updatedAt |-> 0]

\* How Get shows a device that is not in the map.  No shadow in the map has
\* this value: one is created idle, and being offline takes a write.
NoShadow == [state |-> "offline", version |-> 0, updatedAt |-> 0]

NewShadow == [state |-> "idle", version |-> 0, updatedAt |-> now]

Exists(d) == local[d] # NoShadow

TypeOK ==
  /\ local \in [Device -> Shadow]
  /\ lastSeen \in [Device -> Nat]
  /\ now \in Nat

Init ==
  /\ local = [d \in Device |-> NoShadow]
  /\ lastSeen = [d \in Device |-> 0]
  /\ now = 0

-----------------------------------------------------------------------------
MayCall(d) == now <= Horizon /\ local[d].version < MaxVersion

\* The shadow a heartbeat works on: the one in the map or a new one.
Found(d) == IF Exists(d) THEN local[d] ELSE NewShadow

Changed(s, to) == [state |-> to, version |-> s.version + 1, updatedAt |-> now]

Seen(d) == lastSeen' = [lastSeen EXCEPT ![d] = now]

\* Touch, and ReportHeartbeatWithGateway without a state.
Touch(d) ==
  /\ MayCall(d)
  /\ local' = [local EXCEPT ![d] = Found(d)]
  /\ Seen(d)
  /\ UNCHANGED now

\* ReportHeartbeatWithGateway with a state: a repetition is not a write.
ReportState(d, s) ==
  /\ MayCall(d)
  /\ local' = [local EXCEPT ![d] =
                 IF s # Found(d).state /\ legalReport(Found(d).state, s)
                   THEN Changed(Found(d), s)
                   ELSE Found(d)]
  /\ Seen(d)
  /\ UNCHANGED now

\* TryPreoccupy stamps localTTL too, although no pile was heard.
TryPreoccupy(d) ==
  /\ MayCall(d)
  /\ Exists(d)
  /\ Preoccupiable(local[d].state)
  /\ local' = [local EXCEPT ![d] = Changed(local[d], "preoccupy")]
  /\ Seen(d)
  /\ UNCHANGED now

\* Transition("*", offline).
MarkOffline(d) ==
  /\ MayCall(d)
  /\ Exists(d)
  /\ local' = [local EXCEPT ![d] = Changed(local[d], "offline")]
  /\ UNCHANGED <<lastSeen, now>>

\* Mutant: the scan ignores the age of a preoccupation.
OverdueAtAnyAge(d) == local[d].state = "preoccupy"

\* Mutant: the scan takes the timeout in milliseconds.
OverdueInMillis(d) == /\ local[d].state = "preoccupy"
                      /\ now > local[d].updatedAt + 1000 * PreoccupyTimeout

\* recoverExpiredPreoccupy: the whole map in one critical section.
Overdue(d) == /\ local[d].state = "preoccupy"
              /\ now > local[d].updatedAt + PreoccupyTimeout

Recover ==
  /\ \E d \in Device : Overdue(d)
  /\ local' = [d \in Device |->
                 IF Overdue(d) THEN Changed(local[d], "idle") ELSE local[d]]
  /\ UNCHANGED <<lastSeen, now>>

Tick ==
  /\ now < MaxNow
  /\ now' = now + 1
  /\ UNCHANGED <<local, lastSeen>>

Next ==
  \/ \E d \in Device :
       \/ Touch(d)
       \/ \E s \in State : ReportState(d, s)
       \/ TryPreoccupy(d)
       \/ MarkOffline(d)
  \/ Recover
  \/ Tick

Spec == Init /\ [][Next]_vars

\* The clock advances and the ticker goroutine keeps scanning.
Fairness == WF_vars(Tick) /\ WF_vars(Recover)

FairSpec == Spec /\ Fairness

-----------------------------------------------------------------------------
(* Properties *)

Promise == INSTANCE DeviceShadow WITH
             state   <- [d \in Device |-> local[d].state],
             version <- [d \in Device |-> local[d].version]

\* The in-process maps keep the same promise as Redis: the Go white list
\* legalReport, tryPreoccupy, transition and the scan move a shadow only
\* along the Go table, and each write counts.
KeepsPromise == Promise!Spec

\* In this mode the preoccupation timeout is a lease: until it is overdue,
\* a preoccupation goes back to idle only because the pile itself reports
\* idle (tryPreoccupy and recoverExpiredPreoccupy hold one mutex, so the scan
\* cannot act on a stale reading as it can in Redis mode).
LeaseKept ==
  [][\A d \in Device :
       /\ local[d].state = "preoccupy" /\ local'[d].state = "idle"
       /\ now <= local[d].updatedAt + PreoccupyTimeout
       => ReportState(d, "idle")]_vars

\* A preoccupied pile does not stay locked: once reports stop coming, the
\* scan frees it (recoverExpiredPreoccupy).
PreoccupyReleased ==
  \A d \in Device :
    local[d].state = "preoccupy" ~> local[d].state # "preoccupy"
=============================================================================
