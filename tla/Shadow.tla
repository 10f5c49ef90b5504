------------------------------- MODULE Shadow -------------------------------
(***************************************************************************)
(* The device shadow in Redis mode (internal/shadow/shadow.go).            *)
(*                                                                         *)
(* One Redis hash and one "online" key per device are shared by several    *)
(* shadow managers (the C-end server and the IoT server each start one).   *)
(* Every write is one Lua script, hence one step.  What is NOT atomic is   *)
(* made of several steps here, as in the code:                             *)
(*   - the event of a write is published after the script has returned;    *)
(*   - the rollback scanner of each manager reads the clock once, then     *)
(*     reads a device and only afterwards runs the rollback script.        *)
(* Requests that the scripts reject change nothing and are stuttering      *)
(* steps.  The clock counts in units of whole seconds (time.Now().Unix()); *)
(* reading it and running the script that uses it is one step.             *)
(***************************************************************************)
EXTENDS Naturals, ShadowTable

CONSTANTS
  Device,            \* device IDs
  Manager,           \* shadow managers; each runs one rollback scanner
  Caller,            \* any other goroutine that writes a shadow
  PreoccupyTimeout,  \* preoccupy_timeout_seconds
  OfflineTTL,        \* offline_ttl_seconds
  HashTTL,           \* the EXPIRE of luaTouchHeartbeat (604800 seconds)
  RedisFaults,       \* TRUE: a Redis call of the scanner may fail
  Horizon,           \* bound: callers are active up to this time
  MaxVersion         \* bound: callers write a shadow up to this version, and
                     \* up to one less after each expiry of its hash

ASSUME ConstantsAssumption ==
  /\ Caller \notin Manager
  /\ PreoccupyTimeout \in Nat \ {0}
  /\ OfflineTTL \in Nat \ {0}
  /\ HashTTL \in Nat \ {0}
  /\ RedisFaults \in BOOLEAN
  /\ Horizon \in Nat
  /\ MaxVersion \in Nat

VARIABLES
  shadow,     \* shadow[d]: the fields state, version, updated_at of the hash
  expireAt,   \* expireAt[d]: when the hash expires, 0 = it does not
  onlineTill, \* onlineTill[d]: when the online key expires, 0 = no key
  now,        \* the clock
  scan,       \* scan[m]: progress of m's recoverExpiredPreoccupy
  unsent,     \* events whose write is done and whose publish is not
  published,  \* events handed to Redis Pub/Sub so far
  gen         \* history: how often the hash of a device has expired

vars == <<shadow, expireAt, onlineTill, now, scan, unsent, published, gen>>

\* The clock runs past the horizon far enough for every timeout to fire.
MaxNow == Horizon + PreoccupyTimeout + 2

Event == [device : Device, state : State, version : Nat, gen : Nat]

\* What the scanner keeps between its HMGET and its rollback script.  The
\* code keeps the device only; version and gen are history.
Hit == [device : Device, version : Nat, gen : Nat]

TypeOK ==
  /\ shadow \in [Device -> [state : State, version : Nat, updatedAt : Nat]]
  /\ expireAt \in [Device -> Nat]
  /\ onlineTill \in [Device -> Nat]
  /\ now \in Nat
  /\ scan \in [Manager -> [now : Nat, todo : SUBSET Device, hits : SUBSET Hit]]
  /\ unsent \subseteq [event : Event, by : Manager \cup {Caller}]
  /\ published \subseteq Event
  /\ gen \in [Device -> Nat]

\* Mutant: the scripts forget to default a missing field.
AbsentWithoutDefault == [state |-> "", version |-> 0, updatedAt |-> 0]

\* A device without a hash: every script defaults to 'offline' and '0'.
Absent == [state |-> "offline", version |-> 0, updatedAt |-> 0]

\* A scanner between two ticks of its ticker.
NoScan == [now |-> 0, todo |-> {}, hits |-> {}]

Init ==
  /\ shadow = [d \in Device |-> Absent]
  /\ expireAt = [d \in Device |-> 0]
  /\ onlineTill = [d \in Device |-> 0]
  /\ now = 0
  /\ scan = [m \in Manager |-> NoScan]
  /\ unsent = {}
  /\ published = {}
  /\ gen = [d \in Device |-> 0]

-----------------------------------------------------------------------------
(* Writing a shadow *)

EventOf(d, s) ==
  [device |-> d, state |-> s, version |-> shadow[d].version + 1, gen |-> gen[d]]

\* Mutant: the HMSET forgets the version.
WriteWithoutVersion(d, s, by) ==
  /\ shadow' = [shadow EXCEPT ![d].state = s, ![d].updatedAt = now]
  /\ unsent' = unsent \cup {[event |-> EventOf(d, s), by |-> by]}

\* The HMSET all scripts share, and the event the Go code will publish.
Write(d, s, by) ==
  /\ shadow' = [shadow EXCEPT ![d] = [state     |-> s,
                                      version   |-> shadow[d].version + 1,
                                      updatedAt |-> now]]
  /\ unsent' = unsent \cup {[event |-> EventOf(d, s), by |-> by]}

\* Bound on the callers: each expiry of the hash counts as a write.
MayCall(d) == now <= Horizon /\ shadow[d].version + gen[d] < MaxVersion

Touch(d) ==
  /\ MayCall(d)
  /\ onlineTill' = [onlineTill EXCEPT ![d] = now + OfflineTTL]
  /\ expireAt' = [expireAt EXCEPT ![d] = now + HashTTL]
  /\ UNCHANGED <<shadow, now, scan, unsent, published, gen>>

TryPreoccupy(d) ==
  /\ MayCall(d)
  /\ Preoccupiable(shadow[d].state)
  /\ Write(d, "preoccupy", Caller)
  /\ UNCHANGED <<expireAt, onlineTill, now, scan, published, gen>>

\* ReportHeartbeatWithGateway without a state.
Heartbeat(d) ==
  /\ MayCall(d)
  /\ onlineTill' = [onlineTill EXCEPT ![d] = now + OfflineTTL]
  /\ UNCHANGED <<shadow, expireAt, now, scan, unsent, published, gen>>

\* ReportHeartbeatWithGateway with a state: the online key is refreshed even
\* when the report is rejected.
ReportState(d, s) ==
  /\ MayCall(d)
  /\ onlineTill' = [onlineTill EXCEPT ![d] = now + OfflineTTL]
  /\ IF LuaReportLegal(shadow[d].state, s)
       THEN Write(d, s, Caller)
       ELSE UNCHANGED <<shadow, unsent>>
  /\ UNCHANGED <<expireAt, now, scan, published, gen>>

\* Transition("*", offline); it leaves the online key alone.
MarkOffline(d) ==
  /\ MayCall(d)
  /\ LuaTransitionLegal(shadow[d].state, AnyState, "offline")
  /\ Write(d, "offline", Caller)
  /\ UNCHANGED <<expireAt, onlineTill, now, scan, published, gen>>

\* publishEvent of a write that is done.  Whether Redis takes the event makes
\* no difference here: the error of PUBLISH is dropped, and the event with it.
\* A script that ran although its caller got an error (a lost reply) ends the
\* same way.
PublishEvent(u) ==
  /\ unsent' = unsent \ {u}
  /\ published' = published \cup {u.event}
  /\ UNCHANGED <<shadow, expireAt, onlineTill, now, scan, gen>>

-----------------------------------------------------------------------------
(* The rollback scanner *)

\* The scanner publishes its own event before it goes on.
ScannerFree(m) == scan[m].hits = {} /\ \A u \in unsent : u.by # m

\* m's scan goes on with the devices of todo and the hits; when there are
\* none it is over.
ScanGoesOn(m, todo, hits) ==
  scan' = [scan EXCEPT ![m] =
             IF todo = {} /\ hits = {} THEN NoScan
             ELSE [now |-> scan[m].now, todo |-> todo, hits |-> hits]]

\* A tick of the 15 s ticker: the clock is read once for the whole scan.
ScanStart(m) ==
  /\ ScannerFree(m)
  /\ scan[m].todo = {}
  /\ scan' = [scan EXCEPT ![m] = [now |-> now, todo |-> Device, hits |-> {}]]
  /\ UNCHANGED <<shadow, expireAt, onlineTill, now, unsent, published, gen>>

\* Mutant: the deadline itself counts as overdue.
OverdueAtDeadline(m, d) ==
  scan[m].now >= shadow[d].updatedAt + PreoccupyTimeout

\* Mutant: the timeout is taken in milliseconds.
OverdueInMillis(m, d) ==
  scan[m].now > shadow[d].updatedAt + 1000 * PreoccupyTimeout

\* The age test of the scanner, on the clock it read when it started.
Overdue(m, d) == scan[m].now > shadow[d].updatedAt + PreoccupyTimeout

HitsOf(m, d) ==
  IF shadow[d].state = "preoccupy" /\ Overdue(m, d)
    THEN {[device |-> d, version |-> shadow[d].version, gen |-> gen[d]]}
    ELSE {}

ScanDevice(m, d) ==
  /\ ScannerFree(m)
  /\ d \in scan[m].todo
  /\ ScanGoesOn(m, scan[m].todo \ {d}, HitsOf(m, d))
  /\ UNCHANGED <<shadow, expireAt, onlineTill, now, unsent, published, gen>>

\* Mutant: the rollback script is run without publishing its event.
ScanRollbackSilently(m) ==
  \E h \in scan[m].hits :
    /\ ScanGoesOn(m, scan[m].todo, {})
    /\ shadow[h.device].state = "preoccupy"
    /\ shadow' = [shadow EXCEPT ![h.device] =
                    [state |-> "idle", version |-> shadow[h.device].version + 1,
                     updatedAt |-> now]]
    /\ UNCHANGED <<unsent, expireAt, onlineTill, now, published, gen>>

\* RollbackPreoccupy: the script checks the state, not that it is still the
\* preoccupation that was read.
ScanRollback(m) ==
  \E h \in scan[m].hits :
    /\ ScanGoesOn(m, scan[m].todo, {})
    /\ IF LuaTransitionLegal(shadow[h.device].state, "preoccupy", "idle")
         THEN Write(h.device, "idle", m)
         ELSE UNCHANGED <<shadow, unsent>>
    /\ UNCHANGED <<expireAt, onlineTill, now, published, gen>>

\* A failed HMGET skips the device, a failed rollback is not retried; the
\* next scan will come across the device again.
ScanError(m) ==
  /\ RedisFaults
  /\ \/ /\ ScannerFree(m)
        /\ \E d \in scan[m].todo : ScanGoesOn(m, scan[m].todo \ {d}, {})
     \/ /\ scan[m].hits # {}
        /\ ScanGoesOn(m, scan[m].todo, {})
  /\ UNCHANGED <<shadow, expireAt, onlineTill, now, unsent, published, gen>>

-----------------------------------------------------------------------------
\* Redis drops a hash and an online key whose deadline has come.
HashExpires(d) == expireAt[d] # 0 /\ expireAt[d] <= now + 1

Tick ==
  /\ now < MaxNow
  /\ now' = now + 1
  /\ shadow'   = [d \in Device |-> IF HashExpires(d) THEN Absent ELSE shadow[d]]
  /\ expireAt' = [d \in Device |-> IF HashExpires(d) THEN 0 ELSE expireAt[d]]
  /\ gen'      = [d \in Device |-> IF HashExpires(d) THEN gen[d] + 1 ELSE gen[d]]
  /\ onlineTill' = [d \in Device |->
                     IF onlineTill[d] <= now + 1 THEN 0 ELSE onlineTill[d]]
  /\ UNCHANGED <<scan, unsent, published>>

Next ==
  \/ \E d \in Device :
       \/ Touch(d)
       \/ TryPreoccupy(d)
       \/ Heartbeat(d)
       \/ \E s \in State : ReportState(d, s)
       \/ MarkOffline(d)
  \/ \E u \in unsent : PublishEvent(u)
  \/ \E m \in Manager :
       \/ ScanStart(m)
       \/ \E d \in Device : ScanDevice(m, d)
       \/ ScanRollback(m)
       \/ ScanError(m)
  \/ Tick

Spec == Init /\ [][Next]_vars

\* The clock advances, published events go out, and each manager's ticker
\* goroutine keeps running; callers are under no obligation.  A call of Redis
\* that is made again and again does not fail every time: strong fairness, as
\* ScanError ends the scan that would make it.
Fairness ==
  /\ WF_vars(Tick)
  /\ WF_vars(\E u \in unsent : PublishEvent(u))
  /\ \A m \in Manager :
       /\ WF_vars(ScanStart(m))
       /\ \A d \in Device : SF_vars(ScanDevice(m, d))
       /\ SF_vars(ScanRollback(m))

FairSpec == Spec /\ Fairness

-----------------------------------------------------------------------------
(* Properties *)

EventsSoFar == published \cup {u.event : u \in unsent}

\* An event and a write are of the same incarnation of a shadow.
SameWrite(e, f) == e.device = f.device /\ e.gen = f.gen /\ e.version = f.version

\* The version of an event identifies the write it announces: two events of
\* a device with one version (of one incarnation of the hash) carry one
\* state, and an event that carries the current version carries the current
\* state.  Events are published after the script has returned, by goroutines
\* that overtake one another, so a subscriber can only order them by version
\* (publishEvent, and the "version + 1" of every script).
VersionNamesState ==
  /\ \A e, f \in EventsSoFar : SameWrite(e, f) => e.state = f.state
  /\ \A e \in EventsSoFar :
       /\ e.gen = gen[e.device]
       /\ e.version = shadow[e.device].version
       => e.state = shadow[e.device].state

\* No write is silent: each version a shadow has had since it exists is
\* announced by an event that is published, lost to an error of Redis or about
\* to be published, the scanner's rollbacks included (TryPreoccupy,
\* Transition, ReportHeartbeatWithGateway).
EveryWriteAnnounced ==
  \A d \in Device : \A v \in 1 .. shadow[d].version :
    \E e \in EventsSoFar : e.device = d /\ e.gen = gen[d] /\ e.version = v

\* A device the scanner is about to roll back is in an overdue preoccupation
\* unless it has been written since the scanner read it: the scanner itself
\* never misjudges, only the window between its read and its rollback script
\* can (recoverExpiredPreoccupy).
HitsAreOverdue ==
  \A m \in Manager : \A h \in scan[m].hits :
    /\ h.gen = gen[h.device]
    /\ h.version = shadow[h.device].version
    => /\ shadow[h.device].state = "preoccupy"
       /\ now > shadow[h.device].updatedAt + PreoccupyTimeout

\* A preoccupied pile does not stay locked: once its reports stop coming, the
\* scanner frees it (recoverExpiredPreoccupy, "60s unconfirmed, back to
\* idle"), whatever the two scanners and the callers did to each other before.
PreoccupyReleased ==
  \A d \in Device :
    shadow[d].state = "preoccupy" ~> shadow[d].state # "preoccupy"

\* The documented timeout read as a lease: a scanner takes a pile back only
\* when the preoccupation it ends is overdue.  The code does not guarantee
\* this: the rollback script does not check that the preoccupation is the
\* one that was found overdue.
RollbackOnlyOverdue ==
  [][\A m \in Manager, d \in Device :
       /\ scan'[m] # scan[m]
       /\ shadow[d].state = "preoccupy" /\ shadow'[d].state = "idle"
       => now > shadow[d].updatedAt + PreoccupyTimeout]_vars

\* What the shadow promises, and the mapping that shows it is kept.
Promise == INSTANCE DeviceShadow WITH
             state   <- [d \in Device |-> shadow[d].state],
             version <- [d \in Device |-> shadow[d].version]

\* The shadow moves only along the transition table and counts each write,
\* whichever script, scanner or expiry does it: the Redis scripts, the Go
\* table and the scanner agree.
KeepsPromise == Promise!Spec
=============================================================================
