--------------------------- MODULE Shadow_proofs ---------------------------
(***************************************************************************)
(* Theorems about Shadow, for every set of devices and managers and every  *)
(* value of the timeouts and bounds.                                       *)
(***************************************************************************)
EXTENDS Shadow, TLAPS

-----------------------------------------------------------------------------
(* Typing *)

\* What Write does to the shadow and to the pending events has the right
\* type, whoever writes (the HMSET of the Redis scripts).
LEMMA WriteType ==
  ASSUME TypeOK, NEW d \in Device, NEW s \in State,
         NEW by \in Manager \cup {Caller}, Write(d, s, by)
  PROVE  /\ shadow' \in [Device -> [state : State, version : Nat, updatedAt : Nat]]
         /\ unsent' \subseteq [event : Event, by : Manager \cup {Caller}]
<1>1. [state |-> s, version |-> shadow[d].version + 1, updatedAt |-> now]
        \in [state : State, version : Nat, updatedAt : Nat]
  BY DEF TypeOK
<1>2. shadow' \in [Device -> [state : State, version : Nat, updatedAt : Nat]]
  BY <1>1 DEF TypeOK, Write
<1>3. EventOf(d, s) \in Event
  BY DEF TypeOK, EventOf, Event
<1>4. [event |-> EventOf(d, s), by |-> by]
        \in [event : Event, by : Manager \cup {Caller}]
  BY <1>3
<1>5. unsent' \subseteq [event : Event, by : Manager \cup {Caller}]
  BY <1>4 DEF TypeOK, Write
<1>. QED  BY <1>2, <1>5

\* The progress of a scanner keeps its type (recoverExpiredPreoccupy).
LEMMA ScanGoesOnType ==
  ASSUME TypeOK, NEW m \in Manager, NEW todo \in SUBSET Device,
         NEW hits \in SUBSET Hit, ScanGoesOn(m, todo, hits)
  PROVE  scan' \in [Manager -> [now : Nat, todo : SUBSET Device, hits : SUBSET Hit]]
<1>1. NoScan \in [now : Nat, todo : SUBSET Device, hits : SUBSET Hit]
  BY DEF NoScan
<1>2. [now |-> scan[m].now, todo |-> todo, hits |-> hits]
        \in [now : Nat, todo : SUBSET Device, hits : SUBSET Hit]
  BY DEF TypeOK
<1>. QED  BY <1>1, <1>2 DEF TypeOK, ScanGoesOn

\* The wild card, the states and the scripts' constants are states.
LEMMA StateNames ==
  /\ "idle" \in State /\ "preoccupy" \in State /\ "offline" \in State
BY DEF State

\* Initially every device is absent and nothing is in progress (NewManager).
LEMMA InitType == Init => TypeOK
<1>. SUFFICES ASSUME Init PROVE TypeOK
  OBVIOUS
<1>1. Absent \in [state : State, version : Nat, updatedAt : Nat]
  BY DEF Absent, State
<1>2. NoScan \in [now : Nat, todo : SUBSET Device, hits : SUBSET Hit]
  BY DEF NoScan
<1>. QED  BY <1>1, <1>2 DEF Init, TypeOK

\* Every operation, every step of a scanner, every publication and every
\* expiry keeps the types.
LEMMA NextType == TypeOK /\ [Next]_vars => TypeOK'
<1>. SUFFICES ASSUME TypeOK, [Next]_vars PROVE TypeOK'
  OBVIOUS
<1>. USE ConstantsAssumption
<1>1. ASSUME NEW d \in Device, Touch(d) PROVE TypeOK'
  BY <1>1 DEF TypeOK, Touch
<1>2. ASSUME NEW d \in Device, TryPreoccupy(d) PROVE TypeOK'
  <2>1. Write(d, "preoccupy", Caller)
    BY <1>2 DEF TryPreoccupy
  <2>. QED  BY <1>2, <2>1, WriteType, StateNames DEF TypeOK, TryPreoccupy
<1>3. ASSUME NEW d \in Device, Heartbeat(d) PROVE TypeOK'
  BY <1>3 DEF TypeOK, Heartbeat
<1>4. ASSUME NEW d \in Device, NEW s \in State, ReportState(d, s) PROVE TypeOK'
  <2>1. onlineTill' \in [Device -> Nat]
    BY <1>4 DEF TypeOK, ReportState
  <2>2. Write(d, s, Caller) \/ UNCHANGED <<shadow, unsent>>
    BY <1>4 DEF ReportState
  <2>. QED  BY <1>4, <2>1, <2>2, WriteType DEF TypeOK, ReportState
<1>5. ASSUME NEW d \in Device, MarkOffline(d) PROVE TypeOK'
  <2>1. Write(d, "offline", Caller)
    BY <1>5 DEF MarkOffline
  <2>. QED  BY <1>5, <2>1, WriteType, StateNames DEF TypeOK, MarkOffline
<1>6. ASSUME NEW u \in unsent, PublishEvent(u) PROVE TypeOK'
  <2>1. u.event \in Event
    BY DEF TypeOK
  <2>. QED  BY <1>6, <2>1 DEF TypeOK, PublishEvent
<1>7. ASSUME NEW m \in Manager, ScanStart(m) PROVE TypeOK'
  <2>1. [now |-> now, todo |-> Device, hits |-> {}]
          \in [now : Nat, todo : SUBSET Device, hits : SUBSET Hit]
    BY DEF TypeOK
  <2>. QED  BY <1>7, <2>1 DEF TypeOK, ScanStart
<1>8. ASSUME NEW m \in Manager, NEW d \in Device, ScanDevice(m, d) PROVE TypeOK'
  <2>1. HitsOf(m, d) \in SUBSET Hit
    BY DEF TypeOK, HitsOf, Hit
  <2>2. scan[m].todo \ {d} \in SUBSET Device
    BY DEF TypeOK
  <2>3. ScanGoesOn(m, scan[m].todo \ {d}, HitsOf(m, d))
    BY <1>8 DEF ScanDevice
  <2>4. scan' \in [Manager -> [now : Nat, todo : SUBSET Device, hits : SUBSET Hit]]
    BY <2>1, <2>2, <2>3, ScanGoesOnType, Zenon
  <2>. QED  BY <1>8, <2>4 DEF TypeOK, ScanDevice
<1>9. ASSUME NEW m \in Manager, ScanRollback(m) PROVE TypeOK'
  <2>1. PICK h \in scan[m].hits :
          /\ ScanGoesOn(m, scan[m].todo, {})
          /\ Write(h.device, "idle", m) \/ UNCHANGED <<shadow, unsent>>
          /\ UNCHANGED <<expireAt, onlineTill, now, published, gen>>
    BY <1>9 DEF ScanRollback
  <2>2. h.device \in Device /\ scan[m].todo \in SUBSET Device
    BY DEF TypeOK, Hit
  <2>3. scan' \in [Manager -> [now : Nat, todo : SUBSET Device, hits : SUBSET Hit]]
    <3>1. ScanGoesOn(m, scan[m].todo, {}) /\ {} \in SUBSET Hit
      BY <2>1
    <3>. QED  BY <2>2, <3>1, ScanGoesOnType, Zenon
  <2>. QED  BY <2>1, <2>2, <2>3, WriteType, StateNames DEF TypeOK
<1>10. ASSUME NEW m \in Manager, ScanError(m) PROVE TypeOK'
  <2>1. PICK todo \in SUBSET Device : ScanGoesOn(m, todo, {})
    BY <1>10, Zenon DEF ScanError, TypeOK
  <2>2. scan' \in [Manager -> [now : Nat, todo : SUBSET Device, hits : SUBSET Hit]]
    BY <2>1, ScanGoesOnType, Zenon
  <2>. QED  BY <1>10, <2>2 DEF TypeOK, ScanError
<1>11. CASE Tick
  <2>1. Absent \in [state : State, version : Nat, updatedAt : Nat]
    BY DEF Absent, State
  <2>. QED  BY <1>11, <2>1 DEF TypeOK, Tick
<1>12. CASE UNCHANGED vars
  BY <1>12 DEF TypeOK, vars
<1>. QED
  BY <1>1, <1>2, <1>3, <1>4, <1>5, <1>6, <1>7, <1>8, <1>9, <1>10, <1>11, <1>12
     DEF Next

\* The variables of the shadow model always have their types.
THEOREM TypeCorrect == Spec => []TypeOK
BY InitType, NextType, PTL DEF Spec

-----------------------------------------------------------------------------
(* What a step may do to the shadow of one device *)

\* Nothing, one write, or the expiry of its hash.
Untouched(d) == shadow'[d] = shadow[d] /\ gen'[d] = gen[d]
Written(d)   == /\ shadow'[d].version = shadow[d].version + 1
                /\ gen'[d] = gen[d]
                /\ \/ shadow'[d].state = shadow[d].state
                   \/ CanTransition(shadow[d].state, shadow'[d].state)
Expired(d)   == shadow'[d] = Absent /\ gen'[d] = gen[d] + 1

\* A write changes one device by one version and leaves the others alone.
LEMMA WriteEffect ==
  ASSUME TypeOK, NEW d \in Device, NEW s \in State, NEW by, Write(d, s, by),
         UNCHANGED gen,
         s = shadow[d].state \/ CanTransition(shadow[d].state, s),
         NEW e \in Device
  PROVE  Untouched(e) \/ Written(e)
<1>1. CASE e = d
  BY <1>1 DEF TypeOK, Write, Written
<1>2. CASE e # d
  BY <1>2 DEF TypeOK, Write, Untouched
<1>. QED  BY <1>1, <1>2

\* The guards of the scripts agree with the Go table: whatever a script
\* accepts is a repetition or a pair of `transitions' (luaPreoccupy,
\* luaHeartbeat, and luaTransition as MarkOffline and RollbackPreoccupy
\* call it).
LEMMA GuardsAgree ==
  ASSUME NEW cur \in State
  PROVE  /\ Preoccupiable(cur) => CanTransition(cur, "preoccupy")
         /\ \A to \in State :
              LuaReportLegal(cur, to) => to = cur \/ CanTransition(cur, to)
         /\ CanTransition(cur, "offline")
         /\ LuaTransitionLegal(cur, "preoccupy", "idle")
              => cur = "idle" \/ CanTransition(cur, "idle")
BY DEF State, Preoccupiable, LuaReportLegal, LuaTransitionLegal, AnyState,
       CanTransition, transitions

\* Every step leaves a device alone, writes it once, or expires it.
LEMMA StepEffect ==
  ASSUME TypeOK, [Next]_vars, NEW e \in Device
  PROVE  Untouched(e) \/ Written(e) \/ Expired(e)
<1>. USE ConstantsAssumption
<1>0. \A d \in Device : shadow[d].state \in State
  BY DEF TypeOK
<1>1. ASSUME NEW d \in Device, TryPreoccupy(d) PROVE Untouched(e) \/ Written(e)
  <2>1. CanTransition(shadow[d].state, "preoccupy")
    BY <1>0, <1>1, GuardsAgree DEF TryPreoccupy
  <2>2. Write(d, "preoccupy", Caller) /\ UNCHANGED gen
    BY <1>1 DEF TryPreoccupy
  <2>. QED  BY <2>1, <2>2, StateNames, WriteEffect
<1>2. ASSUME NEW d \in Device, NEW s \in State, ReportState(d, s)
      PROVE  Untouched(e) \/ Written(e)
  <2>1. CASE LuaReportLegal(shadow[d].state, s)
    <3>1. s = shadow[d].state \/ CanTransition(shadow[d].state, s)
      BY <1>0, <2>1, GuardsAgree
    <3>2. Write(d, s, Caller) /\ UNCHANGED gen
      BY <1>2, <2>1 DEF ReportState
    <3>. QED  BY <3>1, <3>2, WriteEffect
  <2>2. CASE ~LuaReportLegal(shadow[d].state, s)
    BY <1>2, <2>2 DEF ReportState, Untouched
  <2>. QED  BY <2>1, <2>2
<1>3. ASSUME NEW d \in Device, MarkOffline(d) PROVE Untouched(e) \/ Written(e)
  <2>1. CanTransition(shadow[d].state, "offline")
    BY <1>0, GuardsAgree
  <2>2. Write(d, "offline", Caller) /\ UNCHANGED gen
    BY <1>3 DEF MarkOffline
  <2>. QED  BY <2>1, <2>2, StateNames, WriteEffect
<1>4. ASSUME NEW m \in Manager, ScanRollback(m) PROVE Untouched(e) \/ Written(e)
  <2>1. PICK h \in scan[m].hits :
          /\ IF LuaTransitionLegal(shadow[h.device].state, "preoccupy", "idle")
               THEN Write(h.device, "idle", m)
               ELSE UNCHANGED <<shadow, unsent>>
          /\ UNCHANGED gen
    BY <1>4 DEF ScanRollback
  <2>2. h.device \in Device
    BY DEF TypeOK, Hit
  <2>3. CASE LuaTransitionLegal(shadow[h.device].state, "preoccupy", "idle")
    <3>1. \/ shadow[h.device].state = "idle"
          \/ CanTransition(shadow[h.device].state, "idle")
      BY <1>0, <2>2, <2>3, GuardsAgree
    <3>. QED  BY <2>1, <2>2, <2>3, <3>1, StateNames, WriteEffect
  <2>4. CASE ~LuaTransitionLegal(shadow[h.device].state, "preoccupy", "idle")
    BY <2>1, <2>4 DEF Untouched
  <2>. QED  BY <2>3, <2>4
<1>5. ASSUME Tick PROVE Untouched(e) \/ Expired(e)
  BY <1>5 DEF Tick, Untouched, Expired
<1>6. ASSUME UNCHANGED <<shadow, gen>> PROVE Untouched(e)
  BY <1>6 DEF Untouched
<1>. QED
  BY <1>1, <1>2, <1>3, <1>4, <1>5, <1>6, Zenon
     DEF Next, vars, Touch, Heartbeat, PublishEvent, ScanStart,
         ScanDevice, ScanError

-----------------------------------------------------------------------------
(* The scanner never misjudges *)

\* HitsAreOverdue is inductive only together with: the clock a scanner read
\* is not ahead of the clock, and what it remembers of a hit is not ahead of
\* the shadow.  Then a write or an expiry separates the hit from the shadow
\* for good.
HitsInv ==
  \A m \in Manager :
    /\ scan[m].now <= now
    /\ \A h \in scan[m].hits :
         /\ h.gen <= gen[h.device]
         /\ h.gen = gen[h.device] => h.version <= shadow[h.device].version

\* One hit, seen across a step: if it still matches the shadow afterwards,
\* the shadow was not touched.
LEMMA HitKept ==
  ASSUME TypeOK, [Next]_vars, NEW h \in Hit,
         h.gen <= gen[h.device],
         h.gen = gen[h.device] => h.version <= shadow[h.device].version
  PROVE  /\ h.gen <= gen'[h.device]
         /\ h.gen = gen'[h.device] => h.version <= shadow'[h.device].version
         /\ h.gen = gen'[h.device] /\ h.version = shadow'[h.device].version
              => shadow'[h.device] = shadow[h.device] /\ gen'[h.device] = gen[h.device]
<1>1. h.device \in Device /\ h.gen \in Nat /\ h.version \in Nat
  BY DEF Hit
<1>2. gen[h.device] \in Nat /\ shadow[h.device].version \in Nat
  BY <1>1 DEF TypeOK
<1>3. Untouched(h.device) \/ Written(h.device) \/ Expired(h.device)
  BY <1>1, StepEffect
<1>. QED  BY <1>1, <1>2, <1>3 DEF Untouched, Written, Expired

\* A scanner has the hits it had, or none, or the one of the device it has
\* just read; its clock is the one it had, none, or the current one.
LEMMA ScanStep ==
  ASSUME TypeOK, [Next]_vars, NEW m \in Manager
  PROVE  /\ scan'[m].now \in {scan[m].now, 0, now}
         /\ \/ scan'[m].hits \subseteq scan[m].hits
            \/ /\ \E d \in Device : scan'[m].hits = HitsOf(m, d)
               /\ UNCHANGED <<shadow, gen, now>>
<1>1. ASSUME NEW n \in Manager, NEW todo, NEW hits, ScanGoesOn(n, todo, hits)
      PROVE  /\ scan'[m].now \in {scan[m].now, 0}
             /\ scan'[m].hits = scan[m].hits \/ (n = m /\ scan'[m].hits = hits)
  BY <1>1 DEF TypeOK, ScanGoesOn, NoScan
<1>2. ASSUME NEW n \in Manager, ScanStart(n)
      PROVE  /\ scan'[m].now \in {scan[m].now, now}
             /\ scan'[m].hits \subseteq scan[m].hits
  BY <1>2 DEF TypeOK, ScanStart
<1>3. ASSUME NEW n \in Manager, NEW d \in Device, ScanDevice(n, d)
      PROVE  /\ scan'[m].now \in {scan[m].now, 0}
             /\ scan'[m].hits = scan[m].hits \/ scan'[m].hits = HitsOf(m, d)
             /\ UNCHANGED <<shadow, gen, now>>
  <2>1. ScanGoesOn(n, scan[n].todo \ {d}, HitsOf(n, d))
    BY <1>3 DEF ScanDevice
  <2>. QED  BY <1>1, <1>3, <2>1 DEF ScanDevice
<1>4. ASSUME NEW n \in Manager, ScanRollback(n) \/ ScanError(n)
      PROVE  /\ scan'[m].now \in {scan[m].now, 0}
             /\ scan'[m].hits \subseteq scan[m].hits
  <2>1. PICK todo : ScanGoesOn(n, todo, {})
    BY <1>4, Zenon DEF ScanRollback, ScanError
  <2>. QED  BY <1>1, <2>1
<1>5. ASSUME UNCHANGED scan
      PROVE  scan'[m].now = scan[m].now /\ scan'[m].hits = scan[m].hits
  BY <1>5
<1>. QED
  BY <1>2, <1>3, <1>4, <1>5
     DEF Next, vars, Touch, TryPreoccupy, Heartbeat, ReportState, MarkOffline,
         PublishEvent, Tick

\* The clock does not go back.
LEMMA ClockStep ==
  ASSUME TypeOK, [Next]_vars
  PROVE  now' = now \/ now' = now + 1
BY Zenon DEF Next, vars, Touch, TryPreoccupy, Heartbeat, ReportState, MarkOffline,
       PublishEvent, ScanStart, ScanDevice, ScanRollback,
       ScanError, Tick

\* Every step keeps HitsInv and HitsAreOverdue.
LEMMA HitsStep ==
  ASSUME TypeOK, HitsInv, HitsAreOverdue, [Next]_vars
  PROVE  HitsInv' /\ HitsAreOverdue'
<1>. USE ConstantsAssumption
<1>1. TypeOK'
  BY NextType
<1>2. ASSUME NEW m \in Manager PROVE scan'[m].now <= now'
  <2>1. scan[m].now \in Nat /\ scan[m].now <= now /\ now \in Nat
    BY DEF TypeOK, HitsInv
  <2>2. scan'[m].now \in {scan[m].now, 0, now}
    BY ScanStep
  <2>. QED  BY <2>1, <2>2, ClockStep
<1>3. ASSUME NEW m \in Manager, NEW h \in scan'[m].hits
      PROVE  /\ h.gen <= gen'[h.device]
             /\ h.gen = gen'[h.device] => h.version <= shadow'[h.device].version
             /\ h.gen = gen'[h.device] /\ h.version = shadow'[h.device].version
                  => /\ shadow'[h.device].state = "preoccupy"
                     /\ now' > shadow'[h.device].updatedAt + PreoccupyTimeout
  <2>1. CASE h \in scan[m].hits
    <3>1. h \in Hit /\ h.device \in Device
      BY <2>1 DEF TypeOK, Hit
    <3>2. /\ h.gen <= gen[h.device]
          /\ h.gen = gen[h.device] => h.version <= shadow[h.device].version
      BY <2>1 DEF HitsInv
    <3>3. /\ h.gen <= gen'[h.device]
          /\ h.gen = gen'[h.device] => h.version <= shadow'[h.device].version
          /\ h.gen = gen'[h.device] /\ h.version = shadow'[h.device].version
               => shadow'[h.device] = shadow[h.device] /\ gen'[h.device] = gen[h.device]
      BY <3>1, <3>2, HitKept
    <3>4. /\ h.gen = gen[h.device] /\ h.version = shadow[h.device].version
          => /\ shadow[h.device].state = "preoccupy"
             /\ now > shadow[h.device].updatedAt + PreoccupyTimeout
      BY <2>1 DEF HitsAreOverdue
    <3>5. now \in Nat /\ shadow[h.device].updatedAt \in Nat /\ PreoccupyTimeout \in Nat
      BY <3>1 DEF TypeOK
    <3>. QED  BY <3>3, <3>4, <3>5, ClockStep
  <2>2. CASE h \notin scan[m].hits
    <3>1. PICK d \in Device : /\ scan'[m].hits = HitsOf(m, d)
                              /\ UNCHANGED <<shadow, gen, now>>
      BY <2>2, ScanStep
    <3>2. /\ shadow[d].state = "preoccupy"
          /\ scan[m].now > shadow[d].updatedAt + PreoccupyTimeout
          /\ h = [device |-> d, version |-> shadow[d].version, gen |-> gen[d]]
      BY <3>1 DEF HitsOf, Overdue
    <3>3. /\ gen[d] \in Nat /\ shadow[d].version \in Nat
          /\ shadow[d].updatedAt \in Nat /\ scan[m].now \in Nat /\ now \in Nat
          /\ PreoccupyTimeout \in Nat /\ scan[m].now <= now
      BY DEF TypeOK, HitsInv
    <3>. QED  BY <3>1, <3>2, <3>3
  <2>. QED  BY <2>1, <2>2
<1>. QED  BY <1>2, <1>3 DEF HitsInv, HitsAreOverdue

\* The rollback scanner never misjudges: a hit it acts on is an overdue
\* preoccupation unless the shadow was written or expired after the scanner
\* read it (recoverExpiredPreoccupy), for any number of managers.
THEOREM ScannerNeverMisjudges == Spec => []HitsAreOverdue
<1>1. Init => HitsInv /\ HitsAreOverdue
  BY DEF Init, HitsInv, HitsAreOverdue, NoScan
<1>2. TypeOK /\ HitsInv /\ HitsAreOverdue /\ [Next]_vars
        => HitsInv' /\ HitsAreOverdue'
  BY HitsStep
<1>. QED  BY <1>1, <1>2, TypeCorrect, PTL DEF Spec

-----------------------------------------------------------------------------
(* The version of an event names the write *)

\* No event is ahead of the shadow it announces.
EventsInv ==
  \A e \in EventsSoFar :
    /\ e.gen <= gen[e.device]
    /\ e.gen = gen[e.device] => e.version <= shadow[e.device].version

\* A write adds its own event to those pending.
LEMMA WriteEvents ==
  ASSUME NEW d, NEW s, NEW by, Write(d, s, by), UNCHANGED published
  PROVE  EventsSoFar' = EventsSoFar \cup {EventOf(d, s)}
<1>. DEFINE new == [event |-> EventOf(d, s), by |-> by]
<1>1. unsent' = unsent \cup {new}
  BY DEF Write
<1>2. new.event = EventOf(d, s)
  OBVIOUS
<1>. HIDE DEF new
<1>. QED  BY <1>1, <1>2 DEF EventsSoFar

\* The events after a step are events from before, or the one event of a
\* write, which carries the version and the state that were written.
LEMMA EventStep ==
  ASSUME TypeOK, [Next]_vars, NEW e \in EventsSoFar', e \notin EventsSoFar
  PROVE  /\ e \in Event
         /\ e.gen = gen[e.device] /\ gen' = gen
         /\ e.version = shadow[e.device].version + 1
         /\ e.version = shadow'[e.device].version
         /\ e.state = shadow'[e.device].state
         /\ \A f \in EventsSoFar' : f \notin EventsSoFar => f = e
<1>. USE ConstantsAssumption
<1>1. ASSUME NEW d \in Device, NEW s \in State, NEW by, Write(d, s, by),
             UNCHANGED <<published, gen>>
      PROVE  /\ e = EventOf(d, s)
             /\ \A f \in EventsSoFar' : f \notin EventsSoFar => f = e
             /\ shadow'[d].version = shadow[d].version + 1
             /\ shadow'[d].state = s
  <2>1. EventsSoFar' = EventsSoFar \cup {EventOf(d, s)}
    BY <1>1, WriteEvents
  <2>2. /\ shadow'[d].version = shadow[d].version + 1
        /\ shadow'[d].state = s
    BY <1>1 DEF TypeOK, Write
  <2>. QED  BY <2>1, <2>2
<1>2. PICK d \in Device, s \in State, by \in Manager \cup {Caller} :
        Write(d, s, by) /\ UNCHANGED <<published, gen>>
  <2>1. ASSUME EventsSoFar' \subseteq EventsSoFar PROVE FALSE
    BY <2>1
  <2>2. ASSUME UNCHANGED <<published, unsent>> PROVE FALSE
    BY <2>1, <2>2 DEF EventsSoFar
  <2>3. ASSUME NEW u \in unsent, PublishEvent(u) PROVE FALSE
    BY <2>1, <2>3 DEF EventsSoFar, PublishEvent
  <2>4. ASSUME NEW m \in Manager, ScanRollback(m)
        PROVE  \E h \in scan[m].hits : /\ Write(h.device, "idle", m)
                                       /\ h.device \in Device
                                       /\ UNCHANGED <<published, gen>>
    BY <2>2, <2>4 DEF ScanRollback, TypeOK, Hit
  <2>. QED
    BY <2>2, <2>3, <2>4, StateNames, Zenon
       DEF Next, vars, Touch, TryPreoccupy, Heartbeat, ReportState, MarkOffline,
           ScanStart, ScanDevice, ScanError, Tick
<1>3. e = EventOf(d, s)
  BY <1>1, <1>2
<1>4. e \in Event /\ e.device = d /\ e.state = s /\ e.gen = gen[d]
        /\ e.version = shadow[d].version + 1
  BY <1>3 DEF EventOf, Event, TypeOK
<1>. QED  BY <1>1, <1>2, <1>4

\* Events are events: the type of what has been written so far.
LEMMA EventsType == TypeOK => EventsSoFar \subseteq Event
BY DEF TypeOK, EventsSoFar

\* An event from before a step that still carries the version of its shadow
\* afterwards carried it before, and the shadow was not touched.
LEMMA EventKept ==
  ASSUME TypeOK, [Next]_vars, NEW e \in Event,
         e.gen <= gen[e.device],
         e.gen = gen[e.device] => e.version <= shadow[e.device].version
  PROVE  /\ e.gen <= gen'[e.device]
         /\ e.gen = gen'[e.device] => e.version <= shadow'[e.device].version
         /\ e.gen = gen'[e.device] /\ e.version = shadow'[e.device].version
              => shadow'[e.device] = shadow[e.device] /\ gen'[e.device] = gen[e.device]
<1>1. e.device \in Device /\ e.gen \in Nat /\ e.version \in Nat
  BY DEF Event
<1>2. gen[e.device] \in Nat /\ shadow[e.device].version \in Nat
  BY <1>1 DEF TypeOK
<1>3. Untouched(e.device) \/ Written(e.device) \/ Expired(e.device)
  BY <1>1, StepEffect
<1>. QED  BY <1>1, <1>2, <1>3 DEF Untouched, Written, Expired

\* Every step keeps EventsInv and VersionNamesState.
LEMMA EventsInvStep ==
  ASSUME TypeOK, EventsInv, VersionNamesState, [Next]_vars
  PROVE  EventsInv' /\ VersionNamesState'
<1>1. \A e \in EventsSoFar : e \in Event
  BY EventsType
<1>2. ASSUME NEW e \in EventsSoFar
      PROVE  /\ e.gen <= gen'[e.device]
             /\ e.gen = gen'[e.device] => e.version <= shadow'[e.device].version
             /\ e.gen = gen'[e.device] /\ e.version = shadow'[e.device].version
                  => e.state = shadow'[e.device].state
  <2>1. /\ e.gen <= gen[e.device]
        /\ e.gen = gen[e.device] => e.version <= shadow[e.device].version
    BY DEF EventsInv
  <2>2. /\ e.gen <= gen'[e.device]
        /\ e.gen = gen'[e.device] => e.version <= shadow'[e.device].version
        /\ e.gen = gen'[e.device] /\ e.version = shadow'[e.device].version
             => shadow'[e.device] = shadow[e.device] /\ gen'[e.device] = gen[e.device]
    BY <1>1, <2>1, EventKept
  <2>. QED  BY <2>2 DEF VersionNamesState
<1>3. ASSUME NEW e \in EventsSoFar', e \notin EventsSoFar
      PROVE  /\ e.gen <= gen'[e.device]
             /\ e.gen = gen'[e.device] => e.version <= shadow'[e.device].version
             /\ e.state = shadow'[e.device].state
             /\ \A f \in EventsSoFar' :
                  f # e => f \in EventsSoFar /\ ~SameWrite(e, f) /\ ~SameWrite(f, e)
  <2>1. /\ e \in Event
        /\ e.gen = gen[e.device] /\ gen' = gen
        /\ e.version = shadow[e.device].version + 1
        /\ e.version = shadow'[e.device].version
        /\ e.state = shadow'[e.device].state
        /\ \A f \in EventsSoFar' : f \notin EventsSoFar => f = e
    BY <1>3, EventStep
  <2>2. e.gen \in Nat /\ e.version \in Nat /\ shadow[e.device].version \in Nat
    BY <2>1 DEF Event, TypeOK
  <2>3. ASSUME NEW f \in EventsSoFar', f # e
        PROVE  f \in EventsSoFar /\ ~SameWrite(e, f) /\ ~SameWrite(f, e)
    <3>1. f \in EventsSoFar
      BY <2>1, <2>3
    <3>2. f.gen = gen[f.device] => f.version <= shadow[f.device].version
      BY <3>1 DEF EventsInv
    <3>. QED  BY <2>1, <2>2, <3>1, <3>2 DEF SameWrite
  <2>. QED  BY <2>1, <2>2, <2>3
<1>4. EventsInv'
  BY <1>2, <1>3 DEF EventsInv
<1>5. ASSUME NEW e \in EventsSoFar', NEW f \in EventsSoFar', SameWrite(e, f)
      PROVE  e.state = f.state
  <2>1. CASE e \in EventsSoFar /\ f \in EventsSoFar
    BY <1>5, <2>1 DEF VersionNamesState
  <2>2. CASE e \notin EventsSoFar \/ f \notin EventsSoFar
    BY <1>3, <1>5, <2>2
  <2>. QED  BY <2>1, <2>2
<1>6. ASSUME NEW e \in EventsSoFar',
             e.gen = gen'[e.device], e.version = shadow'[e.device].version
      PROVE  e.state = shadow'[e.device].state
  BY <1>2, <1>3, <1>6
<1>7. VersionNamesState'
  <2>1. \A e, f \in EventsSoFar' : SameWrite(e, f) => e.state = f.state
    BY <1>5
  <2>. QED  BY <2>1, <1>6 DEF VersionNamesState, SameWrite
<1>. QED  BY <1>4, <1>7

\* An event's version identifies the write it announces, however late and in
\* whatever order the events are published (publishEvent).
THEOREM VersionIdentifiesWrite == Spec => []VersionNamesState
<1>1. Init => EventsInv /\ VersionNamesState
  BY DEF Init, EventsInv, VersionNamesState, EventsSoFar
<1>2. TypeOK /\ EventsInv /\ VersionNamesState /\ [Next]_vars
        => EventsInv' /\ VersionNamesState'
  BY EventsInvStep
<1>. QED  BY <1>1, <1>2, TypeCorrect, PTL DEF Spec

-----------------------------------------------------------------------------
(* No write is silent *)

\* No event is forgotten, and a write that bumps the version of a device
\* leaves an event with that version.
LEMMA WritesAnnounced ==
  ASSUME TypeOK, [Next]_vars
  PROVE  /\ EventsSoFar \subseteq EventsSoFar'
         /\ \A d \in Device :
              Written(d) /\ ~Untouched(d) =>
                \E e \in EventsSoFar' : /\ e.device = d /\ e.gen = gen[d]
                                       /\ e.version = shadow[d].version + 1
<1>. DEFINE Announced(d) ==
       \E e \in EventsSoFar' : /\ e.device = d /\ e.gen = gen[d]
                               /\ e.version = shadow[d].version + 1
            Goal == /\ EventsSoFar \subseteq EventsSoFar'
                    /\ \A d \in Device : Untouched(d) \/ Expired(d) \/ Announced(d)
<1>1. ASSUME NEW d \in Device, NEW s \in State, NEW by, Write(d, s, by),
             UNCHANGED <<published, gen>>
      PROVE  Goal
  <2>1. EventsSoFar' = EventsSoFar \cup {EventOf(d, s)}
    BY <1>1, WriteEvents
  <2>2. Announced(d)
    <3>1. EventOf(d, s) \in EventsSoFar'
      BY <2>1
    <3>2. /\ EventOf(d, s).device = d /\ EventOf(d, s).gen = gen[d]
          /\ EventOf(d, s).version = shadow[d].version + 1
      BY DEF EventOf
    <3>. QED  BY <3>1, <3>2
  <2>3. \A c \in Device : c # d => Untouched(c)
    BY <1>1 DEF TypeOK, Write, Untouched
  <2>. QED  BY <2>1, <2>2, <2>3
<1>2. ASSUME UNCHANGED <<shadow, gen, published, unsent>> PROVE Goal
  BY <1>2 DEF EventsSoFar, Untouched
<1>3. ASSUME NEW u \in unsent, PublishEvent(u) PROVE Goal
  BY <1>3 DEF EventsSoFar, PublishEvent, Untouched
<1>4. ASSUME NEW m \in Manager, ScanRollback(m) PROVE Goal
  <2>1. PICK h \in scan[m].hits :
          \/ Write(h.device, "idle", m) /\ UNCHANGED <<published, gen>>
          \/ UNCHANGED <<shadow, gen, published, unsent>>
    BY <1>4 DEF ScanRollback
  <2>2. h.device \in Device
    BY DEF TypeOK, Hit
  <2>. QED  BY <1>1, <1>2, <2>1, <2>2, StateNames
<1>5. ASSUME Tick PROVE Goal
  BY <1>5 DEF Tick, EventsSoFar, Untouched, Expired
<1>6. Goal
  <2>. HIDE DEF Goal
  <2>1. ASSUME NEW d \in Device, NEW s \in State, ReportState(d, s) PROVE Goal
    BY <1>1, <1>2, <2>1 DEF ReportState
  <2>. QED
    BY <1>1, <1>2, <1>3, <1>4, <1>5, <2>1, StateNames, Zenon
       DEF Next, vars, Touch, TryPreoccupy, Heartbeat, MarkOffline,
           ScanStart, ScanDevice, ScanError
<1>7. ASSUME NEW d \in Device, Written(d), Expired(d) PROVE FALSE
  <2>1. gen[d] \in Nat
    BY DEF TypeOK
  <2>. QED  BY <1>7, <2>1 DEF Written, Expired
<1>. QED  BY <1>6, <1>7

\* Every version a shadow has had since it exists is announced by an event
\* that is published, lost to an error of Redis or about to be published
\* (TryPreoccupy, Transition and ReportHeartbeatWithGateway publish after every
\* successful script).
THEOREM NoSilentWrite == Spec => []EveryWriteAnnounced
<1>1. Init => EveryWriteAnnounced
  BY DEF Init, EveryWriteAnnounced, Absent
<1>2. ASSUME TypeOK, EveryWriteAnnounced, [Next]_vars PROVE EveryWriteAnnounced'
  <2>. SUFFICES ASSUME NEW d \in Device,
                       NEW v \in 1 .. shadow'[d].version
                PROVE  \E e \in EventsSoFar' :
                         e.device = d /\ e.gen = gen'[d] /\ e.version = v
    BY DEF EveryWriteAnnounced
  <2>1. shadow[d].version \in Nat /\ gen[d] \in Nat
    BY <1>2 DEF TypeOK
  <2>2. EventsSoFar \subseteq EventsSoFar'
    BY <1>2, WritesAnnounced
  <2>3. CASE Untouched(d)
    BY <1>2, <2>2, <2>3 DEF Untouched, EveryWriteAnnounced
  <2>4. CASE Written(d) /\ ~Untouched(d)
    <3>1. CASE v = shadow[d].version + 1
      BY <1>2, <2>4, <3>1, WritesAnnounced DEF Written
    <3>2. CASE v # shadow[d].version + 1
      <4>1. v \in 1 .. shadow[d].version /\ gen'[d] = gen[d]
        BY <2>1, <2>4, <3>2 DEF Written
      <4>. QED  BY <1>2, <2>2, <4>1 DEF EveryWriteAnnounced
    <3>. QED  BY <3>1, <3>2
  <2>5. CASE Expired(d)
    BY <2>5 DEF Expired, Absent
  <2>. QED  BY <1>2, <2>3, <2>4, <2>5, StepEffect
<1>3. TypeOK /\ EveryWriteAnnounced /\ [Next]_vars => EveryWriteAnnounced'
  BY <1>2
<1>. QED  BY <1>1, <1>3, TypeCorrect, PTL DEF Spec

-----------------------------------------------------------------------------
(* The shadow keeps its promise *)

\* Initially every device reads as offline at version 0.
LEMMA InitPromise == Init => Promise!Init
BY DEF Init, Promise!Init, Absent

\* Every step is a step of the promise: what it does to one device is to
\* keep, refresh, move or forget it.
LEMMA StepPromise ==
  ASSUME TypeOK, [Next]_vars
  PROVE  Promise!Next
<1>1. TypeOK'
  BY NextType
<1>2. [d \in Device |-> shadow[d].state]' \in [Device -> State]
  BY <1>1 DEF TypeOK
<1>3. [d \in Device |-> shadow[d].version]' \in [Device -> Nat]
  BY <1>1 DEF TypeOK
<1>4. ASSUME NEW d \in Device
      PROVE  \/ Promise!Keep(d) \/ Promise!Refresh(d) \/ Promise!Move(d)
             \/ Promise!Appear(d) \/ Promise!Forget(d)
  <2>1. CASE Untouched(d)
    BY <2>1 DEF Untouched, Promise!Keep
  <2>2. CASE Written(d)
    BY <2>2 DEF Written, Promise!Refresh, Promise!Move, Promise!CanTransition,
                Promise!transitions, CanTransition, transitions
  <2>3. CASE Expired(d)
    BY <2>3 DEF Expired, Absent, Promise!Forget
  <2>. QED  BY <2>1, <2>2, <2>3, StepEffect
<1>. QED  BY <1>2, <1>3, <1>4 DEF Promise!Next, Promise!State, State

\* The Redis-mode shadow implements its abstract specification: scripts,
\* scanners and expiry move a device only along the Go transition table and
\* count every write.
THEOREM ShadowKeepsPromise == Spec => KeepsPromise
<1>1. Init => Promise!Init
  BY InitPromise
<1>2. TypeOK /\ [Next]_vars => Promise!Next
  BY StepPromise
<1>. QED  BY <1>1, <1>2, TypeCorrect, PTL DEF Spec, KeepsPromise, Promise!Spec
=============================================================================
