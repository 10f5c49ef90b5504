---------------------------- MODULE ShadowTable ----------------------------
(***************************************************************************)
(* The device-shadow states and the four places where the code decides     *)
(* whether a change of state is legal: the Go table `transitions', the Go  *)
(* white list `legalReport' (local mode) and the guards of the three Redis *)
(* scripts.  They are written independently of one another in the source,  *)
(* and independently here; that they agree is what the refinement of       *)
(* DeviceShadow by Shadow and by ShadowLocal establishes.                  *)
(***************************************************************************)

State == {"idle", "preoccupy", "charging", "fault", "offline"}

\* The wild card of Transition: "from any state".
AnyState == "*"

\* The Go table, as the set of legal pairs <<from, to>>.
transitions ==
  ({"idle"}      \X {"preoccupy", "charging", "fault", "offline"}) \cup
  ({"preoccupy"} \X {"idle", "charging", "fault", "offline"})      \cup
  ({"charging"}  \X {"idle", "fault", "offline"})                  \cup
  ({"fault"}     \X {"idle", "fault", "offline"})                  \cup
  ({"offline"}   \X {"idle", "preoccupy", "fault", "offline"})

CanTransition(from, to) == <<from, to>> \in transitions

\* luaPreoccupy: only an idle or an offline device can be grabbed.
Preoccupiable(state) == state \in {"idle", "offline"}

\* luaTransition: a repetition is always legal, the wild card only leads to
\* fault and offline, anything else needs the state the caller expects.
LuaTransitionLegal(state, from, to) ==
  \/ to = state
  \/ from = AnyState /\ to \in {"fault", "offline"}
  \/ from # AnyState /\ state = from

\* Mutant: a pile that was offline may come back charging.
LuaReportLegalFromOffline(cur, to) ==
  \/ to = "idle"     /\ cur \in {"preoccupy", "charging", "offline", "fault"}
  \/ to = "charging" /\ cur \in {"preoccupy", "idle", "offline"}
  \/ to \in {"fault", "offline"}

\* luaHeartbeat: what a pile may report in each state.
LuaReportLegal(cur, to) ==
  \/ to = cur
  \/ to = "idle"     /\ cur \in {"preoccupy", "charging", "offline", "fault"}
  \/ to = "charging" /\ cur \in {"preoccupy", "idle"}
  \/ to \in {"fault", "offline"}

\* Mutant: a pile that was offline may come back charging.
legalReportFromOffline(cur, to) ==
  \/ to = "idle"     /\ cur \in {"preoccupy", "charging", "offline", "fault"}
  \/ to = "charging" /\ cur \in {"preoccupy", "idle", "offline"}
  \/ to \in {"fault", "offline"}

\* The Go white list of local mode.
legalReport(cur, to) ==
  \/ to = "idle"     /\ cur \in {"preoccupy", "charging", "offline", "fault"}
  \/ to = "charging" /\ cur \in {"preoccupy", "idle"}
  \/ to \in {"fault", "offline"}
  \/ to = "preoccupy" /\ cur = to

=============================================================================
