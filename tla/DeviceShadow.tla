---------------------------- MODULE DeviceShadow ----------------------------
(***************************************************************************)
(* What the device shadow promises its readers, whatever stores it: for    *)
(* each device a state that moves only along the transition table, and a   *)
(* version that counts every write.  A device without a shadow reads as    *)
(* offline at version 0.  The shadow may appear as idle without a write    *)
(* (local mode creates it so), and it may be forgotten (its Redis hash     *)
(* expires).  Shadow (Redis) and ShadowLocal (in-process maps) implement   *)
(* this.                                                                   *)
(***************************************************************************)
EXTENDS Naturals, ShadowTable

CONSTANT Device

VARIABLES
  state,    \* state[d]: the business state C-end clients are shown
  version   \* version[d]: the number of writes since the shadow exists

TypeOK ==
  /\ state   \in [Device -> State]
  /\ version \in [Device -> Nat]

Init ==
  /\ state   = [d \in Device |-> "offline"]
  /\ version = [d \in Device |-> 0]

Keep(d)    == state'[d] = state[d] /\ version'[d] = version[d]
Refresh(d) == state'[d] = state[d] /\ version'[d] = version[d] + 1
Move(d)    == CanTransition(state[d], state'[d]) /\ version'[d] = version[d] + 1

\* The first contact with a device may count as contact with an idle one.
Appear(d) ==
  /\ state[d] = "offline" /\ version[d] = 0
  /\ \/ state'[d] = "idle" /\ version'[d] = 0
     \/ CanTransition("idle", state'[d]) /\ version'[d] = 1

Forget(d)  == state'[d] = "offline" /\ version'[d] = 0

Next ==
  /\ state'   \in [Device -> State]
  /\ version' \in [Device -> Nat]
  /\ \A d \in Device :
       Keep(d) \/ Refresh(d) \/ Move(d) \/ Appear(d) \/ Forget(d)

Spec == Init /\ [][Next]_<<state, version>>
=============================================================================
