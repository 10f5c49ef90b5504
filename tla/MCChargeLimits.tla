--------------------------- MODULE MCChargeLimits ---------------------------
(***************************************************************************)
(* The charge flow and the limiters, which do not interact, side by side   *)
(* in one state space: part says which of them runs, the other rests in    *)
(* its initial state.                                                      *)
(***************************************************************************)
EXTENDS MCChargeFlow, Limits

VARIABLE part

MCInit == part \in {"charge", "limits"} /\ Init /\ LimInit

MCNext ==
  /\ UNCHANGED part
  /\ \/ part = "charge" /\ Next /\ UNCHANGED limVars
     \/ part = "limits" /\ LimNext /\ UNCHANGED vars

MCSpec == MCInit /\ [][MCNext]_<<part, vars, limVars>>
=============================================================================
