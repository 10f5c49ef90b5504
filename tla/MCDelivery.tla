----------------------------- MODULE MCDelivery -----------------------------
(***************************************************************************)
(* The charge flow and the life cycle of the servers, each with what it    *)
(* owes in the end, side by side in one state space: part says which of    *)
(* them runs, the other rests in an initial state in which it owes no      *)
(* step.                                                                   *)
(***************************************************************************)
EXTENDS MCChargeFlow, Lifecycle

VARIABLE part

MCInit ==
  /\ part \in {"charge", "life"}
  /\ Init /\ LifeInit
  /\ kafka = "up" /\ (part # "life" => mode = "redis")

MCNext ==
  /\ UNCHANGED part
  /\ \/ part = "charge" /\ Next /\ UNCHANGED lifeVars
     \/ part = "life" /\ LifeNext /\ UNCHANGED vars

MCSpec ==
  /\ MCInit /\ [][MCNext]_<<part, vars, lifeVars>>
  /\ DeliveryFairness /\ LifeFairness
=============================================================================
