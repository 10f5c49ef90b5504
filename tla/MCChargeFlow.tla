---------------------------- MODULE MCChargeFlow ----------------------------
(* Small instances of ChargeFlow for TLC. *)
EXTENDS ChargeFlow, TLC

\* Requests of the same kind are interchangeable.
StartSymmetry == Permutations(Start)
=============================================================================
