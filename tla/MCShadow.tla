------------------------------ MODULE MCShadow ------------------------------
(***************************************************************************)
(* Shadow for TLC.  One pile is enough for the questions asked: no script  *)
(* reads two devices.  The two managers are those of the two servers.      *)
(***************************************************************************)
EXTENDS Shadow

CONSTANTS cend, iot
=============================================================================
