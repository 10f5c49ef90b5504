--------------------------- MODULE MCIotSessions ---------------------------
(* IotSessions for TLC: one pile with two connections, which reconnects     *)
(* before the first has closed.                                             *)
EXTENDS IotSessions, TLC

CONSTANTS d1, quic1, dtls1

OnePileOwner == (quic1 :> d1) @@ (dtls1 :> d1)
=============================================================================
