---------------------------- MODULE MCCendServer ----------------------------
(***************************************************************************)
(* CendServer for TLC: one user who connects again, or one who shares the  *)
(* server with a client that has no token.                                 *)
(***************************************************************************)
EXTENDS CendServer

CONSTANTS c1, c2, alice

OneUser  == [c \in Conn |-> alice]
OneGuest == [c \in Conn |-> IF c = c1 THEN alice ELSE None]
=============================================================================
