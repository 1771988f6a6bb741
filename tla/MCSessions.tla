---------------------------- MODULE MCSessions ----------------------------
(***************************************************************************)
(* Instances of AuthSessions for TLC.                                      *)
(***************************************************************************)
EXTENDS AuthSessions
===========================================================================
