---------------------------- MODULE MCCdpChannel ----------------------------
(***************************************************************************)
(* Small connections for CdpChannel.                                       *)
(***************************************************************************)
EXTENDS CdpChannel

CONSTANTS c1, c2, s1

(* One command on a session and one on the browser. *)
OnePerSession == [c \in Commands |-> IF c = c1 THEN s1 ELSE Root]
=============================================================================
