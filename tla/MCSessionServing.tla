-------------------------- MODULE MCSessionServing --------------------------
(***************************************************************************)
(* Connections for SessionServing: one client that sends commands ahead    *)
(* and one that sends a single command.                                    *)
(***************************************************************************)
EXTENDS SessionServing

CONSTANTS c1, c2

TwoAndOne == [c \in Clients |-> IF c = c1 THEN 2 ELSE 1]
OnlyCommands == [c \in Clients |-> IF c = c1 THEN Kinds ELSE {"run", "close"}]
=============================================================================
