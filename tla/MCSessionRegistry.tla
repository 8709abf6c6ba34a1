-------------------------- MODULE MCSessionRegistry --------------------------
(***************************************************************************)
(* Bindings for SessionRegistry: two of one process, through bind_global,   *)
(* and one of a CLI host that was given the same port as the first.         *)
(***************************************************************************)
EXTENDS SessionRegistry

CONSTANTS s1, s2, s3, p1, p2, i1, i2

(* The second shares the id of the first and the host, or has its own; if it shares *)
(* the id it may be of another browser.                                             *)
Second(i, b) == [id |-> [s \in Servers |-> IF s = s2 THEN i ELSE i1],
                 browser |-> [s \in Servers |-> IF s = s2 THEN b ELSE s1]]
SameOrOther == {Second(i1, s1), Second(i1, s2), Second(i2, s1)}
Where == [s \in Servers |-> IF s = s3 THEN p2 ELSE p1]
Port == [s \in Servers |-> IF s = s2 THEN 2 ELSE 1]
=============================================================================
