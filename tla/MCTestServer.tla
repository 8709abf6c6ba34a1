---------------------------- MODULE MCTestServer ----------------------------
(***************************************************************************)
(* A session for TestServer: a project of two tests and one of one test,   *)
(* two runs, and the calls that may come before, between and during them.  *)
(***************************************************************************)
EXTENDS TestServer

CONSTANTS p1, p2

TwoAndOne == [p \in Projects |-> IF p = p1 THEN 2 ELSE 1]
TwoRuns == [k \in Kinds |-> IF k = "run" THEN 2 ELSE 1]
=============================================================================
