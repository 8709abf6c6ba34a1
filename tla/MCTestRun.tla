------------------------------ MODULE MCTestRun ------------------------------
(***************************************************************************)
(* Small plans for TestRun.                                                *)
(***************************************************************************)
EXTENDS TestRun

CONSTANTS t1, t2, t3, s1, s2, lock

Single(t) == [serial |-> FALSE, tests |-> <<t>>]
Group(ts) == [serial |-> TRUE, tests |-> ts]

(* Two tests that share a lock, one of them in a serial group. *)
MixedPlan == <<Single(t1), Group(<<t2, t3>>)>>

SinglesPlan == <<Single(t1), Single(t2), Single(t3)>>

AllGroupsPlan == <<Group(<<t1, t2>>), Single(t3)>>

OneRepetition == [t \in Tests |-> 1]
TwoRepetitions == [t \in Tests |-> IF t = t3 THEN 2 ELSE 1]

LockT1T3 == [t \in Tests |-> IF t \in {t1, t3} THEN {lock} ELSE {}]
NoLocks == [t \in Tests |-> {}]

(* t1 is on its own. *)
TwoSuites == [t \in Tests |-> IF t = t1 THEN s1 ELSE s2]
OneSuite == [t \in Tests |-> s1]

ExpectPass == [t \in Tests |-> "Pass"]
T1ExpectsFail == [t \in Tests |-> IF t = t1 THEN "Fail" ELSE "Pass"]

OneRetry == [t \in Tests |-> 2]
NoRetry == [t \in Tests |-> 1]
=============================================================================
