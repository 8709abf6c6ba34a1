---------------------------- MODULE LockSections ----------------------------
(***************************************************************************)
(* What the test locks promise: a holder asks for a set of names, enters   *)
(* with all of them at once, and nobody is inside together with a holder   *)
(* that shares a name with it.  "Tests that name the same lock never run   *)
(* at the same time, across files, workers and projects" (the header of    *)
(* crates/ferridriver-test/src/locks.rs).                                  *)
(***************************************************************************)
CONSTANTS Holders, Names

VARIABLES
  stage,  \* stage[h]: "idle", "acquiring" or "holding"
  names   \* names[h]: what h asked for and has not given back

Init ==
  /\ stage = [h \in Holders |-> "idle"]
  /\ names = [h \in Holders |-> {}]

Ask(h, wish) ==
  /\ stage[h] = "idle"
  /\ stage' = [stage EXCEPT ![h] = "acquiring"]
  /\ names' = [names EXCEPT ![h] = wish]

Enter(h) ==
  /\ stage[h] = "acquiring"
  /\ \A g \in Holders : stage[g] = "holding" => names[g] \cap names[h] = {}
  /\ stage' = [stage EXCEPT ![h] = "holding"]
  /\ UNCHANGED names

Leave(h) ==
  /\ stage[h] = "holding"
  /\ stage' = [stage EXCEPT ![h] = "idle"]
  /\ names' = [names EXCEPT ![h] = {}]

Next ==
  \E h \in Holders :
    \/ \E wish \in SUBSET Names : Ask(h, wish)
    \/ Enter(h)
    \/ Leave(h)

Spec == Init /\ [][Next]_<<stage, names>>
=============================================================================
