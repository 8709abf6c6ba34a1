----------------------------- MODULE MCProjects -----------------------------
(***************************************************************************)
(* Families of small project configurations for ProjectScheduler.          *)
(***************************************************************************)
EXTENDS ProjectScheduler

NoTeardown == [p \in Projects |-> NoProject]

OnlyEarlier == {d \in [Projects -> SUBSET Projects] : \A p \in Projects : d[p] \subseteq 1..(p - 1)}

Tests == {[p \in Projects |-> 2], [p \in Projects |-> IF p = 1 THEN 0 ELSE 1]}

Config(deps, teardown, cli, tests, selected, noDeps) ==
  [deps |-> deps, teardown |-> teardown, cli |-> cli, selected |-> selected,
   noDeps |-> noDeps, tests |-> tests]

(* Every dependency graph, cyclic ones included. *)
AllDependencies ==
  {Config(deps, NoTeardown, NoProject, tests, selected, FALSE) :
     deps \in [Projects -> SUBSET Projects], tests \in Tests, selected \in {Projects, {N}}}

(* Acyclic dependencies with declared and command-line teardowns, all      *)
(* projects selected.                                                      *)
WithTeardowns ==
  {Config(deps, teardown, cli, [p \in Projects |-> IF p = 1 THEN 1 ELSE 2], Projects, FALSE) :
     deps \in OnlyEarlier, teardown \in [Projects -> Projects \cup {NoProject}],
     cli \in Projects \cup {NoProject}}

(* Nobody waits for itself through a teardown, and no teardown is shared. *)
SoundTeardowns == {g \in WithTeardowns : OneParent(g) /\ ~HasCircle(WaitsOf(g))}

DependenciesAndTeardowns == AllDependencies \cup SoundTeardowns

(* What two theorems of ProjectProofs ask of the configurations.           *)
ASSUME FamiliesAssumption ==
  \A g \in DependenciesAndTeardowns : OneParent(g) /\ Harmless(g)
=============================================================================
