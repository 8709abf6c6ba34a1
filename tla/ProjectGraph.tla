---------------------------- MODULE ProjectGraph ----------------------------
(***************************************************************************)
(* Which projects of a config a run schedules, in which order, and what    *)
(* each waits for: scheduled_projects, topo_sort_projects and the          *)
(* prerequisite table of execute_projects_with_summary, in                 *)
(* crates/ferridriver-test/src/runner.rs.                                  *)
(*                                                                         *)
(* Projects are their indices in the config.  A graph is a record of the   *)
(* configuration and the command line; see Graph.                          *)
(***************************************************************************)
EXTENDS Integers, SequencesExt, FiniteSetsExt

CONSTANT N  \* number of projects

ASSUME ProjectsAssumption == N \in Nat \ {0}

Projects == 1..N

NoProject == 0

(* deps[p]: `dependencies`; teardown[p]: `teardown`; cli: --teardown;      *)
(* selected: --project; noDeps: --no-deps; tests[p]: tests left after      *)
(* every filter.                                                           *)
Graph ==
  [deps : [Projects -> SUBSET Projects],
   teardown : [Projects -> Projects \cup {NoProject}],
   cli : Projects \cup {NoProject},
   selected : SUBSET Projects,
   noDeps : BOOLEAN,
   tests : [Projects -> Nat]]

(* The elements of a set of integers, in ascending order. *)
InOrder(set) ==
  [i \in 1..Cardinality(set) |-> CHOOSE x \in set : Cardinality({y \in set : y < x}) = i - 1]

(* The elements of s that are in set, in their order: filter() and retain(). *)
Only(s, set) ==
  LET kept == InOrder({i \in DOMAIN s : s[i] \in set})
  IN  [i \in DOMAIN kept |-> s[kept[i]]]

(* Kahn's algorithm, one node per step, in index order. *)
KahnStart(deps) ==
  [degree |-> [p \in Projects |-> Cardinality(deps[p])],
   ready |-> InOrder({p \in Projects : deps[p] = {}}),
   order |-> <<>>]

KahnStep(deps, s) ==
  LET node   == Head(s.ready)
      degree == [p \in Projects |-> s.degree[p] - (IF node \in deps[p] THEN 1 ELSE 0)]
      freed  == {p \in Projects : node \in deps[p] /\ degree[p] = 0}
  IN  [degree |-> degree,
       ready |-> Tail(s.ready) \o InOrder(freed),
       order |-> Append(s.order, node)]

(* Playwright's buildProjectsClosure: the selected projects, what they     *)
(* depend on and what tears them down.                                     *)
Closure(g) ==
  LET Linked(p) == g.deps[p] \cup ({g.teardown[p]} \ {NoProject})
      grown[k \in 0..N] ==
        IF k = 0 THEN g.selected
        ELSE grown[k - 1] \cup UNION {Linked(p) : p \in grown[k - 1]}
  IN  IF g.noDeps THEN g.selected ELSE grown[N]

(* scheduled_projects, once the projects are sorted. *)
Scheduled(g, order) ==
  LET sorted == Only(order, Closure(g))
  IN  IF g.cli = NoProject \/ g.cli \in Range(sorted) THEN sorted ELSE Append(sorted, g.cli)

(* teardown_parent: the last project that declares p its teardown. *)
TeardownParent(g, p) ==
  Max({q \in Projects : g.teardown[q] = p} \cup {NoProject})

(* What p waits for, among the scheduled projects: its dependencies, which *)
(* must pass, and projects that only have to be over.                      *)
MustPass(g, order, p) == g.deps[p] \cap Range(order)

CliOnly(g, order, p) ==                   \* mutant: forgets the declaring project
  {q \in Range(order) : p = g.cli /\ q # p}

MustEnd(g, order, p) ==
  {q \in Range(order) : q = TeardownParent(g, p) \/ (p = g.cli /\ q # p)}

-----------------------------------------------------------------------------
(* What no order can serve: projects each of which waits for one of them.  *)
HasCircle(waits) ==
  \E set \in SUBSET Projects : set # {} /\ \A p \in set : waits[p] \cap set # {}

(* Whom p may have to wait for.                                            *)
WaitsOf(g) ==
  [p \in Projects |->
     g.deps[p] \cup {q \in Projects : q = TeardownParent(g, p) \/ (p = g.cli /\ q # p)}]

(* No project is the teardown of two.                                      *)
OneParent(g) ==
  \A p, q \in Projects : g.teardown[p] = g.teardown[q] /\ g.teardown[p] # NoProject => p = q

(* The teardowns of g add no circle of waits to its dependencies.          *)
Harmless(g) == HasCircle(WaitsOf(g)) => HasCircle(g.deps)
=============================================================================
