-------------------------- MODULE ProjectScheduler --------------------------
(***************************************************************************)
(* The ready-set scheduler of execute_projects_with_summary in             *)
(* crates/ferridriver-test/src/runner.rs.  It launches every project whose *)
(* prerequisites are over, within a cap on projects and a budget of worker *)
(* slots, and goes on when one of the spawned runs is joined.  A project's *)
(* own run is one step that ends with some exit status (module TestRun).   *)
(*                                                                         *)
(* The graph is chosen in the initial state and never changes.             *)
(***************************************************************************)
EXTENDS ProjectGraph, Outcome

CONSTANTS
  Graphs,       \* the configurations considered
  MaxParallel,  \* max_parallel_projects; 0 is unbounded
  WorkerCount,  \* config.worker_count(), the same for every project
  StopAllowed,  \* whether somebody may request a stop
  MayPanic      \* whether a project's task may panic

ASSUME SchedulerAssumption ==
  /\ Graphs \subseteq Graph
  /\ MaxParallel \in Nat
  /\ WorkerCount \in Nat \ {0}
  /\ StopAllowed \in BOOLEAN /\ MayPanic \in BOOLEAN

VARIABLES
  graph,          \* the configuration
  sort,           \* in-degrees, queue and order of topo_sort_projects
  scheduled,      \* the projects to run, in dependency order
  prereqs,        \* prereqs[p]: [pass, end], what p waits for
  pc,             \* "sort", "scan" (launching), "join" (awaiting), "report" or "done"
  remaining,      \* scheduled projects not started, in order
  running,        \* spawned projects whose run goes on
  ended,          \* ended[p]: exit status of a run not joined yet, or "None"
  lease,          \* lease[p]: worker slots p's task holds
  terminal, passed,
  stopRequested,
  exitCode,
  launched        \* auxiliary: the projects that were spawned

plan == <<graph, sort, scheduled, prereqs>>
vars == <<graph, sort, scheduled, prereqs, pc, remaining, running, ended, lease, terminal, passed,
          stopRequested, exitCode, launched>>

Init ==
  /\ graph \in Graphs
  /\ sort = KahnStart(graph.deps)
  /\ scheduled = <<>>
  /\ prereqs = [p \in Projects |-> [pass |-> {}, end |-> {}]]
  /\ pc = "sort"
  /\ remaining = <<>>
  /\ running = {}
  /\ ended = [p \in Projects |-> "None"]
  /\ lease = [p \in Projects |-> 0]
  /\ terminal = {}
  /\ passed = {}
  /\ stopRequested = FALSE
  /\ exitCode = "Passed"
  /\ launched = {}

Least(a, b) == IF a < b THEN a ELSE b

Greatest(a, b) == IF a > b THEN a ELSE b

(* The tests of the scheduled projects, by their numbers. *)
AllTests == UNION {{p} \X (1..graph.tests[p]) : p \in Range(scheduled)}

(* num_workers: never more workers than tests. *)
Slots == Greatest(1, Least(WorkerCount, Cardinality(AllTests)))

LentSlots == UNION {{p} \X (1..lease[p]) : p \in Projects}

Available == Slots - Cardinality(LentSlots)

Cap == IF MaxParallel = 0 THEN Greatest(1, Len(scheduled)) ELSE MaxParallel

InFlight == running \cup {p \in Projects : ended[p] # "None"}

Waited(p) == prereqs[p].pass \cup prereqs[p].end

IsReady(p) == Waited(p) \subseteq terminal

NoneWaited(p) == TRUE                     \* mutant: any dependency outcome will do

DependenciesPassed(p) == prereqs[p].pass \subseteq passed

(* The projects are sorted by their dependencies. *)
SortNode ==
  /\ pc = "sort"
  /\ sort.ready # <<>>
  /\ sort' = KahnStep(graph.deps, sort)
  /\ UNCHANGED <<graph, scheduled, prereqs, pc, remaining, running, ended, lease, terminal, passed,
                 stopRequested, exitCode, launched>>

(* All are in order: what is scheduled and what it waits for. *)
PlanProjects ==
  /\ pc = "sort" /\ sort.ready = <<>>
  /\ Len(sort.order) = N
  /\ pc' = "scan"
  /\ scheduled' = Scheduled(graph, sort.order)
  /\ remaining' = scheduled'
  /\ prereqs' = [p \in Projects |->
                   [pass |-> MustPass(graph, scheduled', p), end |-> MustEnd(graph, scheduled', p)]]
  /\ UNCHANGED <<graph, sort, running, ended, lease, terminal, passed, stopRequested, exitCode,
                 launched>>

(* Some are not: a cycle is a usage error. *)
RefuseCycle ==
  /\ pc = "sort" /\ sort.ready = <<>>
  /\ Len(sort.order) # N
  /\ pc' = "done"
  /\ exitCode' = "Usage"
  /\ UNCHANGED <<graph, sort, scheduled, prereqs, remaining, running, ended, lease, terminal, passed,
                 stopRequested, launched>>

(* remaining.retain() *)
Left(p) == Only(remaining, Range(remaining) \ {p})

MayLaunch ==
  /\ Cardinality(InFlight) < Cap
  /\ Available > 0
  /\ ~stopRequested

(* The first project of `remaining` that is ready. *)
IsNext(p) ==
  /\ MayLaunch
  /\ \E i \in DOMAIN remaining :
       /\ remaining[i] = p
       /\ IsReady(p)
       /\ \A j \in 1..(i - 1) : ~IsReady(remaining[j])

SkipQuietly(p) ==                         \* mutant: the project is not marked terminal
  /\ pc = "scan"
  /\ IsNext(p)
  /\ ~DependenciesPassed(p)
  /\ remaining' = Left(p)
  /\ exitCode' = Worst(exitCode, "Failed")
  /\ UNCHANGED <<plan, pc, running, ended, lease, terminal, passed, stopRequested, launched>>

(* A dependency did not pass: the project is skipped. *)
SkipBlocked(p) ==
  /\ pc = "scan"
  /\ IsNext(p)
  /\ ~DependenciesPassed(p)
  /\ remaining' = Left(p)
  /\ terminal' = terminal \cup {p}
  /\ exitCode' = Worst(exitCode, "Failed")
  /\ UNCHANGED <<plan, pc, running, ended, lease, passed, stopRequested, launched>>

(* No test of it is left: it counts as passed. *)
PassEmpty(p) ==
  /\ pc = "scan"
  /\ IsNext(p)
  /\ DependenciesPassed(p)
  /\ graph.tests[p] = 0
  /\ remaining' = Left(p)
  /\ terminal' = terminal \cup {p}
  /\ passed' = passed \cup {p}
  /\ UNCHANGED <<plan, pc, running, ended, lease, stopRequested, exitCode, launched>>

(* The ready projects share the free slots, rounded up. *)
DivCeil(a, b) == (a + b - 1) \div b

UncappedAllocation(p) ==                  \* mutant: does not leave room for the others
  Least(graph.tests[p], WorkerCount)

Allocation(p) ==
  LET ready == {q \in Range(remaining) \ {p} : graph.tests[q] > 0 /\ IsReady(q)}
      share == DivCeil(Available, Least(Cardinality(ready) + 1, Cap - Cardinality(InFlight)))
  IN  Least(Least(share, graph.tests[p]), WorkerCount)

Spawn(p) ==
  /\ pc = "scan"
  /\ IsNext(p)
  /\ DependenciesPassed(p)
  /\ graph.tests[p] > 0
  /\ remaining' = Left(p)
  /\ lease' = [lease EXCEPT ![p] = Allocation(p)]
  /\ running' = running \cup {p}
  /\ launched' = launched \cup {p}
  /\ UNCHANGED <<plan, pc, ended, terminal, passed, stopRequested, exitCode>>

(* Nothing to launch this round: await a run, or leave when none runs. *)
Await ==
  /\ pc = "scan"
  /\ ~\E p \in Projects : IsNext(p)
  /\ pc' = IF InFlight = {} THEN "report" ELSE "join"
  /\ UNCHANGED <<plan, remaining, running, ended, lease, terminal, passed,
                 stopRequested, exitCode, launched>>

(* A project's task ends: its slots are free before it is joined. *)
RunEnds(p, code) ==
  /\ p \in running
  /\ code = "Interrupted" => stopRequested
  /\ code = "Panic" => MayPanic
  /\ running' = running \ {p}
  /\ ended' = [ended EXCEPT ![p] = code]
  /\ lease' = [lease EXCEPT ![p] = 0]
  /\ UNCHANGED <<plan, pc, remaining, terminal, passed, stopRequested, exitCode, launched>>

JoinForgets(p) ==                         \* mutant: the exit status is not merged
  /\ pc = "join"
  /\ ended[p] # "None"
  /\ ended' = [ended EXCEPT ![p] = "None"]
  /\ terminal' = terminal \cup {p}
  /\ passed' = passed \cup {q \in {p} : ended[q] = "Passed"}
  /\ pc' = "scan"
  /\ UNCHANGED <<plan, remaining, running, lease, stopRequested, exitCode, launched>>

(* join_next(): a panicked task does not say which project it ran. *)
Join(p) ==
  /\ pc = "join"
  /\ ended[p] # "None"
  /\ ended' = [ended EXCEPT ![p] = "None"]
  /\ terminal' = terminal \cup ({p} \ {q \in Projects : ended[q] = "Panic"})
  /\ passed' = passed \cup {q \in {p} : ended[q] = "Passed"}
  /\ exitCode' = Worst(exitCode, IF ended[p] = "Panic" THEN "Infrastructure" ELSE ended[p])
  /\ pc' = "scan"
  /\ UNCHANGED <<plan, remaining, running, lease, stopRequested, launched>>

RequestStop ==
  /\ StopAllowed
  /\ ~stopRequested
  /\ pc \in {"scan", "join", "report"}
  /\ stopRequested' = TRUE
  /\ UNCHANGED <<plan, pc, remaining, running, ended, lease, terminal, passed,
                 exitCode, launched>>

Report ==
  /\ pc = "report"
  /\ pc' = "done"
  /\ exitCode' = IF stopRequested THEN Worst(exitCode, "Interrupted") ELSE exitCode
  /\ UNCHANGED <<plan, remaining, running, ended, lease, terminal, passed,
                 stopRequested, launched>>

Terminated == pc = "done" /\ UNCHANGED vars

SchedulerStep ==
  \/ SortNode \/ PlanProjects \/ RefuseCycle
  \/ \E p \in Projects : SkipBlocked(p) \/ PassEmpty(p) \/ Spawn(p) \/ Join(p)
  \/ Await \/ Report

ProjectRunEnds(p) ==
  \E code \in {"Passed", "Failed", "Infrastructure", "Interrupted", "Panic"} : RunEnds(p, code)

Next ==
  \/ SchedulerStep
  \/ \E p \in Projects : ProjectRunEnds(p)
  \/ RequestStop
  \/ Terminated

Spec == Init /\ [][Next]_vars

(* The scheduler's task is polled, and a project's run ends (TestRun's     *)
(* RunEnds).                                                               *)
FairSpec ==
  /\ Spec
  /\ WF_vars(SchedulerStep)
  /\ \A p \in Projects : WF_vars(ProjectRunEnds(p))

-----------------------------------------------------------------------------
TypeOK ==
  /\ graph \in Graph
  /\ sort \in [degree : [Projects -> Nat], ready : Seq(Projects), order : Seq(Projects)]
  /\ scheduled \in Seq(Projects)
  /\ prereqs \in [Projects -> [pass : SUBSET Projects, end : SUBSET Projects]]
  /\ pc \in {"sort", "scan", "join", "report", "done"}
  /\ remaining \in Seq(Projects)
  /\ running \subseteq Projects
  /\ ended \in [Projects -> {"None", "Panic"} \cup ExitCode]
  /\ lease \in [Projects -> Nat]
  /\ terminal \subseteq Projects /\ passed \subseteq Projects /\ launched \subseteq Projects
  /\ stopRequested \in BOOLEAN
  /\ exitCode \in ExitCode

(* "A project only runs after all its dependencies have passed": each one  *)
(* the run schedules has reported a passing run, or had nothing to run.    *)
DependenciesPassFirst ==
  \A p \in launched : graph.deps[p] \cap Range(scheduled) \subseteq passed

(* A teardown never runs beside, or before, the project that declares it   *)
(* (in configurations where one project declares it).                      *)
TeardownAfterParent ==
  \A p \in launched, q \in Projects :
    q \in Range(scheduled) /\ graph.teardown[q] = p => q \in terminal

(* The slots projects hold never exceed the run's workers, and a running   *)
(* project always has one: `try_acquire_many_owned` cannot fail, which the *)
(* code marks unreachable.                                                 *)
WorkersWithinBudget ==
  /\ Available >= 0
  /\ \A p \in running : lease[p] \in 1..graph.tests[p]

(* Exit status 0 means every scheduled project passed. *)
PassedMeansAllPassed ==
  pc = "done" /\ exitCode = "Passed" => Range(scheduled) \subseteq passed

(* A run that was not stopped, and of which no task panicked (it was       *)
(* launched and never becomes terminal), is over only when every scheduled *)
(* project was run, skipped, or found empty; and nothing but a cycle is    *)
(* refused.                                                                *)
NobodyLeftOut ==
  pc = "done" =>
    /\ exitCode = "Usage" => HasCircle(graph.deps)
    /\ ~stopRequested /\ launched \subseteq terminal => Range(scheduled) \subseteq terminal

(* The run ends that way: nobody waits for a project that never settles.   *)
EveryProjectSettles == <>(pc = "done" /\ NobodyLeftOut)
=============================================================================
