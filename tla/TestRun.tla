------------------------------- MODULE TestRun -------------------------------
(***************************************************************************)
(* One project's run in crates/ferridriver-test/src: execute_with_summary  *)
(* of runner.rs (the collecting loop), the Dispatcher of dispatcher.rs and *)
(* the worker loop of worker.rs, with the test locks as LockSections.      *)
(*                                                                         *)
(* A unit of the plan is one parallel test or a serial group.  A worker    *)
(* pulls one item at a time, runs it under the locks its tests declare and *)
(* sends the results; the runner counts verdicts, puts retries back and    *)
(* closes the queue when every test has one.  A worker incarnation serves  *)
(* one repetition (--repeat-each): an item of another one is kept for the  *)
(* next incarnation.                                                       *)
(*                                                                         *)
(* A test body is one step: how it ends is chosen freely among Ends, since *)
(* every phase of an attempt is bounded by a timeout.  A test that skips   *)
(* itself ends "Skipped".                                                  *)
(***************************************************************************)
EXTENDS Outcome, Integers, FiniteSets, SequencesExt

CONSTANTS
  Workers,      \* worker slots of this run
  Tests,
  Plan,         \* sequence of units [serial |-> BOOLEAN, tests |-> Seq(Tests)]
  Repetition,   \* Repetition[t]: repeat_each_index of t, counted from 1
  LockNames,
  Locks,        \* Locks[t]: the lock names t declares
  Expected,     \* Expected[t]: how t was declared to end
  Suites,
  Suite,        \* Suite[t]: the suite t is declared in
  BeforeAll,    \* the suites with beforeAll hooks
  MayBreak,     \* the suites whose beforeAll may fail
  MaxAttempts,  \* MaxAttempts[t]: its retries plus one
  MaxFailures,  \* --max-failures; 0 is unlimited
  Isolated,     \* retryStrategy: 'isolated'
  FailOnFlaky,  \* failOnFlakyTests
  ResultCap,    \* capacity of the result channel
  Ends,         \* how an attempt may end, see Ending
  StopAllowed,  \* whether somebody may request a stop
  MaxFaults     \* bound: workers whose cleanup fails

ASSUME RunAssumption ==
  /\ Workers # {} /\ IsFiniteSet(Workers)
  /\ Tests # {} /\ IsFiniteSet(Tests)
  /\ Plan \in Seq([serial : BOOLEAN, tests : Seq(Tests) \ {<<>>}])
  /\ Repetition \in [Tests -> Nat \ {0}]
  /\ Locks \in [Tests -> SUBSET LockNames]
  /\ Expected \in [Tests -> Expectation]
  /\ Suite \in [Tests -> Suites]
  /\ BeforeAll \subseteq Suites /\ MayBreak \subseteq BeforeAll
  /\ MaxAttempts \in [Tests -> Nat \ {0}]
  /\ MaxFailures \in Nat
  /\ Isolated \in BOOLEAN /\ FailOnFlaky \in BOOLEAN /\ StopAllowed \in BOOLEAN
  /\ ResultCap \in Nat \ {0}
  /\ MaxFaults \in Nat

(* A plan names every test, and names it once. *)
ASSUME PlanAssumption ==
  /\ \A t \in Tests : \E u \in DOMAIN Plan : \E k \in DOMAIN Plan[u].tests : Plan[u].tests[k] = t
  /\ \A u, v \in DOMAIN Plan : \A j \in DOMAIN Plan[u].tests, k \in DOMAIN Plan[v].tests :
       Plan[u].tests[j] = Plan[v].tests[k] => u = v /\ j = k

VARIABLES
  queue,         \* the dispatcher's channel of items
  closed,        \* ... closed: nothing can be put in
  stopped,       \* ... hard-stopped
  pc,            \* pc[w]: where worker w's loop stands
  item,          \* item[w]: the item it has picked up, its work still to run
  out,           \* out[w]: results it has yet to send
  repetition,    \* repetition[w]: the one this incarnation serves; 0 is none yet
  pending,       \* pending[w]: item kept for the next incarnation
  active,        \* active[w]: w's active_suites, see SuiteState
  stage, names,  \* the locks: LockSections
  results,       \* the result channel
  history,       \* history[t]: statuses of t's attempts, as collected
  finalCount, failureCount,
  waiting,       \* retries that wait for their turn to run isolated
  stopRequested, \* RunStop::requested
  stopSeen,      \* stop_requested of the collecting loop
  launchFailed,  \* some browser did not launch
  exitCode,      \* "Running" until the summary is returned
  settled        \* auxiliary: the tests counted in finalCount

dispatcherVars == <<queue, closed, stopped>>
workerVars == <<pc, item, out, repetition, pending, active, stage, names>>
collectVars == <<history, finalCount, failureCount, waiting, stopSeen, exitCode, settled>>
vars == <<dispatcherVars, workerVars, collectVars, results, stopRequested, launchFailed>>

Lock == INSTANCE LockSections WITH Holders <- Workers, Names <- LockNames

Total == Cardinality(Tests)

(* TestAssignment and WorkItem: an item carries its tests' next attempts.  *)
Assignment == [test : Tests, attempt : Nat]
Item == [serial : BOOLEAN, work : Seq(Assignment)]
NoItem == [serial |-> FALSE, work |-> <<>>]

(* WorkerTestResult *)
Result == [test : Tests, attempt : Nat, status : Status, serial : BOOLEAN,
           retry : BOOLEAN, tail : Seq(Assignment)]

FirstLockNames(i) == Locks[i.work[1].test]      \* mutant: not the whole group's

LockNamesOf(i) == UNION {Locks[i.work[k].test] : k \in DOMAIN i.work}

RepetitionOf(i) == Repetition[i.work[1].test]

(* The units, every test at its first attempt. *)
FirstItem(unit) ==
  [serial |-> unit.serial,
   work |-> [k \in DOMAIN unit.tests |-> [test |-> unit.tests[k], attempt |-> 1]]]

Init ==
  /\ queue = [u \in DOMAIN Plan |-> FirstItem(Plan[u])]
  /\ closed = FALSE
  /\ stopped = FALSE
  /\ pc = [w \in Workers |-> "recv"]
  /\ item = [w \in Workers |-> NoItem]
  /\ out = [w \in Workers |-> <<>>]
  /\ repetition = [w \in Workers |-> 0]
  /\ pending = [w \in Workers |-> NoItem]
  /\ active = [w \in Workers |-> [u \in Suites |-> "none"]]
  /\ Lock!Init
  /\ results = <<>>
  /\ history = [t \in Tests |-> <<>>]
  /\ finalCount = 0
  /\ failureCount = 0
  /\ waiting = <<>>
  /\ stopRequested = FALSE
  /\ stopSeen = FALSE
  /\ launchFailed = FALSE
  /\ exitCode = "Running"
  /\ settled = {}

-----------------------------------------------------------------------------
(* The worker loop, Worker::run.                                           *)

(* pending.take(), or the channel's recv(). *)
Receive(w, i) ==
  /\ pc[w] = "recv"
  /\ IF pending[w] # NoItem
       THEN i = pending[w] /\ UNCHANGED queue
       ELSE queue # <<>> /\ i = Head(queue) /\ queue' = Tail(queue)

(* recv() fails: the channel is closed and empty. *)
Drained(w) ==
  /\ pc[w] = "recv"
  /\ pending[w] = NoItem
  /\ queue = <<>>
  /\ closed
  /\ pc' = [pc EXCEPT ![w] = "cleanup"]
  /\ UNCHANGED <<dispatcherVars, item, out, repetition, pending, active, stage, names,
                 collectVars, results, stopRequested, launchFailed>>

(* The stop flag is up: what was received is dropped. *)
DropItem(w) ==
  /\ stopped
  /\ \E i \in {pending[w]} \cup Range(queue) : Receive(w, i)
  /\ pending' = [pending EXCEPT ![w] = NoItem]
  /\ pc' = [pc EXCEPT ![w] = "cleanup"]
  /\ UNCHANGED <<closed, stopped, item, out, repetition, active, stage, names,
                 collectVars, results, stopRequested, launchFailed>>

(* Another repetition: the item is for the next incarnation. *)
HandOver(w) ==
  /\ ~stopped
  /\ \E i \in {pending[w]} \cup Range(queue) :
       /\ Receive(w, i)
       /\ repetition[w] \notin {0, RepetitionOf(i)}
       /\ pending' = [pending EXCEPT ![w] = i]
  /\ pc' = [pc EXCEPT ![w] = "cleanup"]
  /\ UNCHANGED <<closed, stopped, item, out, repetition, active, stage, names,
                 collectVars, results, stopRequested, launchFailed>>

PickUp(w) ==
  /\ ~stopped
  /\ \E i \in {pending[w]} \cup Range(queue) :
       /\ Receive(w, i)
       /\ repetition[w] \in {0, RepetitionOf(i)}
       /\ item' = [item EXCEPT ![w] = i]
       /\ repetition' = [repetition EXCEPT ![w] = RepetitionOf(i)]
       /\ Lock!Ask(w, LockNamesOf(i))
  /\ pending' = [pending EXCEPT ![w] = NoItem]
  /\ pc' = [pc EXCEPT ![w] = "lock"]
  /\ UNCHANGED <<closed, stopped, out, active, collectVars, results, stopRequested, launchFailed>>

(* locks::acquire() returns. *)
Acquired(w) ==
  /\ pc[w] = "lock"
  /\ Lock!Enter(w)
  /\ pc' = [pc EXCEPT ![w] = "run"]
  /\ UNCHANGED <<dispatcherVars, item, out, repetition, pending, active,
                 collectVars, results, stopRequested, launchFailed>>

(* How run_single ends: "Fatal" is a failure marked non-retriable, "NoPage" *)
(* the failure to build the page fixture, which is retried whatever the    *)
(* test was declared to end in.                                            *)
Ending == {"Passed", "Failed", "Skipped", "Fatal", "NoPage"}

ASSUME EndsAssumption == Ends \subseteq Ending

StatusOf(end) == IF end \in {"Fatal", "NoPage"} THEN "Failed" ELSE end

ShouldRetry(a, end) ==
  /\ a.attempt < MaxAttempts[a.test]
  /\ \/ end = "NoPage"
     \/ /\ end \in {"Passed", "Failed"}
        /\ OutcomeKind(<<StatusOf(end)>>, Expected[a.test]) = "Unexpected"

ResultOf(a, serial, end, rest) ==
  [test |-> a.test, attempt |-> a.attempt, status |-> StatusOf(end), serial |-> serial,
   retry |-> ShouldRetry(a, end), tail |-> IF ShouldRetry(a, end) THEN rest ELSE <<>>]

SkippedResult(a) ==
  [test |-> a.test, attempt |-> a.attempt, status |-> "Skipped", serial |-> TRUE,
   retry |-> FALSE, tail |-> <<>>]

SkippedAndRetried(r, rest) ==             \* mutant: skips what a retry resumes
  [k \in 1..(IF r.status = "Failed" THEN Len(rest) ELSE 0) |-> SkippedResult(rest[k])]

(* A group's failure for good reports the rest of the group as skipped. *)
SkippedAfter(r, rest) ==
  [k \in 1..(IF r.status = "Failed" /\ ~r.retry THEN Len(rest) ELSE 0) |-> SkippedResult(rest[k])]

(* run_single enters the test's suite first: its beforeAll hooks run once  *)
(* per incarnation, if it has any.                                         *)
SuiteStates(u, state) ==
  IF state \in {"ran", "failed"} THEN {state}
  ELSE IF u \in MayBreak         THEN {"ran", "failed"}
  ELSE IF u \in BeforeAll        THEN {"ran"}
  ELSE {"entered"}

(* run_single, inside run_serial_batch for a group: a retry takes the rest *)
(* of the group along, a failure without one skips the rest.  A test of a  *)
(* suite whose beforeAll failed on this worker is skipped.                 *)
RunTest(w, end) ==
  /\ pc[w] = "run"
  /\ LET a    == Head(item[w].work)
         rest == Tail(item[w].work)
         u    == Suite[a.test]
     IN \E state \in SuiteStates(u, active[w][u]) :
       LET r    == ResultOf(a, item[w].serial, IF state = "failed" THEN "Skipped" ELSE end, rest)
           over == r.retry \/ r.status = "Failed" \/ rest = <<>>
       IN
       /\ active' = [active EXCEPT ![w][u] = state]
       /\ out' = [out EXCEPT ![w] = Append(@, r) \o SkippedAfter(r, rest)]
       /\ item' = [item EXCEPT ![w].work = IF over THEN <<>> ELSE rest]
       /\ pc' = [pc EXCEPT ![w] = IF over THEN "send" ELSE "run"]
       /\ launchFailed' \in {launchFailed, launchFailed \/ (end = "NoPage" /\ state # "failed")}
  /\ UNCHANGED <<dispatcherVars, repetition, pending, stage, names,
                 collectVars, results, stopRequested>>

(* result_tx.send(): waits for room in the bounded channel. *)
Send(w) ==
  /\ pc[w] = "send"
  /\ Len(results) < ResultCap
  /\ results' = Append(results, Head(out[w]))
  /\ out' = [out EXCEPT ![w] = Tail(@)]
  /\ pc' = [pc EXCEPT ![w] = IF Len(out[w]) = 1 THEN "yield" ELSE "send"]
  /\ UNCHANGED <<dispatcherVars, item, repetition, pending, active, stage, names,
                 collectVars, stopRequested, launchFailed>>

(* After yield_now() the turn ends and its locks are dropped. *)
EndTurn(w) ==
  /\ pc[w] = "yield"
  /\ Lock!Leave(w)
  /\ item' = [item EXCEPT ![w] = NoItem]
  /\ pc' = [pc EXCEPT ![w] = "recv"]
  /\ UNCHANGED <<dispatcherVars, out, repetition, pending, active,
                 collectVars, results, stopRequested, launchFailed>>

(* afterAll hooks, fixture teardown, browser close; then the slot's loop   *)
(* ends or starts the next incarnation.                                    *)
CleanUp(w) ==
  /\ pc[w] = "cleanup"
  /\ IF pending[w] = NoItem \/ stopped
       THEN /\ pc' = [pc EXCEPT ![w] = "done"]
            /\ pending' = [pending EXCEPT ![w] = NoItem]
            /\ UNCHANGED <<repetition, active>>
       ELSE /\ pc' = [pc EXCEPT ![w] = "recv"]
            /\ repetition' = [repetition EXCEPT ![w] = 0]
            /\ active' = [active EXCEPT ![w] = [u \in Suites |-> "none"]]
            /\ UNCHANGED pending
  /\ UNCHANGED <<dispatcherVars, item, out, stage, names,
                 collectVars, results, stopRequested, launchFailed>>

(* A cleanup error: run() returns Err, `?` ends the slot's task, and the   *)
(* item kept for the next incarnation goes with it.                        *)
CleanUpFails(w) ==
  /\ pc[w] = "cleanup"
  /\ Cardinality({v \in Workers : pc[v] = "failed"}) < MaxFaults
  /\ pc' = [pc EXCEPT ![w] = "failed"]
  /\ pending' = [pending EXCEPT ![w] = NoItem]
  /\ UNCHANGED <<dispatcherVars, item, out, repetition, active, stage, names,
                 collectVars, results, stopRequested, launchFailed>>

-----------------------------------------------------------------------------
(* The collecting loop of execute_with_summary.                            *)

RetryLast(r) ==                           \* mutant: the group's rest goes first
  [serial |-> r.serial,
   work |-> r.tail \o <<[test |-> r.test, attempt |-> r.attempt + 1]>>]

RetrySameAttempt(r) ==                    \* mutant: the attempt is not counted
  [serial |-> r.serial,
   work |-> <<[test |-> r.test, attempt |-> r.attempt]>> \o r.tail]

(* Dispatcher::retry_shared: a serial test goes back with its group's rest. *)
RetryItem(r) ==
  [serial |-> r.serial,
   work |-> <<[test |-> r.test, attempt |-> r.attempt + 1]>> \o r.tail]

(* The tests a result stands for: its own, then those it takes along. *)
Carried(r) == <<[test |-> r.test, attempt |-> r.attempt]>> \o r.tail

RetriesAlone(rs) == Len(rs)               \* mutant: forgets the tails

(* How many tests the waiting retries stand for. *)
HeldPlaces(rs) == UNION {{<<k, j>> : j \in DOMAIN Carried(rs[k])} : k \in DOMAIN rs}

Held(rs) == Cardinality(HeldPlaces(rs))

LastVerdict(n) == n >= Total

TurnTooEarly(n, rs) ==                    \* mutant: one test may still run
  ~LastVerdict(n) /\ n + Held(rs) + 1 >= Total

(* Everything that is not a waiting retry has its verdict. *)
IsolatedTurn(n, rs) == ~LastVerdict(n) /\ n + Held(rs) >= Total

(* One result: count it, or put the test back for its retry; stop at       *)
(* max_failures; close the queue at the last verdict; when everything else *)
(* is done, let the first isolated retry run.                              *)
Collect ==
  /\ exitCode = "Running"
  /\ results # <<>>
  /\ LET r       == Head(results)
         failed  == ~r.retry /\ OutcomeKind(<<r.status>>, Expected[r.test]) = "Unexpected"
         retries == IF r.retry THEN Append(waiting, r) ELSE waiting
         tripped == MaxFailures > 0 /\ failureCount' >= MaxFailures
         goes    == IF Isolated THEN IsolatedTurn(finalCount', retries) ELSE r.retry
     IN
     /\ history' = [history EXCEPT ![r.test] = Append(@, r.status)]
     /\ finalCount' = finalCount + (IF r.retry THEN 0 ELSE 1)
     /\ failureCount' = failureCount + (IF failed THEN 1 ELSE 0)
     /\ settled' = IF r.retry THEN settled ELSE settled \cup {r.test}
     /\ waiting' = IF goes /\ retries # <<>> THEN Tail(retries) ELSE retries
     /\ queue' = IF /\ goes /\ retries # <<>>
                    /\ ~closed
                    /\ Isolated => ~tripped
                  THEN Append(queue, RetryItem(Head(retries)))
                  ELSE queue
     /\ stopped' = (stopped \/ tripped)
     /\ closed' = (closed \/ tripped \/ LastVerdict(finalCount'))
  /\ results' = Tail(results)
  /\ UNCHANGED <<workerVars, stopSeen, exitCode, stopRequested, launchFailed>>

(* Ctrl-C, or Stop in the UI. *)
RequestStop ==
  /\ StopAllowed
  /\ ~stopRequested
  /\ exitCode = "Running"
  /\ stopRequested' = TRUE
  /\ UNCHANGED <<dispatcherVars, workerVars, collectVars, results, launchFailed>>

(* The loop's other branch: it hears of the request and stops dispatch. *)
SeeStop ==
  /\ exitCode = "Running"
  /\ stopRequested /\ ~stopSeen
  /\ stopSeen' = TRUE
  /\ stopped' = TRUE
  /\ closed' = TRUE
  /\ UNCHANGED <<queue, workerVars, history, finalCount, failureCount, waiting,
                 exitCode, settled, results, stopRequested, launchFailed>>

(* The exit status, from what was collected and what went wrong. *)
TestsVerdict ==
  LET kinds == {OutcomeKind(history[t], Expected[t]) : t \in {u \in Tests : history[u] # <<>>}}
  IN  IF "Unexpected" \in kinds \/ (FailOnFlaky /\ "Flaky" \in kinds) THEN "Failed" ELSE "Passed"

StatusesSeen ==
  {TestsVerdict}
    \cup {c \in {"Infrastructure"} : launchFailed \/ \E w \in Workers : pc[w] = "failed"}
    \cup {c \in {"Interrupted"} : stopRequested}

VerdictOfTests == TestsVerdict            \* mutant: nothing but the tests counts

Verdict == CHOOSE c \in StatusesSeen : \A d \in StatusesSeen : Worst(c, d) = c

(* Every sender is gone: the handles are joined and the summary returned. *)
Finish ==
  /\ exitCode = "Running"
  /\ results = <<>>
  /\ \A w \in Workers : pc[w] \in {"done", "failed"}
  /\ exitCode' = Verdict
  /\ UNCHANGED <<dispatcherVars, workerVars, history, finalCount, failureCount, waiting,
                 stopSeen, settled, results, stopRequested, launchFailed>>

Terminated == exitCode # "Running" /\ UNCHANGED vars

WorkerStep(w) ==
  \/ Drained(w) \/ DropItem(w) \/ HandOver(w) \/ PickUp(w) \/ Acquired(w)
  \/ \E end \in Ends : RunTest(w, end)
  \/ Send(w) \/ EndTurn(w) \/ CleanUp(w) \/ CleanUpFails(w)

Next ==
  \/ \E w \in Workers : WorkerStep(w)
  \/ Collect \/ RequestStop \/ SeeStop \/ Finish
  \/ Terminated

Spec == Init /\ [][Next]_vars

(* Tasks are polled when they can go on; nobody has to request a stop. *)
Fairness ==
  /\ \A w \in Workers : WF_vars(WorkerStep(w))
  /\ WF_vars(Collect)
  /\ WF_vars(SeeStop)
  /\ WF_vars(Finish)

FairSpec == Spec /\ Fairness

-----------------------------------------------------------------------------
TypeOK ==
  /\ queue \in Seq(Item)
  /\ closed \in BOOLEAN /\ stopped \in BOOLEAN
  /\ pc \in [Workers -> {"recv", "lock", "run", "send", "yield", "cleanup", "done", "failed"}]
  /\ item \in [Workers -> Item]
  /\ out \in [Workers -> Seq(Result)]
  /\ repetition \in [Workers -> Nat]
  /\ pending \in [Workers -> Item]
  /\ active \in [Workers -> [Suites -> {"none", "entered", "ran", "failed"}]]
  /\ stage \in [Workers -> {"idle", "acquiring", "holding"}]
  /\ names \in [Workers -> SUBSET LockNames]
  /\ results \in Seq(Result) /\ Len(results) <= ResultCap
  /\ history \in [Tests -> Seq(Status)]
  /\ finalCount \in Nat /\ failureCount \in Nat
  /\ waiting \in Seq(Result)
  /\ stopRequested \in BOOLEAN /\ stopSeen \in BOOLEAN /\ launchFailed \in BOOLEAN
  /\ exitCode \in ExitCode \cup {"Running"}
  /\ settled \in SUBSET Tests

(* Where a test may be on its way to a verdict: each place of it in the    *)
(* queue, in a worker's hands, in a result or in the tail one carries.     *)
Places(kind, who, nth, work, t) ==
  {<<kind, who, nth, j>> : j \in {i \in DOMAIN work : work[i].test = t}}

Queued(t)  == UNION {Places("queue", 0, k, queue[k].work, t) : k \in DOMAIN queue}
Pending(t) == UNION {Places("pending", w, 0, pending[w].work, t) : w \in Workers}
InHand(t)  == UNION {Places("item", w, 0, item[w].work, t) : w \in Workers}
Unsent(t)  == UNION {UNION {Places("out", w, k, Carried(out[w][k]), t) : k \in DOMAIN out[w]}
                     : w \in Workers}
Sent(t)    == UNION {Places("results", 0, k, Carried(results[k]), t) : k \in DOMAIN results}
Waiting(t) == UNION {Places("waiting", 0, k, Carried(waiting[k]), t) : k \in DOMAIN waiting}

Copies(t) == Queued(t) \cup Pending(t) \cup InHand(t) \cup Unsent(t) \cup Sent(t) \cup Waiting(t)

(* Work is dropped only by a hard stop, or with a worker that failed. *)
MayLose == stopped \/ \E w \in Workers : pc[w] = "failed"

(* A test is never in two hands, never comes back after its verdict, and,  *)
(* unless the run was stopped or a worker crashed, is never lost: what the *)
(* runner counts against total_tests to close the queue adds up.           *)
EachTestOnce ==
  /\ finalCount = Cardinality(settled)
  /\ \A t \in Tests :
       /\ Cardinality(Copies(t)) <= IF t \in settled THEN 0 ELSE 1
       /\ MayLose \/ t \in settled \/ Copies(t) # {}

ItemsInFlight ==
  Range(queue) \cup {pending[w] : w \in Workers} \cup {item[w] : w \in Workers}

ResultsInFlight == Range(results) \cup UNION {Range(out[w]) : w \in Workers}

(* Serial groups run in declaration order: the work left of a group is a   *)
(* suffix of it, and of the tests before it each has its verdict, counted  *)
(* or on the way to the runner.                                            *)
GroupsInOrder ==
  \A i \in ItemsInFlight : i.serial /\ i.work # <<>> =>
    \E u \in DOMAIN Plan :
      LET group == Plan[u].tests
          left  == [k \in DOMAIN i.work |-> i.work[k].test]
      IN  /\ Plan[u].serial
          /\ IsSuffix(left, group)
          /\ \A k \in 1..(Len(group) - Len(left)) :
               \/ group[k] \in settled
               \/ \E r \in ResultsInFlight : r.test = group[k] /\ ~r.retry

Running(w) == pc[w] = "run"

(* retryStrategy 'isolated': while a retry runs, no other worker runs.     *)
RetriesRunAlone ==
  Isolated => \A v, w \in Workers :
    Running(v) /\ Head(item[v].work).attempt > 1 /\ Running(w) => v = w

(* Tests that name the same lock never run at the same time.               *)
LockedTestsApart ==
  \A v, w \in Workers :
    Running(v) /\ Running(w) /\ v # w =>
      Locks[Head(item[v].work).test] \cap Locks[Head(item[w].work).test] = {}

(* Exit status 0 is a verdict on every test: all counted, none unexpected, *)
(* no worker crashed, nobody asked for a stop.                             *)
PassedMeansJudged ==
  exitCode = "Passed" =>
    /\ finalCount >= Total
    /\ \A t \in Tests : OutcomeKind(history[t], Expected[t]) # "Unexpected"
    /\ \A w \in Workers : pc[w] = "done"
    /\ ~stopRequested /\ ~launchFailed

(* The run implements what it promises its caller.                         *)
Promise == INSTANCE RunPromise WITH attempts <- history, code <- exitCode

ImplementsPromise == Promise!Spec

(* Where a worker's loop goes on without anybody else.                     *)
CanGoOn(w) ==
  \/ pc[w] \in {"run", "yield", "cleanup"}
  \/ pc[w] = "recv" /\ (closed \/ pending[w] # NoItem \/ queue # <<>>)
  \/ pc[w] = "lock" /\ \A v \in Workers : stage[v] = "holding" => names[v] \cap names[w] = {}
  \/ pc[w] = "send" /\ Len(results) < ResultCap

(* Once the queue is closed, and before as long as no worker crashed, the  *)
(* run is never stuck: a result is to be collected, a worker goes on, or   *)
(* every worker has left its loop.                                         *)
NeverStuck ==
  exitCode = "Running" /\ (closed \/ \A w \in Workers : pc[w] # "failed") =>
    \/ results # <<>>
    \/ \E w \in Workers : CanGoOn(w)
    \/ \A w \in Workers : pc[w] \in {"done", "failed"}

(* The run ends: every test gets its verdict or is dropped by a stop, the  *)
(* queue is closed, every worker leaves its loop.                          *)
RunEnds == <>(exitCode # "Running")

(* A stop ends the run whatever was lost before it, and without one only  *)
(* the crash of a worker can keep it from ending.                          *)
EndsUnlessCrashed ==
  <>(exitCode # "Running") \/ <>[](~stopRequested /\ \E w \in Workers : pc[w] = "failed")
=============================================================================
