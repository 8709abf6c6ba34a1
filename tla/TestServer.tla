----------------------------- MODULE TestServer -----------------------------
(***************************************************************************)
(* The server behind the UI mode (crates/ferridriver-test/src/             *)
(* test_server/driver.rs and mod.rs): one task takes the clients' calls,   *)
(* runs tests for them and goes on reading calls while it runs.  A stop    *)
(* reaches the collecting loop of each project through RunStop             *)
(* (runner.rs), a flag and a Notify that all projects of a run share.      *)
(*                                                                         *)
(* The calls are numbered in the order of the channel.  What a project     *)
(* does with its tests is TestRun, which project may start is              *)
(* ProjectScheduler: here a project has one worker and a number of tests.  *)
(***************************************************************************)
EXTENDS Naturals, Sequences, FiniteSets

CONSTANTS
  Projects,
  Tests,      \* Tests[p]: the number of tests of project p
  MaxCalls,   \* bound: the number of calls the clients make
  MaxKind     \* bound: MaxKind[k] is the number of calls of kind k

(* "list" stands for every call that is answered between runs only; ping and         *)
(* resizeTerminal, answered at once and changing nothing, are left out.              *)
Kinds == {"run", "list", "stop"}

ASSUME ServerAssumption ==
  Tests \in [Projects -> Nat] /\ MaxCalls \in Nat /\ MaxKind \in [Kinds -> Nat]

VARIABLES
  calls,      \* the kinds of the calls made
  received,   \* how many of them left the channel
  deferred,   \* those kept until the run in progress is over
  answered,   \* those answered, in the order of the answers
  driver,     \* what the serving task is at
  current,    \* the run it is at, 0 when there is none
  requested,  \* RunStop::requested
  permit,     \* the permit RunStop::notify stores
  stopped,    \* history: the runs a stop was taken for
  project,    \* project[p]: how far p is in the current run
  queued,     \* queued[p]: tests nobody started
  busy,       \* busy[p]: whether p's worker executes a test
  results,    \* results[p]: results its collecting loop has not taken
  wait,       \* wait[p]: where the collecting loop's RunStop::wait is
  unsent,     \* the projects with events on their stream, not yet sent to the clients
  unreported  \* whether the run's bus has events its reporters have not seen

channel == <<calls, received, deferred, answered>>
serving == <<driver, current>>
stop == <<requested, permit, stopped>>
work == <<queued, busy, results>>
streams == <<unsent, unreported>>
vars == <<channel, serving, stop, project, work, wait, streams>>

Init ==
  /\ calls = <<>> /\ received = 0 /\ deferred = <<>> /\ answered = <<>>
  /\ driver = "idle" /\ current = 0
  /\ requested = FALSE /\ permit = FALSE /\ stopped = {}
  /\ project = [p \in Projects |-> "ended"]
  /\ queued = [p \in Projects |-> 0]
  /\ busy = [p \in Projects |-> FALSE]
  /\ results = [p \in Projects |-> 0]
  /\ wait = [p \in Projects |-> "off"]
  /\ unsent = {} /\ unreported = FALSE

Answer(i) == answered' = Append(answered, i)

-----------------------------------------------------------------------------
(* The clients *)
CallsOf(k) == Cardinality({i \in DOMAIN calls : calls[i] = k})

Call(k) ==
  /\ driver # "gone" /\ Len(calls) < MaxCalls /\ CallsOf(k) < MaxKind[k]
  /\ calls' = Append(calls, k)
  /\ UNCHANGED <<received, deferred, answered, serving, stop, project, work, wait, streams>>

-----------------------------------------------------------------------------
(* serve: what was deferred first, then the channel. *)
InChannel == received < Len(calls)

Receive == InChannel /\ received' = received + 1

TakeCall ==
  IF deferred # <<>>
  THEN /\ received' = received /\ deferred' = Tail(deferred)
  ELSE Receive /\ UNCHANGED deferred

NextCall == IF deferred # <<>> THEN Head(deferred) ELSE received + 1

StartRun ==
  /\ driver = "idle" /\ TakeCall /\ calls[NextCall] = "run"
  /\ driver' = "discovering" /\ current' = NextCall
  /\ UNCHANGED <<calls, answered, stop, project, work, wait, streams>>

(* Every other call is answered here, a stop with nothing to stop. *)
Handle ==
  /\ driver = "idle" /\ TakeCall /\ calls[NextCall] # "run"
  /\ Answer(NextCall)
  /\ UNCHANGED <<calls, serving, stop, project, work, wait, streams>>

(* The window closes or an interrupt comes, which serve notices between runs; the *)
(* requests it leaves are dropped, which answers them.                            *)
EndServe ==
  /\ driver = "idle" /\ deferred = <<>>
  /\ driver' = "gone" /\ received' = Len(calls)
  /\ answered' = answered \o [i \in 1..(Len(calls) - received) |-> received + i]
  /\ UNCHANGED <<calls, deferred, current, stop, project, work, wait, streams>>

-----------------------------------------------------------------------------
(* run_tests: a refused call and an empty plan are answered without a run. *)
NothingToRun ==
  /\ driver = "discovering"
  /\ driver' = "idle" /\ current' = 0 /\ Answer(current)
  /\ UNCHANGED <<calls, received, deferred, stop, project, work, wait, streams>>

(* execute_streaming, up to its loop. *)
Execute ==
  /\ driver = "discovering"
  /\ driver' = "running" /\ requested' = FALSE
  /\ project' = [p \in Projects |-> "waiting"]
  /\ queued' = Tests
  /\ wait' = [p \in Projects |-> "off"]
  /\ UNCHANGED <<channel, current, permit, stopped, busy, results, streams>>

(* Notify::notify_one, with w[p] the state of each waiter. *)
NotifyOne(w) ==
  \/ /\ \A p \in Projects : w[p] # "registered"
     /\ permit' = TRUE /\ wait' = w
  \/ \E p \in Projects :
       /\ w[p] = "registered"
       /\ wait' = [w EXCEPT ![p] = "notified"] /\ UNCHANGED permit

(* A Notified that is dropped passes a notification it was given on. *)
DropsNotification(p, to) == \* mutant: what a dropped Notified was given is lost
  /\ wait' = IF wait[p] = "stopped" THEN wait ELSE [wait EXCEPT ![p] = to]
  /\ UNCHANGED permit

DropWait(p, to) ==
  CASE wait[p] = "stopped" -> UNCHANGED <<wait, permit>>
    [] wait[p] = "notified" -> NotifyOne([wait EXCEPT ![p] = to])
    [] OTHER -> wait' = [wait EXCEPT ![p] = to] /\ UNCHANGED permit

(* handle_during_run: a stop is answered, the rest is deferred. *)
RequestStop ==
  /\ driver = "running" /\ Receive /\ calls[received'] = "stop"
  /\ driver' = "notifying" /\ requested' = TRUE /\ stopped' = stopped \cup {current}
  /\ UNCHANGED <<calls, deferred, answered, current, permit, project, work, wait, streams>>

NotifyStop ==
  /\ driver = "notifying"
  /\ NotifyOne(wait)
  /\ driver' = "running" /\ Answer(received)
  /\ UNCHANGED <<calls, received, deferred, current, requested, stopped, project, work, streams>>

Defer ==
  /\ driver = "running" /\ Receive /\ calls[received'] \in {"run", "list"}
  /\ deferred' = Append(deferred, received')
  /\ UNCHANGED <<calls, answered, serving, stop, project, work, wait, streams>>

(* The future of execute ends when nothing runs and nothing may start. *)
AtRest(p) == project[p] \in {"waiting", "ended"}

OnlyWhenAllEnded ==         \* mutant: a stopped run waits for what it did not start
  /\ driver = "running"
  /\ \A p \in Projects : project[p] = "ended"
  /\ driver' = "finishing"
  /\ UNCHANGED <<channel, current, stop, project, work, wait, streams>>

DropsExecute ==             \* mutant: a stopped run is dropped where it is
  /\ driver = "running"
  /\ requested \/ \A p \in Projects : project[p] = "ended"
  /\ driver' = "finishing"
  /\ UNCHANGED <<channel, current, stop, project, work, wait, streams>>

ExecuteEnds ==
  /\ driver = "running"
  /\ \A p \in Projects : AtRest(p) /\ (project[p] = "waiting" => requested)
  /\ driver' = "finishing"
  /\ UNCHANGED <<channel, current, stop, project, work, wait, streams>>

(* finish_run_bus: the reporters drain before the run is answered. *)
FinishRun ==
  /\ driver = "finishing" /\ ~unreported
  /\ driver' = "idle" /\ current' = 0 /\ Answer(current)
  /\ UNCHANGED <<calls, received, deferred, stop, project, work, wait, streams>>

-----------------------------------------------------------------------------
(* A project of the run. *)
Launch(p) ==
  /\ driver = "running" /\ project[p] = "waiting" /\ ~requested
  /\ project' = [project EXCEPT ![p] = "running"]
  /\ wait' = [wait EXCEPT ![p] = "new"]
  /\ UNCHANGED <<channel, serving, stop, work, streams>>

StartTest(p) ==
  /\ project[p] = "running" /\ ~busy[p] /\ queued[p] > 0 /\ wait[p] # "stopped"
  /\ queued' = [queued EXCEPT ![p] = @ - 1]
  /\ busy' = [busy EXCEPT ![p] = TRUE]
  /\ UNCHANGED <<channel, serving, stop, project, results, wait, streams>>

EndTest(p) ==
  /\ busy[p]
  /\ busy' = [busy EXCEPT ![p] = FALSE]
  /\ results' = [results EXCEPT ![p] = @ + 1]
  /\ unsent' = unsent \cup {p}
  /\ UNCHANGED <<channel, serving, stop, project, queued, wait, unreported>>

(* The collecting loop's select: a result, which drops the wait for the stop, ... *)
Polling(p) == wait[p] \in {"check", "ask"}

TakeResult(p) ==
  /\ project[p] = "running" /\ results[p] > 0 /\ ~Polling(p)
  /\ results' = [results EXCEPT ![p] = @ - 1]
  /\ DropWait(p, "new")
  /\ UNCHANGED <<channel, serving, requested, stopped, project, queued, busy, streams>>

(* ... or RunStop::wait: the flag, then the notification, then the flag again. *)
CheckFlag(p) ==
  /\ wait[p] \in {"new", "check"}
  /\ wait' = [wait EXCEPT ![p] = IF requested THEN "stopped" ELSE "ask"]
  /\ UNCHANGED <<channel, serving, stop, project, work, streams>>

TrustsPermit(p) ==          \* mutant: a stored permit is taken for a stop
  /\ wait[p] = "ask"
  /\ permit' = FALSE
  /\ wait' = [wait EXCEPT ![p] = IF permit THEN "stopped" ELSE "registered"]
  /\ UNCHANGED <<channel, serving, requested, stopped, project, work, streams>>

AskPermit(p) ==
  /\ wait[p] = "ask"
  /\ permit' = FALSE
  /\ wait' = [wait EXCEPT ![p] = IF permit THEN "check" ELSE "registered"]
  /\ UNCHANGED <<channel, serving, requested, stopped, project, work, streams>>

Wake(p) ==
  /\ wait[p] = "notified"
  /\ wait' = [wait EXCEPT ![p] = "check"]
  /\ UNCHANGED <<channel, serving, stop, project, work, streams>>

(* The workers are gone: the loop ends and the project's stream is closed ... *)
CloseStream(p) ==
  /\ project[p] = "running" /\ ~busy[p] /\ results[p] = 0 /\ ~Polling(p)
  /\ queued[p] = 0 \/ wait[p] = "stopped"
  /\ project' = [project EXCEPT ![p] = "draining"]
  /\ DropWait(p, "off")
  /\ UNCHANGED <<channel, serving, requested, stopped, work, streams>>

Forward(p) ==
  /\ p \in unsent
  /\ unsent' = unsent \ {p} /\ unreported' = TRUE
  /\ UNCHANGED <<channel, serving, stop, project, work, wait>>

Report ==
  /\ unreported /\ unreported' = FALSE
  /\ UNCHANGED <<channel, serving, stop, project, work, wait, unsent>>

(* ... and the project is over once its forwarders are through. *)
EndProject(p) ==
  /\ project[p] = "draining" /\ p \notin unsent
  /\ project' = [project EXCEPT ![p] = "ended"]
  /\ UNCHANGED <<channel, serving, stop, work, wait, streams>>

-----------------------------------------------------------------------------
Driver ==
  \/ StartRun \/ Handle \/ NothingToRun \/ Execute \/ RequestStop \/ NotifyStop
  \/ Defer \/ ExecuteEnds \/ FinishRun \/ (\E p \in Projects : Launch(p))
Collect(p) ==
  TakeResult(p) \/ CheckFlag(p) \/ AskPermit(p) \/ Wake(p) \/ CloseStream(p)
Test(p) == StartTest(p) \/ EndTest(p)
Drain(p) == Forward(p) \/ EndProject(p)

Next ==
  \/ \E k \in Kinds : Call(k)
  \/ Driver \/ EndServe \/ Report
  \/ \E p \in Projects : Collect(p) \/ Test(p) \/ Drain(p)

Spec == Init /\ [][Next]_vars

(* Tasks are polled, tests end by their timeouts; the clients may stop calling and *)
(* nothing has to end the session.                                                 *)
Fairness ==
  /\ WF_vars(Driver) /\ WF_vars(Report)
  /\ \A p \in Projects : WF_vars(Collect(p) \/ Test(p) \/ Drain(p))

FairSpec == Spec /\ Fairness

-----------------------------------------------------------------------------
InRun == driver \in {"running", "notifying", "finishing"}

TypeOK ==
  /\ calls \in Seq(Kinds) /\ Len(calls) <= MaxCalls
  /\ received \in 0..Len(calls)
  /\ deferred \in Seq(1..received) /\ answered \in Seq(1..received)
  /\ driver \in {"idle", "discovering", "running", "notifying", "finishing", "gone"}
  /\ current \in 0..received /\ (current # 0 <=> driver = "discovering" \/ InRun)
  /\ requested \in BOOLEAN /\ permit \in BOOLEAN
  /\ stopped \subseteq 1..received
  /\ project \in [Projects -> {"waiting", "running", "draining", "ended"}]
  /\ queued \in [Projects -> Nat] /\ results \in [Projects -> Nat]
  /\ busy \in [Projects -> BOOLEAN]
  /\ wait \in [Projects -> {"off", "new", "check", "ask", "registered", "notified", "stopped"}]
  /\ unsent \subseteq Projects /\ unreported \in BOOLEAN
  /\ \A p \in Projects :
       queued[p] + (IF busy[p] THEN 1 ELSE 0) + results[p] <= Tests[p]

(* A stop is the business of the run it was taken in, for the whole of it, and of no  *)
(* later one: neither the flag nor a permit nobody consumed is heard by the next run, *)
(* and no start of a run resets what was asked of it (runner.rs:248-276, the while of *)
(* RunStop::wait; driver.rs:398, reset_stop).                                         *)
StopsOnlyItsRun ==
  InRun => /\ requested <=> current \in stopped
           /\ \A p \in Projects : wait[p] = "stopped" => requested

(* The notification finds a collecting loop whatever that loop was doing when the stop *)
(* came; with several projects it finds one, the others hear at their next result      *)
(* (runner.rs:255-276, 1737).                                                          *)
Hears(p) == wait[p] \in {"new", "check", "notified", "stopped"} \/ (wait[p] = "ask" /\ permit)
OneLoopHears ==
  driver = "running" /\ requested /\ (\E p \in Projects : project[p] = "running")
    => \E p \in Projects : Hears(p)

(* The next call is not taken before the run is over: no test of it executes, no      *)
(* project of it collects, no event of it is on its way to a client or a reporter, so *)
(* the reply to a run comes after all of its events (runner.rs:242-245, mod.rs:309).  *)
NothingOutlivesItsRun ==
  ~InRun => /\ \A p \in Projects : AtRest(p) /\ ~busy[p] /\ results[p] = 0
            /\ unsent = {} /\ ~unreported

(* The answers to the calls that wait for a run to end come in the order of the calls *)
(* ("a client that queued a listing and then a run must get them back that way round", *)
(* driver.rs:755); a stop overtakes them.                                              *)
InTurn(i) == calls[i] \in {"run", "list"}
AnswersInOrder ==
  \A m, n \in DOMAIN answered :
    m < n /\ InTurn(answered[m]) /\ InTurn(answered[n]) => answered[m] < answered[n]

(* No call is answered twice, and none is lost: what left the channel is answered, or *)
(* it is the run in progress, a deferred call or the stop being passed on; at the end *)
(* of the session all of them are answered (Request::drop, mod.rs:106).               *)
Answered(i) == \E n \in DOMAIN answered : answered[n] = i
Kept(i) ==
  \/ i = current
  \/ \E n \in DOMAIN deferred : deferred[n] = i
  \/ driver = "notifying" /\ i = received
AnsweredOnce ==
  /\ \A m, n \in DOMAIN answered : answered[m] = answered[n] => m = n
  /\ \A i \in 1..received : Answered(i) <=> ~Kept(i)
  /\ driver = "gone" => \A i \in DOMAIN calls : Answered(i)

(* Every call is answered, whether it met a run, a stop or the end of the session, and *)
(* once, and those that wait in their order.                                           *)
EveryCallAnswered ==
  /\ \A i \in 1..MaxCalls : Len(calls) >= i ~> Answered(i)
  /\ [](AnswersInOrder /\ AnsweredOnce)
=============================================================================
