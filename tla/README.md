# A verification project for ferridriver

TLA+ models of ferridriver's concurrent core, checked with TLC, with proofs that
TLAPS checks. Every definition is translated from the Rust sources under
`src/crates`; `PROJECT.json` maps each one to its lines.

ferridriver drives browsers (CDP, BiDi, WebDriver, WebKit), keeps them alive in
session servers, and runs test suites over several workers and projects in one
process. Modelled are the three places where its own concurrency decides whether an
answer can be believed: the test runner (locks, dispatch, retries, stops, projects,
browsers, contexts) with the server behind its UI mode; the CDP connection, which
pairs commands with answers; and the session server, which owns a browser that
several processes share.

## Inventory

Paths are under `src/crates`; `test` is `ferridriver-test/src`, `core` is
`ferridriver/src`.

| Component | Source | State it keeps | Operations | What makes it correct |
|---|---|---|---|---|
| Test locks | `test/locks.rs` | a table of named mutexes, each with a FIFO queue | `acquire`, drop of `Held` | two tests with a common name never overlap; nobody waits for ever |
| Dispatcher | `test/dispatcher.rs` | one channel of items, a stop flag | enqueue, `retry_shared`, `close`, `stop` | an item is handed out once; nothing is handed out after a stop |
| Worker loop | `test/worker.rs` | item in hand, repetition, item kept for the next incarnation, active suites | receive, lock, run, send, clean up | a group keeps its order; hooks run around the tests; an item received is an item reported |
| Collecting loop, exit status | `test/runner.rs`, `exit.rs`, `retry.rs`, `model.rs` | attempt history, counts, waiting retries | collect, retry, close, stop, join | exactly one verdict per test; the run ends; the status tells the truth |
| Project scheduler | `test/runner.rs` | scheduled, remaining, terminal and passed projects, worker slots | sort, launch, skip, join | dependencies first and passed, teardowns last, slots within the budget |
| Browser handle | `test/runner.rs` | a cell, a shared pending launch, a closed flag | `get`, `close`, cancellation | one launch for all callers; `close` leaves out no browser and reports one it cannot close |
| Context pool | `test/context_pool.rs` | ready contexts, two counters, a channel of deliveries | `acquire`, refill, promote, `drain` | fresh contexts only; counters exact; `drain` leaves nothing |
| Fixtures | `test/fixture.rs`, `fixture_graph.rs` | values, teardown stack, parent pool | resolve, tear down | set up once, torn down in reverse, after a cancellation too |
| Sharding | `test/shard.rs` | none | split a plan | every test in one shard, groups whole |
| Test server | `test/test_server` | calls in the channel and deferred, the run in progress, a stop flag with its `Notify` | run, stop, list, answer | one run at a time; a stop is heard, by its own run only; nothing outlives its run |
| Watch and UI modes | `test/server.rs`, `watch.rs`, `ui_server.rs` | changed files, key presses | re-run, forward | a change is followed by a run |
| CDP connection | `core/backend/cdp/transport.rs`, `pipe.rs`, `ws.rs`, `transport_tasks.rs` | pending commands, a disconnected flag, the writer's queue | send, dispatch, detach, fail all, close | every call returns, with what the browser said or the true reason |
| CDP events | `core/backend/cdp/transport.rs` | taps, broadcasts, lifecycle trackers | subscribe, fan out | a subscriber hears what it asked for, and the end |
| CDP pages | `core/backend/cdp/mod.rs`, `renderer.rs` | lifecycle states, frames, execution contexts | navigate, wait, evaluate | a wait ends for its own document only |
| Other backends | `core/backend/{bidi,webdriver,webkit}` | the same, per protocol | the same | the same |
| Browser processes | `core/backend/process.rs`, `reaper.rs` | children, groups to kill | launch, close, reap | no child outlives its owner |
| Browser state | `core/state.rs`, `state/allocation.rs` | instances, contexts, pages | allocate, adopt, close | a context belongs to one owner, or to none after close |
| Events, routes, dialogs | `core/events.rs`, `route.rs`, `dialog.rs`, `web_socket_route.rs` | listeners, routes, pending requests | subscribe, emit, continue | once-listeners fire once; a request is continued once |
| Locator handlers | `core/locator_handler.rs` | registered handlers | run before an action | no recursion, bounded calls |
| Deadlines | `core/pause.rs`, `operation_budget.rs`, `abort.rs` | a clock of parked time | run within, abort | parked time is never charged |
| Script sessions | `ferridriver-script/src` | persistent virtual machines, child processes | open, run, close, evict | one run per machine; nothing is leaked by a close |
| Session registry | `ferridriver-session/src/registry.rs`, `bind.rs`, `ferridriver-cli/.../session.rs` | descriptor files, file locks, two tables per process | claim, publish, bind, unbind, prune, close from the CLI | one owner per id; owners keep it; a close hits what it named |
| Session server | `ferridriver-session/src/server.rs`, `lifecycle.rs`, `bind.rs` | connections, a close in progress, drain and stop flags | run, stream, close, drain, drop | a close runs alone and is acknowledged; nothing holds it up |
| MCP, CLI, BDD, node bindings, configuration, macros, tracing, viewer, perf, heap, expect | the other crates | little or none | parsing, forwarding, formatting | not modelled, see below |

How they interact. A run asks the **project scheduler** for ready projects; each
project's run owns a **dispatcher**, spawns **workers** that pull items from one
shared channel and send results over a bounded channel to the **collecting loop**,
which puts retries back and closes the channel. Workers take **test locks** from
a table shared by the whole process, get their browser from a **browser handle**
and their contexts from a **context pool** whose tasks deliver over another
channel. A stop request reaches the scheduler and every collecting loop.

Apart from the runner, a **session server** answers the connections of several
clients, who find it through the **registry**'s files; one close ends it for all. Every
command of a CDP session, whoever sends it, goes over one **CDP connection** per
browser, whose callers, writer and reader share a map of pending commands.

What is hard: work items travel between an unbounded queue, workers' hands, a
bounded channel and a list of waiting retries, while the queue is closed by
counting; futures are dropped at any await by a timeout; a stop, a crash or a
failed launch arrives between any two steps. A command's answer, its timeout, its
session's detachment and the end of its connection race. Files and ports outlive the
processes that own them, and what was read from them is stale when it is used. A
close meets commands that never end, clients that do not read, and other closes.

## Modules

| Module | Models | Notes |
|---|---|---|
| `LockSections` | what `locks::acquire` promises | abstract: ask for a set of names, enter with all, leave |
| `TestLocks` | `locks.rs` | one name after the other, in name order, FIFO per mutex |
| `TestLocksProofs` | | TLAPS proofs about `TestLocks` |
| `Outcome` | `outcome_kind`, `exit::worst` | how attempts and an expectation read; ranks of exit statuses |
| `RunPromise` | what a run promises its caller | abstract: attempts are added to tests one by one, then one exit status |
| `TestRun` | `Worker::run`, `run_serial_batch`, `Dispatcher`, the collecting loop | one project's run; uses `LockSections` for the locks, as `TestLocks` implements it |
| `TestRunProofs` | | TLAPS proofs about `TestRun` |
| `MCTestRun` | | small plans for `TestRun` |
| `ProjectGraph` | `scheduled_projects`, `topo_sort_projects`, the prerequisite table | pure operators; one step of Kahn's algorithm is `KahnStep` |
| `ProjectScheduler` | `execute_projects_with_summary` | sorts, plans, launches, joins; a project's run is one step, with the statuses `TestRun` may end with |
| `ProjectProofs` | | TLAPS proofs about `ProjectScheduler` |
| `MCProjects` | | families of small configurations |
| `BrowserHandle` | `BrowserHandle::get`, `close` | callers that may be cancelled, the spawned launch |
| `ContextPool` | `ContextPool`, `Inbox` | one acquire at a time, spawned refills and promotions, the browser's death |
| `WorkerBrowserProofs` | | TLAPS proofs about `BrowserHandle` and `ContextPool`, the two halves of a worker's browser |
| `TestServer` | `serve`, `handle_during_run`, `execute_streaming`, `RunStop` | several projects' collecting loops, one flag and one `Notify` |
| `TestServerProofs` | | TLAPS proofs about `TestServer` |
| `MCTestServer` | | a session of two projects and two runs |
| `CdpChannel` | `CdpDispatcher`, `WsTransport`, `PipeTransport`, `TransportTasks`, `OperationBudget` | callers, writer, reader, close, and the browser as environment |
| `CdpChannelProofs` | | TLAPS proofs about `CdpChannel` |
| `MCCdpChannel` | | two commands, one of a session |
| `SessionRegistry` | `Registry`, `RegistryClaim`, `bind_global` and its tables, `session close` | processes that crash, files that stay |
| `SessionRegistryProofs` | | TLAPS proofs about `SessionRegistry` |
| `MCSessionRegistry` | | two bindings that share their id, their browser or both, and a host on the same port |
| `SessionServing` | `SessionServer::serve`, `serve_connection`, `Lifecycle`, the owner's drain and drop | clients that pipeline, stream, hang up, stop reading |
| `SessionServingProofs` | | TLAPS proofs about `SessionServing` |
| `MCSessionServing` | | one client that sends ahead, one that does not |

Composition: `TestRun` instantiates `LockSections`, which `TestLocks` refines
(`ImplementsSections`); `TestRun` refines `RunPromise` (`ImplementsPromise`);
`ProjectScheduler` assumes of a project's run what `EndsUnlessCrashed` and
`PassedMeansJudged` show of `TestRun`, and both share `Outcome`. `TestServer`
runs projects whose insides are `TestRun` and whose order is `ProjectScheduler`;
`SessionServing` is what happens to one server of `SessionRegistry` between `serving`
and `stopped`. These two pairs are joined by what one assumes of the other, not by
`INSTANCE`: the state spaces multiply, and no property of one speaks of the
other's insides.

### State and code

*TestRun.* `queue`, `closed`, `stopped` are the Dispatcher's channel and flag.
`pc[w]` is where worker `w` stands in `Worker::run`: `recv` at the receive,
`lock` in `locks::acquire`, `run` before the next test of its item, `send` at
`result_tx.send`, `yield` at `yield_now` with the locks still held, `cleanup` after the
loop, `done`/`failed` when the slot's task has ended. `pending[w]` is the item
a worker hands to its next incarnation when the repetition changes; `active[w]`
is `active_suites`. `results` is the bounded channel; `history`, `finalCount`,
`failureCount`, `waiting`, `stopSeen` are the locals of the collecting loop.
`Collect` is one turn of that loop for one result, all of it: history, retry or
count, the `max_failures` stop, the close at the last verdict, the release of
one isolated retry. `settled` is auxiliary: which tests `finalCount` counts.

*ProjectScheduler.* `pc` is `sort`, where `SortNode` takes one project off the queue of
Kahn's algorithm until `PlanProjects` builds the schedule and the prerequisite table or
`RefuseCycle` gives up; then it alternates between `scan` (the inner launch loop, one
project per step) and `join` (`join_next().await`), then `report`. No code runs between two
steps of the sort; they are separate so that the order can be reasoned about.
The spawned task gives its lease back when it ends, before it is joined, as the
code does by dropping the permit inside the task.

*BrowserHandle.* One action per step between two awaits: a caller's `get` under
the lock, the launch's end, the await of the shared future, the flag a
failed launch raises, the room it makes for the next one, `close`. A caller may be
dropped at any await. `Browser::close` may fail: the browser is then dead all the same
(its profile could not be flushed, `cdp/mod.rs:1241`) or still running and kept for a later
clean-up (`state.rs:1352`, `webdriver/browser.rs:387`), which is `"kept"` in `browser`. The
worker returns that error and tries no more; what happens to a kept browser
when its owner is dropped is not modelled.

*ContextPool.* `Hit` and `Refill` are one turn of `acquire`'s loop, which first
drains the arrivals; `AwaitOne` is its wait; `TimeOut` drops the future. The queue of ready
contexts is a set: `take` and `spawn_promotions` go by position, and which of several
matching or several cold contexts they meet first is left open.

*TestServer.* `driver` is where the serving task is: between calls, discovering, in
`execute_streaming`'s loop, inside `RunStop::request` between the flag and the
notification, or draining the bus. `wait[p]` is project `p`'s `RunStop::wait`, one step
per look at the flag or at the `Notify`, and what its `select!` drops passes a
notification on, as tokio's `Notified` does (`DropWait`). A test is two steps, its
events a set that forwarder and reporters empty.

*CdpChannel.* `phase[c]` follows `send_command`; `Register` and `Recheck` are the
insertion and the second look at the flag, with everything else in between;
`Settle` removes an entry and answers its oneshot; `FailAllBegins`, `FailAllCollects`,
`FailAllFails`, `FailAllEnds` are `fail_all_pending`, run by the reader at the end of the
stream and by `close()`, at the same time if need be. `BrowserExits` loses any tail of
what the browser wrote. `Timeout` and `Cancel` drop the call where it waits.

*SessionRegistry.* `lock` and `descriptor` are the files; `claim[s]` is the
`RegistryClaim`, `"removed"` between its file and its lock; `stage[s]` follows
`bind_dispatcher` and `bind_global` for `id[s]` and `browser[s]`; `table` and `bindings` are the two maps of a
process, changed by separate steps as the code takes their mutexes one after the other
(`taking`, `leaving` say who is between them); `closer[c]` keeps the descriptor a CLI
close has read. `Crash` takes a process's memory, locks and ports and leaves its files.

*SessionServing.* `at[c]` is where connection `c`'s task is, from the accept to the
three locks of a close; `taken`, `cmd`, `replied` count the commands it has read, begun and
answered. `began` is auxiliary: the connections whose close began before a stop was decided.
The errors that end a connection are actions of their own: `WireFails` (its client is
gone), `BadFrame` (a frame that is no command, between two commands or ahead of the one
that runs, which is dropped unanswered, `server.rs:382`, `469`) and, for all connections,
`AcceptFails` (`server.rs:272`).

## Runs

| Run | Question | Result |
|---|---|---|
| `locks` | Do ordered acquisition and FIFO mutexes exclude, and never deadlock or starve? (`AscendingWaits`, `EveryCallReturns`, `ImplementsSections`) | holds |
| `test_run` | Is every test judged exactly once, in order, apart from those it shares a lock with, with retries, groups, a broken suite, a stop and a result channel of one slot? (`EachTestOnce`, `GroupsInOrder`, `LockedTestsApart`, `ImplementsPromise`) | holds |
| `stopped_run` | With isolated retries, two repetitions, max failures and a worker that may crash: do retries run alone, does status 0 tell the truth, does the run end? (`RetriesRunAlone`, `PassedMeansJudged`, `EndsUnlessCrashed`) | holds |
| `projects` | Are dependencies passed first, teardowns later, slots within the budget, every project settled, status 0 earned? (`DependenciesPassFirst`, `PassedMeansAllPassed`, `TeardownAfterParent`, `WorkersWithinBudget`, `EveryProjectSettles`) | holds |
| `browser_handle` | One browser, none left out by `close` and none left running without its error, failed launches reported, whoever is cancelled? (`OneBrowser`, `NoBrowserSurvivesClose`, `LaunchFailureReported`) | holds |
| `context_pool` | Are counters exact, contexts fresh, `drain` complete; does `acquire` return while the browser lives? (`CountersExact`, `DrainLeavesNothing`, `HandsOutFresh`, `AcquireReturnsAlive`) | holds |
| `test_server` | Is a stop heard, by its run only; does nothing outlive its run; is every call answered, in order? (`StopsOnlyItsRun`, `OneLoopHears`, `NothingOutlivesItsRun`, `EveryCallAnswered`) | holds |
| `cdp_channel` | Is no entry of the map left behind, is every failure true, does every call return when its connection or session ends, does `close()`? (`PendingIsAwaited`, `FailuresHaveACause`, `CallsAreReleased`, `CloseEnds`) | holds |
| `session_registry` | Do owners keep their id, do cleanups of old bindings spare new ones, does a close hit its target, does a stopped session leave nothing? (`OwnersKeepTheirDescriptor`, `ClosedMeansReleased`, `OnlyItsOwnUnbinding`, `CloseHitsItsTarget`, `StoppedIsForgotten`) | holds |
| `session_serving` | Does a close run alone, is it acknowledged and never held up, is what was begun answered unless a close, its own client or the end of the serve task cuts it off, is a hang-up noticed? (`CloseRunsAlone`, `BegunIsAnswered`, `CleanedStops`, `CloseIsNotBlocked`, `HangUpEnds`) | holds |
| `worker_crash` | Does a run end when a worker's clean-up fails? (`RunEnds`) | violated: the item it kept is lost and the run hangs |
| `context_pool_dead` | Does `acquire` surface a dead browser? (`AcquireReturns`) | violated: it refills for ever |

The two violations disagree with a sentence of the code's own documentation, which
`findings` quotes.

### Bounds, and why they are enough

- `locks`: three holders, two names, all declarations. A circle of waiters needs two holders and
  two names, overtaking needs three holders.
- `test_run`: two workers, three tests of which two form a serial group, one lock
  shared across the group's border, one retry each, a result channel of one slot so
  that sending blocks while locks are held, and one suite whose `beforeAll` may fail.
- `stopped_run`: two repetitions so that an item is handed to a next incarnation;
  `MaxFaults = 1` worker may crash; `MaxFailures = 2` trips in the middle. A retry
  carries a tail of one test, which is what the isolated count has to include.
- `projects`: three projects are the smallest graphs with a diamond's edge, a cycle
  that leaves somebody outside it, and a teardown with a dependent. `MCProjects`
  enumerates all of them; two may run at once under three worker slots.
- `browser_handle`: four callers, three launches: a failed one that somebody still
  awaits, its successor, and one more.
- `context_pool`: depth 2, two option keys, four acquires, so that the pool runs through
  its depth twice, one failing creation, `MaxContexts = 9`.
- `test_server`: two projects, of two tests and one, so that a notification reaches one
  of two loops and the other hears at a result; three calls, of which two may be runs, so
  that a permit stored in the first run meets the second.
- `cdp_channel`: two commands, one of a session and with a deadline, one of the
  browser; a queue of one, so that one waits for room while the other is written.
- `session_registry`: two bindings in one process, of one browser under one id or two, or
  of two browsers under one id, and a host of another process with the port of the first; one CLI close. Overtaking needs an
  old owner, a new one and somebody who read the old descriptor.
- `session_serving`: two clients, one of which sends a second command ahead: two
  closes, or a close and what it cuts off, or a stream whose client left.

Every action and every alternative of every next-state relation fires in some
passing run. Bounds (`MaxFaults`, `MaxContexts`, `MaxTests`, `MaxFailures` of the pool,
the callers and launches of the handle, `MaxCalls` and `MaxKind` of the test server,
`MaxSent` of a client) are named constants in guards.

### Fairness

Weak fairness of each worker's step, of `Collect`, `SeeStop` and `Finish`: tokio polls
a task that can go on, and every await inside a test is bounded by its timeout, so
that `RunTest` is one step that ends. Of the locks: tokio's mutex is FIFO, so weak
fairness of a holder's steps is enough; starvation freedom is a result, not
an assumption. Of the projects: that a run ends is what `EndsUnlessCrashed` shows
of `TestRun` as long as no worker's clean-up fails; a run that hangs as in `worker_crash`
would hold up the projects, and is left out of `ProjectScheduler`.
Of the context pool: the spawned tasks end, because the browser answers or its
backend reports it gone; nothing assumes that a test's timeout comes. Of
the CDP connection: callers, writer, reader and whoever ends the connection go on,
and the browser, while it runs, refuses what it cannot deliver to a session; it need not
answer anything else. Of the registry: tear-downs and closes that were begun
go on in a process that runs. Of a session server: tasks are polled, but one that
writes to a client who does not read stays there until the client leaves, and a
stream ends only with its client. Of the test server: its task, reporters and projects
go on, because a test's phases end by their timeouts.

No fairness is given to stops, crashes, cancellations, deadlines, hang-ups or the
browser's death, and nobody has to start a call, a bind or a close.

## Proofs

`TestLocksProofs` proves, for every set of holders and names and every
declaration:

- `TypeCorrect`: `Spec => []TypeOK`.
- `Exclusive`: `Spec => []MutualExclusion`.
- `WaitsAscend`: `Spec => []AscendingWaits`. A waiter holds only names below
  the one it waits for, hence no circle.
- `Implements`: `Spec => ImplementsSections`; every step of the acquisition
  is a step of `LockSections` or a stutter.
- `NoDeadlock`: `Spec => []NoCircleOfWaits`, for finitely many holders: somebody
  who is not done can go on. It is what `WaitsAscend` is for.

The argument. Mutual exclusion is not inductive by itself: a release hands the mutex
to the head of its queue, so one has to know that whoever is queued waits for
exactly that name and is nowhere else, and that what a holder has taken is an
initial part, in name order, of what it declared. The inductive invariant says these
things per holder; `MutualExclusion` and `AscendingWaits` follow from it, and the
refinement reads "enters" off the moment the last name is taken. For `NoDeadlock`, suppose
that nobody can go on. Then whoever is inside `acquire()` waits in some queue, and whoever
holds that name waits for a greater one, so that fewer holders wait for names beyond its own;
but among finitely many one has fewest.

`TestRunProofs` proves, for every plan, set of workers, declaration of locks, number
of retries and capacity:

- `TypeCorrect`: `Spec => []TypeOK`.
- `Apart`: `Spec => []LockedTestsApart`.
- `OnceEach`: `Spec => []EachTestOnce`.
- `InOrder`: `Spec => []GroupsInOrder`.
- `AloneInTheirTurn`: `Spec => []RetriesRunAlone`.
- `Judged`: `Spec => []PassedMeansJudged`.
- `PromiseKept`: `Spec => ImplementsPromise`; every step of a run is a step of `RunPromise`
  or a stutter.
- `NoHang`: `Spec => []NeverStuck`; once the queue is closed, and before as long as no worker
  crashed, a result is to be collected, a worker goes on, or all have left their loops.

The argument, in two invariants. `IInv` is about the locks. That two tests which share a
name never run together follows from three facts no single action shows: whoever runs a
test is inside its locks; the names it asked for cover every test left of its item, so
those of a group's later tests too; and holders have disjoint names. The second needs that
what is left of an item is a suffix of what was locked for, and the first that a stop, a
crash, a retry or a hand-over never leaves a worker running outside its locks. The type
invariant rides along: an item is never empty, from the plan through a retry and its tail.

`Ledger` is about the tests. None of the other properties is inductive, because a test
moves between six kinds of places (the queue, a worker's hands, the item it keeps for its next
incarnation, its unsent results, the channel, the waiting retries) while the queue is
closed by counting. The ledger says where everything is:

- `Hands`: a worker has work, results or a kept item only where its `pc` allows it;
- `Once`: no test is in two places, nor in any once it has its verdict;
- `Kept`: before that it is in one, unless a stop or a crash may have dropped work;
- `Counted`: `finalCount` is the number of tests with a verdict;
- `Attempts`: work carries the number of the attempt that the test's history says is due,
  and never more than it may have; a result or a waiting retry fits the history too;
- `Ordered`: what is left of a serial group is a suffix of it, and every test before that
  has its verdict, counted or on the way to the runner;
- `Alone`: when retries are isolated, one that is due is the only work there is;
- `Reasons`: what has closed the queue, stopped the run or ended a worker.

`Once` and `Kept` with `Counted` show that the queue is closed when all have their verdicts, not
before, which `Once` and `Attempts` need in turn. `Alone` is where counting has to be
argued: a retry is released when what is held back equals what is not yet judged, and from
an equality of cardinalities it has to follow that nobody else has work. `Judged` and
`PromiseKept` read the exit status and the refinement off the ledger.

`NoHang` adds `Moving`. Where no worker can go on and nothing is to be collected, the channel
has room, so nobody sends; locks are held only in a turn, so nobody holds any and nobody
waits for one; all workers wait for an item, and the queue is open and empty. The ledger
leaves one place for the tests without a verdict: the retries held back for their isolated
turn. `Moving` says that this cannot be all of them: while the queue is open, some test has
neither a verdict nor a place there. Collecting a result keeps that by a count of places
again (`SomebodyElse`): either the verdicts and the places held back are fewer than the
tests, or the first retry goes back to the queue, and by `Once` its test is held back no
more. A crashed worker breaks the argument, as it should: the item it kept is lost and the
queue stays open (`worker_crash`).

`WorkerBrowserProofs` proves, for any number of callers and launches, `TypeCorrect` and

- `One`: `Spec => []OneBrowser`;
- `NoneSurvives`: `Spec => []NoBrowserSurvivesClose`;
- `FailureReported`: `Spec => []LaunchFailureReported`;

and, for any depth, option keys and bounds of the pool:

- `Counted`: `PoolSpec => []CountersExact`, the pool's type invariant included;
- `Drained`: `PoolSpec => []DrainLeavesNothing`;
- `HandedOutFresh`: `PoolSpec => HandsOutFresh`.

The argument for the handle. A launch that is going on or succeeded is the pending one, and
a second one would need none pending: a failed caller only forgets the launch it waited for.
Once closed, nothing new can become pending, so what `close` took hold of is all that
can still bring up a browser, and a failure nobody has flagged is what it holds. A browser is
kept only by the step that makes `close` an error.

The argument for the pool. The counters are compared with two sets, the spawned tasks
and the deliveries in the channel, so each step needs how their cardinalities change; a
creation or a warm-up that ends leaves the one set and joins the other. That contexts are
fresh is `Whereabouts`, one statement per context: what is in the pool or in a delivery exists,
has been given to nobody and has no task; one being warmed is not in the pool; a number
being created is nobody's; inline creation is one at a time, with the options asked for; and
whatever is open was given to a test, is in the pool, in the channel, or out being warmed.
The last is what `drain` rests on: with both counters at 0, and exact, nothing is on
its way, and what it closes is all that no test was given.

`ProjectProofs` proves, for any number of projects and every configuration:

- `TypeCorrect`: `Spec => []TypeOK`;
- `DependenciesFirst`: `Spec => []DependenciesPassFirst`;
- `SlotsSuffice`: `Spec => []WorkersWithinBudget`;
- `TeardownLater`: `Spec => []TeardownAfterParent`, provided no project is
  the teardown of two (the code keeps one parent per teardown, so the property is false
  otherwise);
- `PassedIsAll`: `Spec => []PassedMeansAllPassed`, provided teardowns close no circle of
  waits (`Harmless`; the loop breaks with projects left and the status of what did run
  otherwise, so the property is false);
- `AllSettle`: `Spec => []NobodyLeftOut` under the same hypothesis: when the scheduler is
  done, each scheduled project ran or was skipped with a result.

The argument. The prerequisite table is computed once and never changes, a launch
finds everything in it terminal and, where it must, passed, and both sets only grow. Of
the sort (`Sorting`), a degree is the number of dependencies that are not in the order
yet, so whoever enters the queue has all of its own before it; a complete order
therefore leaves no circle of dependencies (`Orderly`). The slots
(`Budget`) are a set of pairs of a project and a number, whose cardinality grows by what a
launch takes; a share is the free slots over the launches possible, rounded up, so it is at
least 1 and never more than are free. That status 0 means all passed is an account of
every scheduled project (`Accounting`): while the status is 0 it remains, runs, waits to be
joined, or has passed. The account closes because the loop cannot leave with something
remaining: were nothing in flight and nobody ready, everyone who remains would wait for
another who remains, which is a circle of waits, and `Harmless` turns it into one of
dependencies, which `Orderly` excludes (`Stuck`). `AllSettle` is the same account whatever
the status (`Settling`), together with how the sort ends: when its queue is empty, whoever is
not in the order has a dependency that is not either (`LeftOutIsCircle`). `MCProjects` assumes both hypotheses of its graphs, so that
TLC evaluates them on every one.

`TestServerProofs` proves, for any projects, numbers of tests and calls:

- `TypeCorrect`: `Spec => []TypeOK`, that the tests of a project add up included;
- `RunsEndWhole`: `Spec => []NothingOutlivesItsRun`;
- `StopsItsOwn`: `Spec => []StopsOnlyItsRun`;
- `StopIsHeard`: `Spec => []OneLoopHears`;
- `InOrder`: `Spec => []AnswersInOrder` and `NoneTwiceNoneLost`: `Spec => []AnsweredOnce`, the
  safety parts of `EveryCallAnswered`.

The argument. Work belongs to a run: what is executed, collected or streamed
belongs to a project that runs or drains, so that all of it is over when
every project rests. A stop is no later run's because calls are deferred in
ascending order and all of them come after every run that was ever stopped:
a run's number is new. A stop is heard because a permit in store means that nobody is
registered, and a stop passed on left a permit or a woken loop; a loop that drops what it
was given passes it on. Answers come in order because whoever waits for a run to end and
has its answer came before the run in progress and before all that is deferred
(`AnsweredFirst`), and the one call that overtakes, the stop, is neither (`StopApart`).

`CdpChannelProofs` proves, for any commands, sessions and capacity:

- `TypeCorrect`: `Spec => []TypeOK`;
- `Awaited`: `Spec => []PendingIsAwaited`;
- `Truthful`: `Spec => []FailuresHaveACause`;
- `Remembered`: `Spec => []NoCallForgotten`; while a call waits, its answer is on the way, or
  what will fail it, or the command itself.

The argument. An entry belongs to an open call because every way out of a call takes the
entry along; and past the end of a `fail_all_pending` only calls between insertion and second
look can have one, because whoever was in the map when it was collected
was collected, and whoever came later finds the flag. Failures are true because their
causes last: a session that went does not come back, the flag is never lowered, an
answer given stays given; the invariant carries a cause with every frame, id and reply
on its way to a call. A waiting call is remembered because its entry stays until it is
answered (`Entries`), the flag is raised by a `fail_all_pending` that still has the entry
before it (`Raised`), and as long as nobody has given the connection up the command is in the queue or
with the writer, or its answer or the end of its session is on the way back (`Expected`,
`UnderWay`).

`SessionRegistryProofs` proves, for any servers, processes, ids, browsers, closers and any
sharing of them and of ports:

- `TypeCorrect`: `Spec => []TypeOK`;
- `OwnersKeep`: `Spec => []OwnersKeepTheirDescriptor`;
- `Released`: `Spec => []ClosedMeansReleased`;
- `HitsItsTarget`: `Spec => CloseHitsItsTarget`;
- `OwnUnbinding`: `Spec => OnlyItsOwnUnbinding`.

The argument. A claim goes with the lock, in both directions, and a descriptor of a running
process with a published claim or one being removed; so two claims of one id are one claim,
and a prune, which needs the lock, finds no owner. A session reported closed has ended its
bind and has no claim, and nothing starts a bind again. A live session that nobody is
taking out is in both tables and holds its id's lock (`Tabled`); a server that is about to be
stored holds a lock too unless it was closed, so it has another id and replaces nobody, and
what a cleanup removes is a session that somebody is taking out.

`SessionServingProofs` proves, for any clients and commands:

- `TypeCorrect`: `Spec => []TypeOK`;
- `Alone`: `Spec => []CloseRunsAlone`;
- `Answered`: `Spec => []BegunIsAnswered`.

The argument. At most one close is past the cleanup mutex, and none releases while a command
is dispatched. A connection between two commands has answered the last, or its client is
gone; a stop is sent by the last close to end, so a close that began before it was
decided has been answered by then, and any other end of the serve task has waited for
the connections, been a drop or been a failed accept. A connection that ends with a command
under way was cut off by a close (any client's), lost its client or met a bad frame, which
is then still the next on its wire (`Garbled`).

Assumptions: the named `ASSUME`s of `TestLocks` (names are integers, so that they
have an order), `TestRun` (`RunAssumption`: the constants' types, no unit of the plan
is empty; `PlanAssumption`: the plan names every test exactly once; `EndsAssumption`),
`ProjectGraph` (`ProjectsAssumption`: there is a project), `ProjectScheduler`
(`SchedulerAssumption`: at least one worker), `BrowserHandle` and `ContextPool` (bounds are
numbers, there is an option key), `TestServer`, `CdpChannel`, `SessionRegistry` and
`SessionServing` (the constants' types; that `None` is no server and `Root` no session), all
evaluated by the runs.

Every invariant, action property and refinement of the passing runs is proved, the two of
`ProjectScheduler` under the hypotheses named there. Only model-checked is liveness
(`EveryCallReturns`, `EndsUnlessCrashed`, `EveryProjectSettles`, `AcquireReturnsAlive`,
`EveryCallAnswered`, `CallsAreReleased`, `CloseEnds`, `StoppedIsForgotten`, `CleanedStops`,
`CloseIsNotBlocked`, `HangUpEnds`): liveness under fairness is out of the prover's reach. Of
five the safety half is proved, that there is no state to be stuck in or nobody is
forgotten: `NoDeadlock` for `EveryCallReturns`, `NoHang` for `EndsUnlessCrashed`, `AllSettle` for
the end `EveryProjectSettles` asks for, `Remembered` for `CallsAreReleased`, and
`InOrder` and `NoneTwiceNoneLost` for `EveryCallAnswered`. Induction over data is out of reach too, which is why the
sort is a sequence of steps, and why nothing is proved about what `Closure` contains: no
theorem needs it.

## Found by reading, without a run

The runner:

- An item that waited for a lock while the run was hard-stopped still runs: the flag is
  read before the wait (`worker.rs:1227`) and not after it (`worker.rs:1237`), although
  `dispatcher.rs:79` says that a stopped worker drops what it received. `PickUp` and
  `Acquired` model it.
- A failed `beforeAll` skips its suite, skips are neutral, and the status is 0
  (`worker.rs:1569` against `exit.rs:3`).
- A suite that has `afterAll` hooks and no `beforeAll` never runs them
  (`worker.rs:1518`, `1267` against `site/docs/test-runner/fixtures-and-hooks.md:39`); an
  `afterAll` that fails is only warned about (`worker.rs:1320`).
- A serial group skips its rest after a test declared `test.fail()` that failed as
  expected (`worker.rs:1423` compares the status alone).
- A teardown waits for the project that declares it and not for those that depend on
  it (`runner.rs:751` against `runner.rs:683`).
- Projects that wait for each other through a teardown are refused by nobody: the
  loop breaks and the status is that of what did run (`runner.rs:1011`).
- A stop wakes one waiter (`notify_one`, `runner.rs:258`), and every project of a run
  waits on the same `RunStop`: the others' collecting loops read the flag again only
  after their next result, so their workers may start another test. `OneLoopHears`
  shows that it is never fewer than one.
- `[Failed, Skipped]` reads as flaky although no attempt passed (`model.rs:1868`).
- A context created in line and cut off by a timeout is known to nobody (`context_pool.rs:130`).
- Once a run has deferred calls, a closed window or an interrupt is noticed only after
  them (`driver.rs:758`, `764`), and the run's own branch for a UI that is gone
  (`driver.rs:410`) cannot be
  reached: the HTTP side keeps a sender.

The session server:

- A close that begins between the last `CloseRequest`'s decrement and the stop it sends is
  cut off unanswered (`lifecycle.rs:127`); `began` leaves it out.
- `store_live` replaces whatever is in the table under its id (`bind.rs:88`). A server that a
  client closes after it was published and before it is stored has given its id back; if
  another browser is bound under that id in between, the late store drops that binding,
  which is to serve "until an explicit `unbind` (or process exit)" (`bind.rs:27`).
  `OnlyItsOwnUnbinding` names the case, `LateStore`; without it TLC finds the behaviour.
- The same insert drops a session whose close has unpublished and not yet replied, when its
  id is bound again: the reply to that close is lost.

## Not modelled

Inside an attempt: steps, traces, screenshots and artifacts. Around
a run: filters, global setup and teardown, web servers, reporters' output. Project
runs that end in a usage error of their own.

Left out of the modelled parts: in `TestServer`, ping and resizeTerminal, which change
nothing, the second worker of a project, the dependencies between projects, and the
separate tasks of forwarder and pump; in `CdpChannel`, the fan-out of events and its
subscriptions (one that is made while `fail_all_pending` clears them sees the flag and
clears again, `transport.rs:743`) and the encodings; in `SessionRegistry`, failures of the
file system, `Registry::put`, which tests alone use, and a claim or prune seen halfway (both
work under the file lock); in `SessionServing`, authentication and a close that names
another server, both of which are refused before anything changes, and a dispatcher that
panics, which ends its connection.

Taken to succeed: in `BrowserHandle`, the clean-up of a launch that failed; in
`ContextPool`, the closing of a context, whose result the code ignores
(`context_pool.rs:224`); in `CdpChannel`, a write while the browser lives; in
`SessionServing`, the answer to a close whose client is there. A client that
asks for a close and does not read the answer would hold its `CloseRequest`, and with it the
stop (`server.rs:504`), for as long as it stays: `CleanedStops` and `CloseIsNotBlocked` speak
of closers that read or leave.

The crates that parse, forward or format, and the bindings, have no state that a
model would explore: `page.rs`, `locator.rs`, `options.rs`, the CDP, BiDi and WebKit page
implementations and the script bindings are most of the code base and turn one call into
one or more commands. That is why the modelled lines are a small part of all lines
while the concurrent core is covered.

## Plan

In this order:

1. Fixtures: `FixturePool`, resolution and teardown by concurrent callers.
2. Navigation waits over the lifecycle state of a frame, on top of `CdpChannel`, with the
   fan-out of events and its subscriptions.
3. `SessionTable` of the script host: persistent machines, eviction against a close.
4. `Emitter` and `Routes`: once-listeners, waiters, a request continued once.
5. `BrowserState`: allocation and adoption against close; the reaper.
6. `Deadlines`: parked time. `Shards`: pure operators against "every test in
   exactly one shard". The BiDi and WebKit connections against the promise of `CdpChannel`.
7. Proofs: that `TestServer` keeps, per project, what `RunPromise` promises; the
   safety half of liveness (what a stuck state would have to look like) for
   `SessionServing` and for a run of `TestServer`.
