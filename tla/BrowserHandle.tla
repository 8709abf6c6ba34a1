---------------------------- MODULE BrowserHandle ----------------------------
(***************************************************************************)
(* The lazily launched browser of a worker: BrowserHandle in               *)
(* crates/ferridriver-test/src/runner.rs.  Fixtures and hooks call get(),  *)
(* a test's timeout may cancel them while they wait, and the worker calls  *)
(* close() once when its loop is over, maybe while a launch nobody waits   *)
(* for is still going on in its own task.                                  *)
(*                                                                         *)
(* Launch attempts are numbered; launch l may bring up browser l.          *)
(***************************************************************************)
EXTENDS Naturals, FiniteSets

CONSTANTS
  Callers,     \* calls of get()
  MaxLaunches  \* bound on the launch attempts of one behaviour

ASSUME HandleAssumption == MaxLaunches \in Nat

Launches == 1..MaxLaunches

None == 0

VARIABLES
  closed,        \* BrowserLaunchState::closed
  pending,       \* BrowserLaunchState::pending: a launch, or None
  cell,          \* the browser the cell holds, or None
  launch,        \* launch[l]: "unused", "running", "ok" or "err"
  browser,       \* browser[l]: "absent", "open", "closed", or "kept" when closing it failed
  get,           \* get[c]: "idle", "waiting", "failing", "ok", "refused", "err" or "cancelled"
  awaits,        \* awaits[c]: the launch whose shared future c waits for
  close,         \* "idle", "waiting", "ok" or "err"
  closeAwaits,   \* the pending launch close() found, or None
  launchFailed   \* the run's launch_failed flag

vars == <<closed, pending, cell, launch, browser, get, awaits, close, closeAwaits, launchFailed>>

Init ==
  /\ closed = FALSE
  /\ pending = None
  /\ cell = None
  /\ launch = [l \in Launches |-> "unused"]
  /\ browser = [l \in Launches |-> "absent"]
  /\ get = [c \in Callers |-> "idle"]
  /\ awaits = [c \in Callers |-> None]
  /\ close = "idle"
  /\ closeAwaits = None
  /\ launchFailed = FALSE

(* get() under the launch lock: refused once closed, served from the cell. *)
GetAtOnce(c) ==
  /\ get[c] = "idle"
  /\ closed \/ cell # None
  /\ get' = [get EXCEPT ![c] = IF closed THEN "refused" ELSE "ok"]
  /\ UNCHANGED <<closed, pending, cell, launch, browser, awaits, close, closeAwaits, launchFailed>>

(* ... or joins the pending launch. *)
GetJoins(c) ==
  /\ get[c] = "idle"
  /\ ~closed /\ cell = None
  /\ pending # None
  /\ get' = [get EXCEPT ![c] = "waiting"]
  /\ awaits' = [awaits EXCEPT ![c] = pending]
  /\ UNCHANGED <<closed, pending, cell, launch, browser, close, closeAwaits, launchFailed>>

LaunchBesidePending(c, l) ==              \* mutant: two callers launch two browsers
  /\ get[c] = "idle"
  /\ ~closed /\ cell = None
  /\ launch[l] = "unused"
  /\ launch' = [launch EXCEPT ![l] = "running"]
  /\ pending' = l
  /\ get' = [get EXCEPT ![c] = "waiting"]
  /\ awaits' = [awaits EXCEPT ![c] = l]
  /\ UNCHANGED <<closed, cell, browser, close, closeAwaits, launchFailed>>

(* ... or spawns one: the task survives the caller. *)
GetLaunches(c, l) ==
  /\ get[c] = "idle"
  /\ ~closed /\ cell = None
  /\ pending = None
  /\ launch[l] = "unused"
  /\ launch' = [launch EXCEPT ![l] = "running"]
  /\ pending' = l
  /\ get' = [get EXCEPT ![c] = "waiting"]
  /\ awaits' = [awaits EXCEPT ![c] = l]
  /\ UNCHANGED <<closed, cell, browser, close, closeAwaits, launchFailed>>

LaunchSucceeds(l) ==
  /\ launch[l] = "running"
  /\ launch' = [launch EXCEPT ![l] = "ok"]
  /\ browser' = [browser EXCEPT ![l] = "open"]
  /\ cell' = IF cell = None THEN l ELSE cell
  /\ UNCHANGED <<closed, pending, get, awaits, close, closeAwaits, launchFailed>>

LaunchFails(l) ==
  /\ launch[l] = "running"
  /\ launch' = [launch EXCEPT ![l] = "err"]
  /\ UNCHANGED <<closed, pending, cell, browser, get, awaits, close, closeAwaits, launchFailed>>

GetServed(c) ==
  /\ get[c] = "waiting"
  /\ launch[awaits[c]] = "ok"
  /\ get' = [get EXCEPT ![c] = "ok"]
  /\ UNCHANGED <<closed, pending, cell, launch, browser, awaits, close, closeAwaits, launchFailed>>

FailQuietly(c) ==                         \* mutant: the flag is not raised
  /\ get[c] = "waiting"
  /\ launch[awaits[c]] = "err"
  /\ get' = [get EXCEPT ![c] = "failing"]
  /\ UNCHANGED <<closed, pending, cell, launch, browser, awaits, close, closeAwaits, launchFailed>>

(* A failed launch raises the flag, and then ...                           *)
GetFails(c) ==
  /\ get[c] = "waiting"
  /\ launch[awaits[c]] = "err"
  /\ get' = [get EXCEPT ![c] = "failing"]
  /\ launchFailed' = TRUE
  /\ UNCHANGED <<closed, pending, cell, launch, browser, awaits, close, closeAwaits>>

(* ... under the lock makes room for the next attempt, if it is still the  *)
(* pending one.                                                            *)
GetForgets(c) ==
  /\ get[c] = "failing"
  /\ get' = [get EXCEPT ![c] = "err"]
  /\ pending' = IF pending = awaits[c] THEN None ELSE pending
  /\ UNCHANGED <<closed, cell, launch, browser, awaits, close, closeAwaits, launchFailed>>

(* The fixture's timeout drops the future of get(). *)
Cancel(c) ==
  /\ get[c] \in {"waiting", "failing"}
  /\ get' = [get EXCEPT ![c] = "cancelled"]
  /\ UNCHANGED <<closed, pending, cell, launch, browser, awaits, close, closeAwaits, launchFailed>>

(* What Browser::close() of browser l leaves behind, the Err of the `?`    *)
(* being the handle's own: either it closed, or it failed, and then the    *)
(* browser may be dead all the same (killed, but its profile not flushed)  *)
(* or still run, kept among the state's pending cleanups.                  *)
BrowserCloses(l) ==
  \/ close' = "ok" /\ browser' = [browser EXCEPT ![l] = "closed"]
  \/ close' = "err" /\ \E left \in {"closed", "kept"} : browser' = [browser EXCEPT ![l] = left]

CloseCell ==                              \* mutant: does not await a pending launch
  /\ close = "idle"
  /\ closed' = TRUE
  /\ IF cell # None THEN BrowserCloses(cell) ELSE close' = "ok" /\ UNCHANGED browser
  /\ UNCHANGED <<pending, cell, launch, get, awaits, closeAwaits, launchFailed>>

(* close() refuses later calls and takes hold of the pending launch; with  *)
(* none there is at most the cell's browser to close.                      *)
Close ==
  /\ close = "idle"
  /\ closed' = TRUE
  /\ closeAwaits' = pending
  /\ \/ pending # None /\ close' = "waiting" /\ UNCHANGED browser
     \/ pending = None /\ cell # None /\ BrowserCloses(cell)
     \/ pending = None /\ cell = None /\ close' = "ok" /\ UNCHANGED browser
  /\ UNCHANGED <<pending, cell, launch, get, awaits, launchFailed>>

(* The launch has ended: a failed one is close()'s own failure, of a       *)
(* successful one the browser is closed.                                   *)
CloseServed ==
  /\ close = "waiting"
  /\ \/ launch[closeAwaits] = "ok" /\ BrowserCloses(closeAwaits)
     \/ launch[closeAwaits] = "err" /\ close' = "err" /\ UNCHANGED browser
  /\ UNCHANGED <<closed, pending, cell, launch, get, awaits, closeAwaits, launchFailed>>

Next ==
  \/ \E c \in Callers :
       \/ GetAtOnce(c) \/ GetJoins(c) \/ GetServed(c) \/ GetFails(c) \/ GetForgets(c)
       \/ Cancel(c)
       \/ \E l \in Launches : GetLaunches(c, l)
  \/ \E l \in Launches : LaunchSucceeds(l) \/ LaunchFails(l)
  \/ Close \/ CloseServed

Spec == Init /\ [][Next]_vars

(* The worker's loop ends and calls close(); a launch is bounded by its    *)
(* timeout; the tasks are polled.                                          *)
FairSpec ==
  /\ Spec
  /\ WF_vars(Close) /\ WF_vars(CloseServed)
  /\ \A l \in Launches : WF_vars(LaunchSucceeds(l) \/ LaunchFails(l))

-----------------------------------------------------------------------------
TypeOK ==
  /\ closed \in BOOLEAN /\ launchFailed \in BOOLEAN
  /\ pending \in Launches \cup {None}
  /\ cell \in Launches \cup {None}
  /\ launch \in [Launches -> {"unused", "running", "ok", "err"}]
  /\ browser \in [Launches -> {"absent", "open", "closed", "kept"}]
  /\ get \in [Callers -> {"idle", "waiting", "failing", "ok", "refused", "err", "cancelled"}]
  /\ awaits \in [Callers -> Launches \cup {None}]
  /\ close \in {"idle", "waiting", "ok", "err"}
  /\ closeAwaits \in Launches \cup {None}
  /\ \A c \in Callers : get[c] \in {"waiting", "failing"} => awaits[c] # None
  /\ close = "waiting" => closeAwaits # None

(* One handle never has two browsers, not even while a second caller       *)
(* arrives during a launch or after one failed.                            *)
OneBrowser ==
  Cardinality({l \in Launches : launch[l] \in {"running", "ok"}}) <= 1

(* Once close() has returned no launch is coming up and no browser of the  *)
(* handle was left out: each was closed, or the attempt failed and close() *)
(* says so, for a browser that would not close keeps running.  This holds  *)
(* though callers were cancelled along the way ("a cancelled fixture must  *)
(* not abandon a session still being created").                            *)
NoBrowserSurvivesClose ==
  close \in {"ok", "err"} =>
    \A l \in Launches :
      /\ launch[l] # "running" /\ browser[l] # "open"
      /\ browser[l] = "kept" => close = "err"

(* A launch that failed is never kept from the run: it raised the flag, or *)
(* close() returns the error of a failed launch (not merely that of a      *)
(* browser that would not close), even when everybody who waited was       *)
(* cancelled.                                                              *)
LaunchFailureReported ==
  (\E l \in Launches : launch[l] = "err") /\ close \in {"ok", "err"} =>
    \/ launchFailed
    \/ close = "err" /\ closeAwaits # None /\ launch[closeAwaits] = "err"
    \/ \E c \in Callers : get[c] = "waiting"
=============================================================================
