----------------------------- MODULE ContextPool -----------------------------
(***************************************************************************)
(* The worker's pool of pre-created browser contexts: ContextPool in       *)
(* crates/ferridriver-test/src/context_pool.rs.  The worker runs one test  *)
(* at a time, so there is one acquire() or drain() in progress; refills    *)
(* and warm-ups are spawned tasks that deliver over a channel, in the      *)
(* order they finish.  A test's timeout drops the future of acquire() at   *)
(* one of its awaits.                                                      *)
(*                                                                         *)
(* A context is a number.  A creation that failed gives its number back.   *)
(* The queue of ready contexts is a set: which of several that match, or   *)
(* that are cold, comes first is left open.                                *)
(*                                                                         *)
(* The pool is the other half of a worker's browser (module                *)
(* BrowserHandle); names both would define carry "Pool" here.              *)
(***************************************************************************)
EXTENDS Integers, SequencesExt, FiniteSetsExt

CONSTANTS
  Keys,         \* serialised context options
  Depth,        \* config.context_prewarm
  MaxContexts,  \* bound on the contexts one behaviour creates
  MaxTests,     \* bound on the calls of acquire()
  MaxFailures,  \* bound on the creations that fail in a live browser
  MayDie        \* whether the browser may die

ASSUME PoolAssumption ==
  /\ Keys # {}
  /\ Depth \in Nat /\ MaxContexts \in Nat
  /\ MaxTests \in Nat /\ MaxFailures \in Nat
  /\ MayDie \in BOOLEAN

Contexts == 1..MaxContexts

NoContext == 0

VARIABLES
  ready,      \* Inbox::ready
  inFlight,   \* Inbox::in_flight
  promoting,  \* Inbox::promoting
  arrivals,   \* the channel behind Inbox::rx
  disabled,   \* ContextPool::disabled
  task,       \* task[c]: "none", "creating", "warming" or "inline"
  key,        \* key[c]: the options c is created with
  warm,       \* the contexts whose layout has been warmed
  open,       \* the contexts that exist in the browser
  used,       \* the contexts a test has been given
  held,       \* the running test's context, or NoContext
  want,       \* the key acquire() looks for
  pc,         \* "idle", "looking", "waiting", "inline", "draining", "drained"
  tests,      \* calls of acquire() so far
  failures,   \* failed creations so far
  dead        \* the browser is gone

inbox == <<ready, inFlight, promoting>>
bounds == <<tests, failures>>
poolVars == <<ready, inFlight, promoting, arrivals, disabled, task, key, warm, open, used,
              held, want, pc, tests, failures, dead>>

PoolInit ==
  /\ ready = {} /\ arrivals = <<>>
  /\ inFlight = 0 /\ promoting = 0
  /\ disabled = FALSE /\ dead = FALSE
  /\ task = [c \in Contexts |-> "none"]
  /\ want = CHOOSE k \in Keys : TRUE
  /\ key = [c \in Contexts |-> want]
  /\ warm = {} /\ open = {} /\ used = {}
  /\ held = NoContext
  /\ pc = "idle"
  /\ tests = 0 /\ failures = 0

Monus(a, b) == IF a > b THEN a - b ELSE 0

-----------------------------------------------------------------------------
(* Inbox::accept over a batch of deliveries. *)
Delivered(batch, kind) == {i \in DOMAIN batch : batch[i].kind = kind}

Count(batch, kind) == Cardinality(Delivered(batch, kind))

Landed(batch) == ready \cup {d.context : d \in {e \in Range(batch) : e.ok}}

InFlightAfter(batch) == Monus(inFlight, Count(batch, "creation"))

PromotingUncounted(batch) == promoting    \* mutant: promotions are never taken off

PromotingAfter(batch) == Monus(promoting, Count(batch, "promotion"))

(* Inbox::take: a warm context of these options, or else a cold one. *)
Matches(queue, k) == {c \in queue : key[c] = k}

Takeable(queue, k) ==
  LET hits == Matches(queue, k)
  IN  IF hits \cap warm # {} THEN hits \cap warm ELSE hits

WarmedInPlace(queue, out) == queue        \* mutant: a promoted entry stays takeable

Left(queue, out) == queue \ out

(* The numbers of the next n contexts. *)
Unborn == {c \in Contexts : task[c] = "none" /\ c \notin open \cup used}
Fresh(n) == CHOOSE born \in SUBSET Unborn : Cardinality(born) = n

(* ContextPool::spawn_refills tops the pool up, counting what is in flight. *)
Want(queue, flying) ==
  IF Depth = 0 \/ disabled THEN 0 ELSE Monus(Depth, Cardinality(queue) + flying)

(* ContextPool::spawn_promotions takes cold entries while more than one is *)
(* left.                                                                   *)
Spare(queue) ==
  LET cold == queue \ warm
      n == Min({Monus(Cardinality(queue), 1), Cardinality(cold)})
  IN  {out \in SUBSET cold : Cardinality(out) = IF disabled THEN 0 ELSE n}

InlineIntoEmpty(queue, flying) == Cardinality(queue) + flying = 0   \* mutant: foreign keys count

(* "Only creates inline when neither exists". *)
MustInline(queue, flying) == flying = 0

-----------------------------------------------------------------------------
(* A test asks for its page fixture. *)
Begin(k) ==
  /\ pc = "idle" /\ held = NoContext
  /\ tests < MaxTests
  /\ pc' = "looking" /\ want' = k /\ tests' = tests + 1
  /\ UNCHANGED <<inbox, arrivals, disabled, task, key, warm, open, used, held, failures, dead>>

(* One turn of acquire's loop, under the inbox lock: a hit ends it. *)
Hit ==
  /\ pc = "looking"
  /\ \E c \in Takeable(Landed(arrivals), want) :
       /\ ready' = Landed(arrivals) \ {c}
       /\ held' = c /\ used' = used \cup {c}
  /\ inFlight' = InFlightAfter(arrivals) /\ promoting' = PromotingAfter(arrivals)
  /\ arrivals' = <<>>
  /\ pc' = "idle"
  /\ UNCHANGED <<disabled, task, key, warm, open, want, bounds, dead>>

(* ... otherwise it refills, promotes, and waits for a delivery, or, with  *)
(* no creation in flight, creates inline.                                  *)
Refill ==
  LET queue  == Landed(arrivals)
      flying == InFlightAfter(arrivals)
      want1  == Want(queue, flying)
      inline == IF MustInline(queue, flying + want1) THEN 1 ELSE 0
      born   == Fresh(want1 + inline)
  IN  /\ pc = "looking"
      /\ Matches(queue, want) = {}
      /\ Cardinality(Unborn) >= want1 + inline
      /\ \E out \in Spare(queue) :
           /\ ready' = Left(queue, out)
           /\ promoting' = PromotingAfter(arrivals) + Cardinality(out)
           /\ task' = [c \in Contexts |-> IF c \in out THEN "warming"
                                          ELSE IF c \notin born THEN task[c]
                                          ELSE IF inline = 1 THEN "inline" ELSE "creating"]
      /\ inFlight' = flying + want1
      /\ arrivals' = <<>>
      /\ key' = [c \in Contexts |-> IF c \in born THEN want ELSE key[c]]
      /\ pc' = IF inline = 1 THEN "inline" ELSE "waiting"
      /\ UNCHANGED <<disabled, warm, open, used, held, want, bounds, dead>>

(* Inbox::await_one, then the loop turns. *)
Receive ==
  /\ arrivals # <<>>
  /\ ready' = Landed(<<Head(arrivals)>>)
  /\ inFlight' = InFlightAfter(<<Head(arrivals)>>)
  /\ promoting' = PromotingAfter(<<Head(arrivals)>>)
  /\ arrivals' = Tail(arrivals)

AwaitOne ==
  /\ pc = "waiting"
  /\ Receive
  /\ pc' = "looking"
  /\ UNCHANGED <<disabled, task, key, warm, open, used, held, want, bounds, dead>>

(* The inline creation returns to the test, with a context or an error. *)
InlineDone(c) ==
  /\ pc = "inline" /\ task[c] = "inline"
  /\ task' = [task EXCEPT ![c] = "none"]
  /\ pc' = "idle"
  /\ \/ /\ ~dead
        /\ open' = open \cup {c}
        /\ held' = c /\ used' = used \cup {c}
        /\ UNCHANGED failures
     \/ /\ dead \/ failures < MaxFailures
        /\ failures' = IF dead THEN failures ELSE failures + 1
        /\ UNCHANGED <<open, held, used>>
  /\ UNCHANGED <<inbox, arrivals, disabled, key, warm, want, tests, dead>>

(* The test's budget runs out while acquire() awaits.  An inline creation  *)
(* is dropped halfway: what it had opened stays open.                      *)
TimeOut ==
  /\ pc \in {"waiting", "inline"}
  /\ pc' = "idle"
  /\ LET dropped == {c \in Contexts : task[c] = "inline"}
     IN  /\ task' = [c \in Contexts |-> IF c \in dropped THEN "none" ELSE task[c]]
         /\ \/ UNCHANGED <<open, used>>
            \/ ~dead /\ dropped # {} /\ open' = open \cup dropped /\ used' = used \cup dropped
  /\ UNCHANGED <<inbox, arrivals, disabled, key, warm, held, want, bounds, dead>>

(* The test is over and its context is closed. *)
Finish ==
  /\ held # NoContext
  /\ open' = open \ {held} /\ held' = NoContext
  /\ UNCHANGED <<inbox, arrivals, disabled, task, key, warm, used, want, pc, bounds, dead>>

(* A refill's task ends: create_prepared succeeded or closed what it had. *)
Create(c) ==
  /\ task[c] = "creating"
  /\ task' = [task EXCEPT ![c] = "none"]
  /\ \E ok \in BOOLEAN :
       /\ IF ok THEN ~dead ELSE dead \/ failures < MaxFailures
       /\ arrivals' = Append(arrivals, [kind |-> "creation", ok |-> ok, context |-> c])
       /\ open' = IF ok THEN open \cup {c} ELSE open
       /\ failures' = IF ok \/ dead THEN failures ELSE failures + 1
  /\ UNCHANGED <<inbox, disabled, key, warm, used, held, want, pc, tests, dead>>

(* A warm-up's task ends, whether or not the page could be warmed. *)
Warm(c) ==
  /\ task[c] = "warming"
  /\ task' = [task EXCEPT ![c] = "none"]
  /\ warm' = warm \cup {c}
  /\ arrivals' = Append(arrivals, [kind |-> "promotion", ok |-> TRUE, context |-> c])
  /\ UNCHANGED <<inbox, disabled, key, open, used, held, want, pc, bounds, dead>>

Die ==
  /\ MayDie /\ ~dead
  /\ dead' = TRUE
  /\ UNCHANGED <<inbox, arrivals, disabled, task, key, warm, open, used, held, want, pc, bounds>>

(* ContextPool::drain, after the worker's last test. *)
Drain ==
  /\ pc = "idle" /\ held = NoContext
  /\ disabled' = TRUE /\ pc' = "draining"
  /\ UNCHANGED <<inbox, arrivals, task, key, warm, open, used, held, want, bounds, dead>>

OnlyCreations == inFlight > 0             \* mutant: contexts being warmed are not awaited

Outstanding == inFlight + promoting > 0

DrainOne ==
  /\ pc = "draining"
  /\ Outstanding
  /\ Receive
  /\ UNCHANGED <<disabled, task, key, warm, open, used, held, want, pc, bounds, dead>>

(* What is left is closed; a close that fails is ignored and counted as one. *)
DrainAll ==
  /\ pc = "draining"
  /\ ~Outstanding
  /\ open' = open \ ready
  /\ ready' = {}
  /\ pc' = "drained"
  /\ UNCHANGED <<inFlight, promoting, arrivals, disabled, task, key, warm, used, held, want,
                 bounds, dead>>

Done == pc = "drained" /\ UNCHANGED poolVars

PoolNext ==
  \/ \E k \in Keys : Begin(k)
  \/ Hit \/ Refill \/ AwaitOne \/ TimeOut \/ Finish
  \/ \E c \in Contexts : InlineDone(c) \/ Create(c) \/ Warm(c)
  \/ Drain \/ DrainOne \/ DrainAll \/ Die
  \/ Done

PoolSpec == PoolInit /\ [][PoolNext]_poolVars

(* The worker and the spawned tasks are polled, and the browser answers or *)
(* the backend reports it gone.  Nothing promises a timeout.               *)
FairPool ==
  /\ PoolSpec
  /\ WF_poolVars(Hit \/ Refill \/ AwaitOne) /\ WF_poolVars(Finish)
  /\ \A c \in Contexts :
       WF_poolVars(InlineDone(c)) /\ WF_poolVars(Create(c)) /\ WF_poolVars(Warm(c))

-----------------------------------------------------------------------------
Delivery == [kind : {"creation", "promotion"}, ok : BOOLEAN, context : Contexts]

PoolTypeOK ==
  /\ ready \subseteq Contexts /\ arrivals \in Seq(Delivery)
  /\ inFlight \in Nat /\ promoting \in Nat
  /\ disabled \in BOOLEAN /\ dead \in BOOLEAN
  /\ task \in [Contexts -> {"none", "creating", "warming", "inline"}]
  /\ key \in [Contexts -> Keys] /\ want \in Keys
  /\ warm \subseteq Contexts /\ open \subseteq Contexts /\ used \subseteq Contexts
  /\ held \in Contexts \cup {NoContext}
  /\ pc \in {"idle", "looking", "waiting", "inline", "draining", "drained"}
  /\ tests \in 0..MaxTests /\ failures \in 0..MaxFailures

Tasks(state) == {c \in Contexts : task[c] = state}

Running(state) == Cardinality(Tasks(state))

(* "The bookkeeping below is exact rather than best-effort": each counter  *)
(* is the tasks running plus the deliveries not received, through          *)
(* failures, promotions and acquires that were cancelled while they        *)
(* waited.                                                                 *)
CountersExact ==
  /\ PoolTypeOK
  /\ inFlight = Running("creating") + Count(arrivals, "creation")
  /\ promoting = Running("warming") + Count(arrivals, "promotion")

(* Every test gets a context "that no other test has touched, created with *)
(* that test's own options", that exists, that is not in the pool any more *)
(* and that no warm-up is writing its throwaway markup into.               *)
HandsOutFresh ==
  [][held' \notin {NoContext, held} =>
       /\ held' \notin used
       /\ held' \in open'
       /\ key[held'] = want
       /\ task'[held'] = "none"
       /\ held' \notin ready']_poolVars

(* drain() leaves no context that the pool still holds, still creates or   *)
(* still warms and that it did not close or try to close (the result is    *)
(* ignored, context_pool.rs:224); only one that a test's timeout cut off   *)
(* inline may be open (such a number is in "used").                        *)
DrainLeavesNothing ==
  pc = "drained" =>
    /\ \A c \in Contexts : task[c] = "none"
    /\ open \subseteq used

(* With a live browser, whose creations may still fail now and then, every *)
(* acquire() ends without the test's own timeout.                          *)
AcquireReturnsAlive == pc = "looking" ~> pc = "idle" \/ dead

(* A test that asks for a context gets one, or an error, without its own   *)
(* timeout: "the next `acquire` creates inline and surfaces it".           *)
AcquireReturns == pc = "looking" ~> pc = "idle"
=============================================================================
