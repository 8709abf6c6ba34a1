------------------------------ MODULE TestLocks ------------------------------
(***************************************************************************)
(* The named test locks of crates/ferridriver-test/src/locks.rs: one table *)
(* of FIFO mutexes for the whole process.  A holder asks for a set of      *)
(* names and takes them one at a time, in name order; dropping its Held    *)
(* value gives all of them back.                                           *)
(*                                                                         *)
(* Names are numbers: the code sorts strings, and the only thing it needs  *)
(* of them is a total order.                                               *)
(***************************************************************************)
EXTENDS Naturals, Sequences, FiniteSets

CONSTANTS Holders,  \* whoever calls acquire(): the workers of every project
          Names     \* the lock names declared by the tests

ASSUME NamesAssumption == Names \subseteq Nat

VARIABLES
  phase,    \* phase[h]: "idle", "acquiring" (inside acquire) or "holding"
  wanted,   \* wanted[h]: names h's acquire() call has not been granted yet
  held,     \* held[h]: names whose guard h owns
  waiters   \* waiters[n]: FIFO of the holders parked in lock_owned().await

lockVars == <<phase, wanted, held, waiters>>

(* The names are locked in ascending order: n is next for h. *)
DeclaredOrder(h, n) == n \in wanted[h]    \* mutant: the names are not sorted

IsNext(h, n) == n \in wanted[h] /\ \A m \in wanted[h] : n <= m

Free(n) == \A h \in Holders : n \notin held[h]

Parked(h, n) == \E i \in 1..Len(waiters[n]) : waiters[n][i] = h

Init ==
  /\ phase = [h \in Holders |-> "idle"]
  /\ wanted = [h \in Holders |-> {}]
  /\ held = [h \in Holders |-> {}]
  /\ waiters = [n \in Names |-> <<>>]

(* acquire(names) is called; the set stands for the sorted deduped vector. *)
Begin(h, names) ==
  /\ phase[h] = "idle"
  /\ phase' = [phase EXCEPT ![h] = "acquiring"]
  /\ wanted' = [wanted EXCEPT ![h] = names]
  /\ UNCHANGED <<held, waiters>>

Own(h, n) ==
  /\ held' = [held EXCEPT ![h] = @ \cup {n}]
  /\ wanted' = [wanted EXCEPT ![h] = @ \ {n}]

(* lock_owned() on a free mutex nobody queues for completes at once. *)
Lock(h, n) ==
  /\ phase[h] = "acquiring"
  /\ IsNext(h, n)
  /\ Free(n)
  /\ waiters[n] = <<>>
  /\ Own(h, n)
  /\ UNCHANGED <<phase, waiters>>

LastComeFirst(h, n) ==                    \* mutant: an unfair mutex
  /\ phase[h] = "acquiring"
  /\ IsNext(h, n)
  /\ \A m \in wanted[h] : ~Parked(h, m)
  /\ ~(Free(n) /\ waiters[n] = <<>>)
  /\ waiters' = [waiters EXCEPT ![n] = <<h>> \o @]
  /\ UNCHANGED <<phase, wanted, held>>

(* Otherwise the caller parks at the tail of the mutex's FIFO queue. *)
Park(h, n) ==
  /\ phase[h] = "acquiring"
  /\ IsNext(h, n)
  /\ \A m \in wanted[h] : ~Parked(h, m)
  /\ ~(Free(n) /\ waiters[n] = <<>>)
  /\ waiters' = [waiters EXCEPT ![n] = Append(@, h)]
  /\ UNCHANGED <<phase, wanted, held>>

(* A released mutex goes to the head of its queue. *)
Grant(n) ==
  /\ waiters[n] # <<>>
  /\ Free(n)
  /\ Own(Head(waiters[n]), n)
  /\ waiters' = [waiters EXCEPT ![n] = Tail(@)]
  /\ UNCHANGED phase

ReturnEarly(h) ==                         \* mutant: does not await the guards
  /\ phase[h] = "acquiring"
  /\ phase' = [phase EXCEPT ![h] = "holding"]
  /\ UNCHANGED <<wanted, held, waiters>>

(* acquire() returns its Held value. *)
Return(h) ==
  /\ phase[h] = "acquiring"
  /\ wanted[h] = {}
  /\ phase' = [phase EXCEPT ![h] = "holding"]
  /\ UNCHANGED <<wanted, held, waiters>>

(* Held is dropped: every guard goes back. *)
Release(h) ==
  /\ phase[h] = "holding"
  /\ phase' = [phase EXCEPT ![h] = "idle"]
  /\ held' = [held EXCEPT ![h] = {}]
  /\ UNCHANGED <<wanted, waiters>>

Next ==
  \/ \E h \in Holders :
       \/ \E names \in SUBSET Names : Begin(h, names)
       \/ \E n \in Names : Lock(h, n) \/ Park(h, n)
       \/ Return(h)
       \/ Release(h)
  \/ \E n \in Names : Grant(n)

Spec == Init /\ [][Next]_lockVars

(* A holder polls its own future, and the code under a Held value ends. *)
Fairness ==
  /\ \A h \in Holders :
       /\ WF_lockVars(\E n \in Names : Lock(h, n) \/ Park(h, n))
       /\ WF_lockVars(Return(h))
       /\ WF_lockVars(Release(h))
  /\ \A n \in Names : WF_lockVars(Grant(n))

FairSpec == Spec /\ Fairness

-----------------------------------------------------------------------------
(* Types, and the tie between a holder's phase and its names. *)
TypeOK ==
  /\ phase \in [Holders -> {"idle", "acquiring", "holding"}]
  /\ wanted \in [Holders -> SUBSET Names]
  /\ held \in [Holders -> SUBSET Names]
  /\ waiters \in [Names -> Seq(Holders)]
  /\ \A h \in Holders :
       /\ phase[h] = "idle" => held[h] = {}
       /\ phase[h] # "acquiring" => wanted[h] = {}

(* Two pieces of work that name the same lock never hold it together, in   *)
(* whatever order their acquire() calls interleave (locks.rs, acquire).    *)
MutualExclusion ==
  \A g, h \in Holders : \A n \in Names :
    n \in held[g] /\ n \in held[h] => g = h

(* acquire() sorts its names so that nobody waits for a lock while holding *)
(* a later one: along a chain of waiters the awaited names ascend, so "two *)
(* workers wanting the same pair cannot each hold one" and no chain closes *)
(* into a cycle.                                                           *)
AscendingWaits ==
  \A g, h \in Holders : \A n, m \in Names :
    Parked(g, n) /\ n \in held[h] /\ Parked(h, m) => n < m

(* While somebody is inside acquire(), somebody can go on: a holder has    *)
(* all its names, a call is not parked, or a queue's mutex is free.        *)
Unparked(h) == phase[h] = "acquiring" /\ \A n \in Names : ~Parked(h, n)

NoCircleOfWaits ==
  (\E h \in Holders : phase[h] = "acquiring") =>
    \/ \E h \in Holders : phase[h] = "holding" \/ Unparked(h)
    \/ \E n \in Names : waiters[n] # <<>> /\ Free(n)

(* Whoever calls acquire() gets all its names: the mutexes are fair and no *)
(* two holders wait for each other.                                        *)
EveryCallReturns ==
  \A h \in Holders : phase[h] = "acquiring" ~> phase[h] = "holding"

(* Taking the names one at a time implements entering with all at once.    *)
Sections == INSTANCE LockSections WITH
  stage <- phase, names <- [h \in Holders |-> wanted[h] \cup held[h]]

ImplementsSections == Sections!Spec
=============================================================================
