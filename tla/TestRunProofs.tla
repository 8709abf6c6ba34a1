---------------------------- MODULE TestRunProofs ----------------------------
(***************************************************************************)
(* Proofs about TestRun for any workers, plan, locks, retries and bounds:  *)
(* the type invariant, that tests naming the same lock never overlap, and, *)
(* from an account of where every test is on its way to a verdict, that no *)
(* test is run twice or lost, that serial groups keep their order, that    *)
(* isolated retries run alone, that exit status 0 is a verdict on every    *)
(* test, that the run implements RunPromise and that it is never stuck.    *)
(***************************************************************************)
EXTENDS TestRun, SequenceTheorems, FiniteSetTheorems, TLAPS

(* Whoever has something to run, to lock for or to send has at least one   *)
(* test, or result, of it: no item is empty.                               *)
NoneEmpty ==
  /\ \A k \in DOMAIN queue : queue[k].work # <<>>
  /\ \A w \in Workers : pending[w] # NoItem => pending[w].work # <<>>
  /\ \A w \in Workers : pc[w] \in {"lock", "run"} => item[w].work # <<>>
  /\ \A w \in Workers : pc[w] = "send" => out[w] # <<>>

(* The locks a worker asked for are those of every test left of its item.  *)
Covered(w) ==
  \A k \in DOMAIN item[w].work : Locks[item[w].work[k].test] \subseteq names[w]

(* A worker runs tests only inside its locks, and holders have no name in  *)
(* common.                                                                 *)
LocksHeld ==
  /\ \A w \in Workers : pc[w] = "lock" => stage[w] = "acquiring" /\ Covered(w)
  /\ \A w \in Workers : pc[w] = "run" => stage[w] = "holding" /\ Covered(w)
  /\ \A v, w \in Workers :
       v # w /\ stage[v] = "holding" /\ stage[w] = "holding" => names[v] \cap names[w] = {}

IInv == TypeOK /\ NoneEmpty /\ LocksHeld

(* The inductive invariant holds of the plan's first items.                *)
LEMMA InitInv == Init => IInv
<1> SUFFICES ASSUME Init PROVE IInv OBVIOUS
<1>1. queue \in Seq(Item) /\ \A k \in DOMAIN queue : queue[k].work # <<>>
  <2>1. ASSUME NEW u \in DOMAIN Plan 
        PROVE FirstItem(Plan[u]) \in Item /\ FirstItem(Plan[u]).work # <<>>
    <3>1. Plan[u].serial \in BOOLEAN /\ Plan[u].tests \in Seq(Tests) /\ Plan[u].tests # <<>>
      <4>1. Plan[u] \in [serial : BOOLEAN, tests : Seq(Tests) \ {<<>>}]
        <5>1. Plan \in Seq([serial : BOOLEAN, tests : Seq(Tests) \ {<<>>}])
          BY RunAssumption
        <5>2. u \in 1..Len(Plan)
          BY <5>1, LenProperties
        <5> QED BY <5>1, <5>2, ElementOfSeq
      <4> QED BY <4>1
    <3>2. FirstItem(Plan[u]).work \in Seq(Assignment) 
      <4> DEFINE ts == Plan[u].tests
      <4>1. DOMAIN ts = 1..Len(ts) /\ Len(ts) \in Nat /\ \A k \in 1..Len(ts) : ts[k] \in Tests
        BY <3>1
      <4>2. \A k \in 1..Len(ts) : [test |-> ts[k], attempt |-> 1] \in Assignment
        BY <4>1 DEF Assignment
      <4> HIDE DEF ts
      <4>3. [k \in DOMAIN ts |-> [test |-> ts[k], attempt |-> 1]] \in Seq(Assignment)
        BY <4>1, <4>2
      <4> QED BY <4>3 DEF FirstItem, ts
    <3>3. 1 \in DOMAIN FirstItem(Plan[u]).work
      BY <3>1 DEF FirstItem
    <3> QED BY <3>1, <3>2, <3>3 DEF FirstItem, Item
  <2>2. queue = [u \in 1..Len(Plan) |-> FirstItem(Plan[u])] /\ DOMAIN Plan = 1..Len(Plan) /\ Len(Plan) \in Nat
    BY RunAssumption DEF Init
  <2> QED BY <2>1, <2>2
<1>2. item \in [Workers -> Item] /\ pending \in [Workers -> Item]
  BY DEF Init, NoItem, Item
<1>3. active \in [Workers -> [Suites -> {"none", "entered", "ran", "failed"}]]
  BY DEF Init
<1>4. history \in [Tests -> Seq(Status)] /\ out \in [Workers -> Seq(Result)]
  BY DEF Init
<1>5. results \in Seq(Result) /\ Len(results) <= ResultCap /\ waiting \in Seq(Result)
  BY RunAssumption DEF Init
<1>6. stage \in [Workers -> {"idle", "acquiring", "holding"}] /\ names \in [Workers -> SUBSET LockNames]
  BY DEF Init, Lock!Init
<1>7. TypeOK
  BY <1>1, <1>2, <1>3, <1>4, <1>5, <1>6 DEF Init, TypeOK
<1>8. NoneEmpty
  BY <1>1 DEF Init, NoneEmpty
<1>9. LocksHeld
  BY DEF Init, LocksHeld, Lock!Init
<1> QED BY <1>7, <1>8, <1>9 DEF IInv

(* Each step keeps it, one lemma per action. A worker finds the queue      *)
(* closed and empty.                                                       *)
LEMMA DrainedInv == ASSUME IInv, NEW w \in Workers, Drained(w) PROVE IInv'
<1> USE DEF IInv, Drained, dispatcherVars, collectVars
<1>1. TypeOK' BY DEF TypeOK
<1>2. NoneEmpty' BY DEF NoneEmpty, TypeOK
<1>3. LocksHeld' BY DEF LocksHeld, Covered, TypeOK
<1> QED BY <1>1, <1>2, <1>3

(* What a worker receives, kept or queued, is an item with a test, and so  *)
(* is whatever stays queued.                                               *)
LEMMA ReceiveInv ==
  ASSUME IInv, NEW w \in Workers, NEW i \in {pending[w]} \cup Range(queue), Receive(w, i)
  PROVE  /\ i \in Item /\ i.work # <<>>
         /\ queue' \in Seq(Item)
         /\ \A k \in DOMAIN queue' : queue'[k].work # <<>>
<1> USE DEF IInv, TypeOK, NoneEmpty, Receive
<1>1. CASE pending[w] # NoItem
  BY <1>1
<1>2. CASE pending[w] = NoItem
  <2>1. queue # <<>> /\ i = queue[1] /\ queue' = Tail(queue) /\ 1 \in DOMAIN queue
    BY <1>2
  <2>2. queue' \in Seq(Item) /\ \A k \in DOMAIN queue' : queue'[k] = queue[k + 1] /\ k + 1 \in DOMAIN queue
    BY <2>1
  <2> QED BY <2>1, <2>2
<1> QED BY <1>1, <1>2

(* A hard stop drops what was received.                                    *)
LEMMA DropItemInv == ASSUME IInv, NEW w \in Workers, DropItem(w) PROVE IInv'
<1> USE DEF IInv, DropItem, collectVars
<1>0. queue' \in Seq(Item) /\ \A k \in DOMAIN queue' : queue'[k].work # <<>>
  BY ReceiveInv
<1>1. TypeOK' BY <1>0 DEF TypeOK, NoItem, Item
<1>2. NoneEmpty' BY <1>0 DEF NoneEmpty, TypeOK
<1>3. LocksHeld' BY DEF LocksHeld, Covered, TypeOK
<1> QED BY <1>1, <1>2, <1>3

(* An item of another repetition is kept.                                  *)
LEMMA HandOverInv == ASSUME IInv, NEW w \in Workers, HandOver(w) PROVE IInv'
<1> USE DEF IInv, HandOver, collectVars
<1>0. PICK i \in {pending[w]} \cup Range(queue) : Receive(w, i) /\ pending' = [pending EXCEPT ![w] = i]
  OBVIOUS
<1>1. /\ i \in Item /\ i.work # <<>> /\ queue' \in Seq(Item)
      /\ \A k \in DOMAIN queue' : queue'[k].work # <<>>
  BY <1>0, ReceiveInv
<1>2. TypeOK' BY <1>0, <1>1 DEF TypeOK
<1>3. NoneEmpty' BY <1>0, <1>1 DEF NoneEmpty, TypeOK
<1>4. LocksHeld' BY DEF LocksHeld, Covered, TypeOK
<1> QED BY <1>2, <1>3, <1>4

(* The worker asks for the locks of all the item's tests.                  *)
LEMMA PickUpInv == ASSUME IInv, NEW w \in Workers, PickUp(w) PROVE IInv'
<1> USE DEF IInv, PickUp, collectVars
<1>0. PICK i \in {pending[w]} \cup Range(queue) :
        /\ Receive(w, i) 
        /\ item' = [item EXCEPT ![w] = i]
        /\ repetition' = [repetition EXCEPT ![w] = RepetitionOf(i)]
        /\ Lock!Ask(w, LockNamesOf(i))
  OBVIOUS
<1>1. /\ i \in Item /\ i.work # <<>> /\ queue' \in Seq(Item)
      /\ \A k \in DOMAIN queue' : queue'[k].work # <<>>
  BY <1>0, ReceiveInv
<1>2. RepetitionOf(i) \in Nat
  <2>1. i.work[1].test \in Tests
    <3>1. i.work \in Seq(Assignment) /\ 1 \in 1..Len(i.work)
      BY <1>1, LenProperties DEF Item
    <3>2. \A k \in 1..Len(i.work) : i.work[k] \in Assignment
      BY <3>1, ElementOfSeq
    <3> QED BY <3>1, <3>2 DEF Assignment
  <2> QED BY <2>1, RunAssumption DEF RepetitionOf
<1>3. LockNamesOf(i) \in SUBSET LockNames
  <2>1. \A k \in DOMAIN i.work : i.work[k].test \in Tests
    <3>1. i.work \in Seq(Assignment) /\ DOMAIN i.work = 1..Len(i.work)
      BY <1>1, LenProperties DEF Item
    <3>2. \A k \in 1..Len(i.work) : i.work[k] \in Assignment
      BY <3>1, ElementOfSeq
    <3> QED BY <3>1, <3>2 DEF Assignment
  <2>2. \A k \in DOMAIN i.work : Locks[i.work[k].test] \subseteq LockNames
    BY <2>1, RunAssumption
  <2> QED BY <2>2 DEF LockNamesOf
<1>4. TypeOK' BY <1>0, <1>1, <1>2, <1>3 DEF TypeOK, Lock!Ask, NoItem, Item
<1>5. NoneEmpty'
  <2>1. \A v \in Workers : pending'[v] # NoItem => pending'[v].work # <<>>
    BY DEF NoneEmpty, TypeOK
  <2>2. \A v \in Workers : pc'[v] \in {"lock", "run"} => item'[v].work # <<>>
    BY <1>0, <1>1 DEF NoneEmpty, TypeOK
  <2>3. \A v \in Workers : pc'[v] = "send" => out'[v] # <<>>
    BY DEF NoneEmpty, TypeOK
  <2> QED BY <1>1, <2>1, <2>2, <2>3 DEF NoneEmpty
<1>6. LocksHeld' 
  BY <1>0, <1>1 DEF LocksHeld, Covered, TypeOK, Lock!Ask, LockNamesOf
<1> QED BY <1>4, <1>5, <1>6

(* It enters with all its locks, when no holder shares one.                *)
LEMMA AcquiredInv == ASSUME IInv, NEW w \in Workers, Acquired(w) PROVE IInv'
<1> USE DEF IInv, Acquired, Lock!Enter, collectVars, dispatcherVars
<1>1. TypeOK' BY DEF TypeOK
<1>2. NoneEmpty' BY DEF NoneEmpty, TypeOK
<1>3. LocksHeld' BY DEF LocksHeld, Covered, TypeOK
<1> QED BY <1>1, <1>2, <1>3

(* One result goes to the channel, which has room.                         *)
LEMMA SendInv == ASSUME IInv, NEW w \in Workers, Send(w) PROVE IInv'
<1> USE DEF IInv, Send, collectVars, dispatcherVars
<1>0. out[w] \in Seq(Result) /\ out[w] # <<>>
  BY DEF TypeOK, NoneEmpty
<1>1. /\ results' \in Seq(Result) /\ Len(results') <= ResultCap
      /\ out' \in [Workers -> Seq(Result)]
      /\ pc' \in [Workers -> {"recv", "lock", "run", "send", "yield", "cleanup", "done", "failed"}]
  BY <1>0, RunAssumption DEF TypeOK
<1>2. TypeOK' BY <1>1 DEF TypeOK
<1>3. NoneEmpty'
  <2>1. \A v \in Workers : pc'[v] = "send" => out'[v] # <<>>
    <3>1. Len(out[w]) # 1 => Tail(out[w]) # <<>>
      <4>1. Len(Tail(out[w])) = Len(out[w]) - 1 /\ Len(out[w]) \in Nat /\ Tail(out[w]) \in Seq(Result)
        BY <1>0, HeadTailProperties
      <4> DEFINE t == Tail(out[w])
      <4>2. Len(out[w]) # 1 => Len(t) # 0
        BY <4>1
      <4> HIDE DEF t
      <4>3. Len(t) # 0 => t # <<>>
        BY EmptySeq
      <4> QED BY <4>2, <4>3 DEF t
    <3> QED BY <3>1 DEF NoneEmpty, TypeOK
  <2>2. \A v \in Workers : pc'[v] \in {"lock", "run"} => item'[v].work # <<>>
    BY DEF NoneEmpty, TypeOK
  <2> QED BY <2>1, <2>2 DEF NoneEmpty
<1>4. LocksHeld' BY DEF LocksHeld, Covered, TypeOK
<1> QED BY <1>2, <1>3, <1>4

(* The locks are given back with the item.                                 *)
LEMMA EndTurnInv == ASSUME IInv, NEW w \in Workers, EndTurn(w) PROVE IInv'
<1> USE DEF IInv, EndTurn, Lock!Leave, collectVars, dispatcherVars
<1>1. TypeOK' BY DEF TypeOK, NoItem, Item
<1>2. NoneEmpty' BY DEF NoneEmpty, TypeOK
<1>3. LocksHeld' BY DEF LocksHeld, Covered, TypeOK
<1> QED BY <1>1, <1>2, <1>3

(* The slot ends, or its next incarnation starts.                          *)
LEMMA CleanUpInv == ASSUME IInv, NEW w \in Workers, CleanUp(w) PROVE IInv'
<1> USE DEF IInv, collectVars, dispatcherVars
<1>1. CASE pending[w] = NoItem \/ stopped
  <2>1. /\ pc' = [pc EXCEPT ![w] = "done"]
        /\ pending' = [pending EXCEPT ![w] = NoItem]
        /\ UNCHANGED <<repetition, active>>
        /\ UNCHANGED <<dispatcherVars, item, out, stage, names,
                       collectVars, results, stopRequested, launchFailed>>
    BY <1>1 DEF CleanUp
  <2>2. TypeOK' BY <2>1 DEF TypeOK, NoItem, Item
  <2>3. NoneEmpty' BY <2>1 DEF NoneEmpty, TypeOK
  <2>4. LocksHeld' BY <2>1 DEF LocksHeld, Covered, TypeOK
  <2> QED BY <2>2, <2>3, <2>4
<1>2. CASE ~(pending[w] = NoItem \/ stopped)
  <2>1. /\ pc' = [pc EXCEPT ![w] = "recv"]
        /\ repetition' = [repetition EXCEPT ![w] = 0]
        /\ active' = [active EXCEPT ![w] = [u \in Suites |-> "none"]]
        /\ UNCHANGED pending
        /\ UNCHANGED <<dispatcherVars, item, out, stage, names,
                       collectVars, results, stopRequested, launchFailed>>
    BY <1>2 DEF CleanUp
  <2>2. [u \in Suites |-> "none"] \in [Suites -> {"none", "entered", "ran", "failed"}]
    OBVIOUS
  <2>3. TypeOK' BY <2>1, <2>2 DEF TypeOK
  <2>4. NoneEmpty' BY <2>1 DEF NoneEmpty, TypeOK
  <2>5. LocksHeld' BY <2>1 DEF LocksHeld, Covered, TypeOK
  <2> QED BY <2>3, <2>4, <2>5
<1> QED BY <1>1, <1>2

(* The slot's task ends with an error.                                     *)
LEMMA CleanUpFailsInv == ASSUME IInv, NEW w \in Workers, CleanUpFails(w) PROVE IInv'
<1> USE DEF IInv, CleanUpFails, collectVars, dispatcherVars
<1>1. TypeOK' BY DEF TypeOK, NoItem, Item
<1>2. NoneEmpty' BY DEF NoneEmpty, TypeOK
<1>3. LocksHeld' BY DEF LocksHeld, Covered, TypeOK
<1> QED BY <1>1, <1>2, <1>3

(* A stop is requested, and heard of.                                      *)
LEMMA StopInv == ASSUME IInv, RequestStop \/ SeeStop PROVE IInv'
<1> USE DEF IInv, RequestStop, SeeStop, collectVars, dispatcherVars, workerVars
<1>1. TypeOK' BY DEF TypeOK
<1>2. NoneEmpty' BY DEF NoneEmpty, TypeOK
<1>3. LocksHeld' BY DEF LocksHeld, Covered, TypeOK
<1> QED BY <1>1, <1>2, <1>3

(* A test runs: what is left of its item is a suffix of it, so the locks   *)
(* held still cover it, and the worker has a result to send if nothing is  *)
(* left.                                                                   *)
LEMMA RunTestInv == ASSUME IInv, NEW w \in Workers, NEW end \in Ends, RunTest(w, end) PROVE IInv'
<1> USE DEF IInv
<1> DEFINE a    == Head(item[w].work)
           rest == Tail(item[w].work)
           u    == Suite[a.test]
<1>1. /\ item[w].work \in Seq(Assignment) /\ item[w].work # <<>>
      /\ a \in Assignment /\ rest \in Seq(Assignment)
      /\ pc[w] = "run"
  <2>1. item[w].work \in Seq(Assignment) /\ item[w].work # <<>> /\ pc[w] = "run"
    BY DEF TypeOK, Item, NoneEmpty, RunTest
  <2> QED BY <2>1, HeadTailProperties
<1>2. PICK state \in SuiteStates(u, active[w][u]) :
        LET r    == ResultOf(a, item[w].serial, IF state = "failed" THEN "Skipped" ELSE end, rest)
            over == r.retry \/ r.status = "Failed" \/ rest = <<>>
        IN
        /\ active' = [active EXCEPT ![w][u] = state]
        /\ out' = [out EXCEPT ![w] = Append(@, r) \o SkippedAfter(r, rest)]
        /\ item' = [item EXCEPT ![w].work = IF over THEN <<>> ELSE rest]
        /\ pc' = [pc EXCEPT ![w] = IF over THEN "send" ELSE "run"]
        /\ launchFailed' \in {launchFailed, launchFailed \/ (end = "NoPage" /\ state # "failed")}
  BY DEF RunTest
<1> DEFINE how  == IF state = "failed" THEN "Skipped" ELSE end
           r    == ResultOf(a, item[w].serial, how, rest)
           over == r.retry \/ r.status = "Failed" \/ rest = <<>>
<1>3. r \in Result
  <2>1. StatusOf(how) \in Status
    BY EndsAssumption DEF StatusOf, Status, Ending
  <2>2. ShouldRetry(a, how) \in BOOLEAN
    BY DEF ShouldRetry
  <2>3. a.test \in Tests /\ a.attempt \in Nat /\ item[w].serial \in BOOLEAN
    BY <1>1 DEF Assignment, TypeOK, Item
  <2> QED BY <1>1, <2>1, <2>2, <2>3 DEF ResultOf, Result
<1>4. SkippedAfter(r, rest) \in Seq(Result)
  <2> HIDE DEF r, rest
  <2> DEFINE n == IF r.status = "Failed" /\ ~r.retry THEN Len(rest) ELSE 0
  <2>1. n \in Nat /\ n <= Len(rest)
    BY <1>1
  <2>2. \A k \in 1..n : SkippedResult(rest[k]) \in Result
    <3> SUFFICES ASSUME NEW k \in 1..n PROVE SkippedResult(rest[k]) \in Result
      OBVIOUS
    <3>1. rest[k] \in Assignment
      BY <1>1, <2>1, ElementOfSeq
    <3> QED BY <3>1 DEF SkippedResult, Result, Assignment, Status
  <2> HIDE DEF n
  <2>3. [k \in 1..n |-> SkippedResult(rest[k])] \in Seq(Result)
    BY <2>1, <2>2
  <2> QED BY <2>3 DEF SkippedAfter, n
<1> HIDE DEF r
<1>5. out'[w] \in Seq(Result) /\ out'[w] # <<>>
  <2>1. out[w] \in Seq(Result)
    BY DEF TypeOK
  <2>2. Append(out[w], r) \in Seq(Result) /\ Len(Append(out[w], r)) > 0
    BY <1>3, <2>1
  <2>3. out'[w] = Append(out[w], r) \o SkippedAfter(r, rest)
    BY <1>2 DEF TypeOK, r
  <2>4. Len(SkippedAfter(r, rest)) \in Nat /\ Len(Append(out[w], r)) \in Nat
    BY <1>4, <2>2
  <2> DEFINE s1 == Append(out[w], r)
             s2 == SkippedAfter(r, rest)
  <2>5. s1 \in Seq(Result) /\ s2 \in Seq(Result) /\ Len(s1) \in Nat \ {0} /\ Len(s2) \in Nat
    BY <1>4, <2>2, <2>4
  <2>6. out'[w] = s1 \o s2
    BY <2>3
  <2> HIDE DEF s1, s2
  <2>7. s1 \o s2 \in Seq(Result) /\ Len(s1 \o s2) = Len(s1) + Len(s2)
    BY <2>5, ConcatProperties
  <2>8. s1 \o s2 # <<>>
    BY <2>5, <2>7, EmptySeq
  <2> QED BY <2>6, <2>7, <2>8
<1>6. /\ item'[w].work = IF over THEN <<>> ELSE rest
      /\ item'[w].serial = item[w].serial
      /\ item' \in [Workers -> Item]
      /\ pc'[w] = IF over THEN "send" ELSE "run"
      /\ pc' \in [Workers -> {"recv", "lock", "run", "send", "yield", "cleanup", "done", "failed"}]
  <2>1. item[w] \in Item /\ item \in [Workers -> Item]
    BY DEF TypeOK
  <2>2. item' = [item EXCEPT ![w] = [item[w] EXCEPT !.work = IF over THEN <<>> ELSE rest]]
    BY <1>2, <2>1 DEF r
  <2>3. (IF over THEN <<>> ELSE rest) \in Seq(Assignment)
    BY <1>1
  <2> HIDE DEF over, rest
  <2>4. [item[w] EXCEPT !.work = IF over THEN <<>> ELSE rest] \in Item
    BY <2>1, <2>3 DEF Item
  <2>5. item' \in [Workers -> Item] /\ item'[w] = [item[w] EXCEPT !.work = IF over THEN <<>> ELSE rest]
    BY <2>1, <2>2, <2>4
  <2>6. item'[w].work = (IF over THEN <<>> ELSE rest) /\ item'[w].serial = item[w].serial
    BY <2>1, <2>5 DEF Item
  <2>7. pc' = [pc EXCEPT ![w] = IF over THEN "send" ELSE "run"]
    BY <1>2 DEF over, rest, r
  <2> QED BY <2>5, <2>6, <2>7 DEF TypeOK
<1>7. \A v \in Workers : v # w => item'[v] = item[v] /\ pc'[v] = pc[v] /\ out'[v] = out[v]
  BY <1>2 DEF TypeOK
<1>8. TypeOK'
  <2>1. out' \in [Workers -> Seq(Result)]
    BY <1>2, <1>5, <1>7 DEF TypeOK
  <2>2. active' \in [Workers -> [Suites -> {"none", "entered", "ran", "failed"}]]
    <3>1. state \in {"entered", "ran", "failed"}
      BY <1>2 DEF SuiteStates
    <3>2. active' = [active EXCEPT ![w] = [active[w] EXCEPT ![u] = state]]
      BY <1>2
    <3>3. [active[w] EXCEPT ![u] = state] \in [Suites -> {"none", "entered", "ran", "failed"}]
      BY <3>1 DEF TypeOK
    <3> QED BY <3>2, <3>3 DEF TypeOK
  <2>3. launchFailed' \in BOOLEAN
    BY <1>2 DEF TypeOK
  <2> QED BY <1>6, <2>1, <2>2, <2>3 DEF TypeOK, RunTest, dispatcherVars, collectVars
<1>9. NoneEmpty'
  <2> UNCHANGED <<queue, pending>>
    BY DEF RunTest, dispatcherVars
  <2> QED BY <1>5, <1>6, <1>7 DEF NoneEmpty
<1>10. LocksHeld'
  <2>1. UNCHANGED <<stage, names>>
    BY DEF RunTest
  <2>2. stage[w] = "holding" /\ Covered(w)
    BY <1>1 DEF LocksHeld
  <2>3. pc'[w] = "run" => Covered(w)'
    <3> SUFFICES ASSUME pc'[w] = "run", NEW k \in DOMAIN item'[w].work
                 PROVE  Locks[item'[w].work[k].test] \subseteq names[w]
      BY <2>1 DEF Covered
    <3>1. item'[w].work = rest
      BY <1>6
    <3>2. k + 1 \in DOMAIN item[w].work /\ rest[k] = item[w].work[k + 1]
      BY <1>1, <3>1, HeadTailProperties
    <3> QED BY <2>2, <3>1, <3>2 DEF Covered
  <2>4. \A v \in Workers : v # w => (Covered(v) <=> Covered(v)')
    BY <1>7, <2>1 DEF Covered
  <2> QED BY <1>6, <1>7, <2>1, <2>2, <2>3, <2>4 DEF LocksHeld
<1> QED BY <1>8, <1>9, <1>10

(* What goes back for a retry is an item with a test.                      *)
LEMMA RetryItemType ==
  ASSUME NEW r \in Result
  PROVE  RetryItem(r) \in Item /\ RetryItem(r).work # <<>>
<1> DEFINE first == <<[test |-> r.test, attempt |-> r.attempt + 1]>>
<1>1. r.tail \in Seq(Assignment) /\ r.serial \in BOOLEAN
  BY DEF Result
<1>2. first \in Seq(Assignment) /\ Len(first) = 1
  BY DEF Result, Assignment
<1> HIDE DEF first
<1>3. Len(r.tail) \in Nat
  BY <1>1
<1>4. first \o r.tail \in Seq(Assignment) /\ Len(first \o r.tail) = Len(first) + Len(r.tail)
  BY <1>1, <1>2, ConcatProperties
<1>5. first \o r.tail # <<>>
  BY <1>2, <1>3, <1>4
<1> QED BY <1>1, <1>4, <1>5 DEF RetryItem, Item, first

(* One turn of the collecting loop.                                        *)
LEMMA CollectInv == ASSUME IInv, Collect PROVE IInv'
<1> USE DEF IInv
<1> DEFINE r       == Head(results)
           retries == IF r.retry THEN Append(waiting, r) ELSE waiting
<1>1. results \in Seq(Result) /\ results # <<>> /\ waiting \in Seq(Result)
  BY DEF TypeOK, Collect
<1>2. r \in Result /\ results' \in Seq(Result) /\ Len(results') <= ResultCap
  <2>1. r \in Result /\ Tail(results) \in Seq(Result) /\ Len(Tail(results)) = Len(results) - 1
    BY <1>1, HeadTailProperties
  <2>2. Len(results) \in Nat /\ Len(results) <= ResultCap
    BY <1>1 DEF TypeOK
  <2> QED BY <2>1, <2>2, RunAssumption DEF Collect
<1>3. retries \in Seq(Result)
  BY <1>1, <1>2
<1>4. /\ r.test \in Tests /\ r.status \in Status
      /\ history' = [history EXCEPT ![r.test] = Append(@, r.status)]
  BY <1>2 DEF Result, Collect
<1>5. finalCount' \in Nat /\ failureCount' \in Nat /\ settled' \in SUBSET Tests
  <2>1. finalCount' \in {finalCount + 0, finalCount + 1}
    BY DEF Collect
  <2>2. failureCount' \in {failureCount + 0, failureCount + 1}
    BY DEF Collect
  <2>3. settled' \in {settled, settled \cup {r.test}}
    BY DEF Collect
  <2> QED BY <1>4, <2>1, <2>2, <2>3 DEF TypeOK
<1>6. stopped' \in BOOLEAN /\ closed' \in BOOLEAN
  BY DEF Collect, TypeOK
<1>7. waiting' = retries \/ (retries # <<>> /\ waiting' = Tail(retries))
  BY DEF Collect
<1>8. queue' = queue \/ (retries # <<>> /\ queue' = Append(queue, RetryItem(Head(retries))))
  BY DEF Collect
<1>9. /\ UNCHANGED <<workerVars, stopSeen, exitCode, stopRequested, launchFailed>>
  BY DEF Collect
<1> HIDE DEF r, retries
<1>10. waiting' \in Seq(Result)
  BY <1>3, <1>7, HeadTailProperties
<1>11. queue' \in Seq(Item) /\ \A k \in DOMAIN queue' : queue'[k].work # <<>>
  <2>1. CASE queue' = queue
    BY <2>1 DEF TypeOK, NoneEmpty
  <2>2. CASE retries # <<>> /\ queue' = Append(queue, RetryItem(Head(retries)))
    <3>1. Head(retries) \in Result
      BY <1>3, <2>2, HeadTailProperties
    <3>2. RetryItem(Head(retries)) \in Item /\ RetryItem(Head(retries)).work # <<>>
      BY <3>1, RetryItemType
    <3> DEFINE i == RetryItem(Head(retries))
    <3>3. queue' = Append(queue, i) /\ queue \in Seq(Item) /\ i \in Item /\ i.work # <<>>
      BY <2>2, <3>2 DEF TypeOK
    <3> HIDE DEF i
    <3>4. queue' \in Seq(Item) /\ Len(queue') = Len(queue) + 1
      BY <3>3, AppendProperties
    <3>5. ASSUME NEW k \in DOMAIN queue' PROVE queue'[k].work # <<>>
      <4>1. k \in 1..(Len(queue) + 1) /\ Len(queue) \in Nat /\ DOMAIN queue = 1..Len(queue)
        BY <3>3, <3>4, LenProperties
      <4>2. CASE k \in 1..Len(queue)
        BY <3>3, <4>1, <4>2, AppendProperties DEF NoneEmpty
      <4>3. CASE k = Len(queue) + 1
        BY <3>3, <4>3, AppendProperties
      <4> QED BY <4>1, <4>2, <4>3
    <3> QED BY <3>4, <3>5
  <2> QED BY <1>8, <2>1, <2>2
<1>12. TypeOK'
  <2>1. history' \in [Tests -> Seq(Status)]
    BY <1>4 DEF TypeOK
  <2> QED BY <2>1, <1>2, <1>5, <1>6, <1>9, <1>10, <1>11 DEF TypeOK, workerVars
<1>13. NoneEmpty'
  BY <1>9, <1>11 DEF NoneEmpty, workerVars
<1>14. LocksHeld'
  BY <1>9 DEF LocksHeld, Covered, workerVars
<1> QED BY <1>12, <1>13, <1>14

(* Any exit statuses have a worst one, so that Verdict is one of them.     *)
LEMMA WorstOfCodes ==
  ASSUME NEW C \in SUBSET ExitCode, C # {}
  PROVE  \E c \in C : \A d \in C : Worst(c, d) = c
<1>1. CASE "Interrupted" \in C
  BY <1>1 DEF ExitCode, ExitRank, Worst
<1>2. CASE "Interrupted" \notin C /\ "Infrastructure" \in C
  BY <1>2 DEF ExitCode, ExitRank, Worst
<1>3. CASE "Interrupted" \notin C /\ "Infrastructure" \notin C /\ "Usage" \in C
  BY <1>3 DEF ExitCode, ExitRank, Worst
<1>4. CASE C \in SUBSET {"Passed", "Failed"} /\ "Failed" \in C
  BY <1>4 DEF ExitCode, ExitRank, Worst
<1>5. CASE C \in SUBSET {"Passed"}
  BY <1>5 DEF ExitCode, ExitRank, Worst
<1> QED BY <1>1, <1>2, <1>3, <1>4, <1>5 DEF ExitCode

(* The summary is returned.                                                *)
LEMMA FinishInv == ASSUME IInv, Finish PROVE IInv'
<1> USE DEF IInv, dispatcherVars, workerVars
<1>1. StatusesSeen \in SUBSET ExitCode /\ StatusesSeen # {}
  BY DEF StatusesSeen, TestsVerdict, ExitCode
<1>2. Verdict \in ExitCode
  BY <1>1, WorstOfCodes DEF Verdict
<1>3. TypeOK' BY <1>2 DEF TypeOK, Finish
<1>4. NoneEmpty' BY DEF NoneEmpty, TypeOK, Finish
<1>5. LocksHeld' BY DEF LocksHeld, Covered, TypeOK, Finish
<1> QED BY <1>3, <1>4, <1>5

(* A step that changes nothing.                                            *)
LEMMA StutterInv == ASSUME IInv, UNCHANGED vars PROVE IInv'
BY DEF IInv, TypeOK, NoneEmpty, LocksHeld, Covered, vars, dispatcherVars, workerVars, collectVars

(* Every step of the run keeps the inductive invariant.                    *)
LEMMA NextInv == IInv /\ [Next]_vars => IInv'
<1> SUFFICES ASSUME IInv, [Next]_vars PROVE IInv'
  OBVIOUS
<1>1. ASSUME NEW w \in Workers, WorkerStep(w) PROVE IInv'
  <2> USE <1>1
  <2>1. CASE Drained(w) BY <2>1, DrainedInv
  <2>2. CASE DropItem(w) BY <2>2, DropItemInv
  <2>3. CASE HandOver(w) BY <2>3, HandOverInv
  <2>4. CASE PickUp(w) BY <2>4, PickUpInv
  <2>5. CASE Acquired(w) BY <2>5, AcquiredInv
  <2>6. ASSUME NEW end \in Ends, RunTest(w, end) PROVE IInv'
    BY <2>6, RunTestInv
  <2>7. CASE Send(w) BY <2>7, SendInv
  <2>8. CASE EndTurn(w) BY <2>8, EndTurnInv
  <2>9. CASE CleanUp(w) BY <2>9, CleanUpInv
  <2>10. CASE CleanUpFails(w) BY <2>10, CleanUpFailsInv
  <2> QED BY <2>1, <2>2, <2>3, <2>4, <2>5, <2>6, <2>7, <2>8, <2>9, <2>10 DEF WorkerStep
<1>2. CASE Collect BY <1>2, CollectInv
<1>3. CASE RequestStop \/ SeeStop BY <1>3, StopInv
<1>4. CASE Finish BY <1>4, FinishInv
<1>5. CASE Terminated \/ UNCHANGED vars
  BY <1>5, StutterInv DEF Terminated
<1> QED BY <1>1, <1>2, <1>3, <1>4, <1>5 DEF Next

(* It holds throughout every run.                                          *)
LEMMA Invariance == Spec => []IInv
BY InitInv, NextInv, PTL DEF Spec

(* The run's state has its type: whatever is queued, kept, retried or sent *)
(* is well formed, the result channel stays within its capacity, and the   *)
(* run ends with one of the exit statuses.                                 *)
THEOREM TypeCorrect == Spec => []TypeOK
<1>1. IInv => TypeOK BY DEF IInv
<1> QED BY <1>1, Invariance, PTL

(* Disjoint locks held, and covering what runs, keep the tests apart.      *)
LEMMA HeldMeansApart == IInv => LockedTestsApart
<1> SUFFICES ASSUME IInv, NEW v \in Workers, NEW w \in Workers, Running(v), Running(w), v # w
             PROVE  Locks[Head(item[v].work).test] \cap Locks[Head(item[w].work).test] = {}
  BY DEF LockedTestsApart
<1>1. ASSUME NEW x \in Workers, Running(x)
      PROVE  stage[x] = "holding" /\ Locks[Head(item[x].work).test] \subseteq names[x]
  <2>1. item[x].work \in Seq(Assignment) /\ item[x].work # <<>>
    BY <1>1 DEF IInv, TypeOK, Item, NoneEmpty, Running
  <2>2. 1 \in DOMAIN item[x].work /\ Head(item[x].work) = item[x].work[1]
    BY <2>1
  <2> QED BY <1>1, <2>2 DEF IInv, LocksHeld, Covered, Running
<1> QED BY <1>1 DEF IInv, LocksHeld

(* "Tests that name the same lock never run at the same time" (locks.rs),  *)
(* for single tests and for every test of a serial group, in any plan and  *)
(* over any number of workers.                                             *)
THEOREM Apart == Spec => []LockedTestsApart
BY Invariance, HeldMeansApart, PTL

-----------------------------------------------------------------------------
(* A worker has work only from its pick-up to its last test, results only  *)
(* until they are sent, and keeps an item only between two incarnations.   *)
Hands ==
  \A w \in Workers :
    /\ pc[w] \notin {"lock", "run"} => item[w].work = <<>>
    /\ pc[w] \notin {"run", "send"} => out[w] = <<>>
    /\ pc[w] \notin {"recv", "cleanup"} => pending[w] = NoItem

(* No test is in two places, or in any once it has its verdict, ...        *)
Once ==
  \A t \in Tests :
    /\ \A r, s \in Copies(t) : r = s
    /\ t \in settled => Copies(t) = {}

(* ... and it is in one before, unless work may have been dropped.         *)
Kept == \A t \in Tests : MayLose \/ t \in settled \/ Copies(t) # {}

(* The runner's count of verdicts is how many tests have one.              *)
Counted == finalCount = Cardinality(settled)

(* An attempt that is still to run is the one after those in the history;  *)
Due(h, work) ==
  \A j \in DOMAIN work :
    /\ work[j].attempt = Len(h[work[j].test]) + 1
    /\ work[j].attempt <= MaxAttempts[work[j].test]

(* a result on its way is that attempt's, and retried only when it may be; *)
Honest(h, r) ==
  /\ Due(h, Carried(r))
  /\ r.retry => /\ r.attempt < MaxAttempts[r.test]
                /\ r.status = "Failed" \/ ~Matches(r.status, Expected[r.test])
  /\ ~r.retry => r.tail = <<>>

(* a waiting retry's attempt is the last one collected.                    *)
Waits(h, r) ==
  /\ r.attempt = Len(h[r.test])
  /\ r.attempt < MaxAttempts[r.test]
  /\ Due(h, r.tail)

(* Both, wherever work or results are.                                     *)
Attempts ==
  /\ \A k \in DOMAIN queue : Due(history, queue[k].work)
  /\ \A w \in Workers : Due(history, pending[w].work) /\ Due(history, item[w].work)
  /\ \A w \in Workers : \A k \in DOMAIN out[w] : Honest(history, out[w][k])
  /\ \A k \in DOMAIN results : Honest(history, results[k])
  /\ \A k \in DOMAIN waiting : waiting[k].retry /\ Waits(history, waiting[k])

(* The tests that have their verdict, counted or on the way to the runner. *)
Behind ==
  settled \cup {t \in Tests : \E r \in ResultsInFlight : r.test = t /\ ~r.retry}

(* What is left of a serial group: a suffix, and before it verdicts (B).   *)
Rest(B, work) ==
  \E u \in DOMAIN Plan :
    LET group == Plan[u].tests
        done  == Len(group) - Len(work)
    IN  /\ Plan[u].serial
        /\ Len(work) <= Len(group)
        /\ \A j \in 1..Len(work) : work[j].test = group[done + j]
        /\ \A k \in 1..done : group[k] \in B

(* What is left of a group in an item, or in a retry with its tail.        *)
RestItem(B, i) == i.serial /\ i.work # <<>> => Rest(B, i.work)
RestResult(B, r) == r.serial /\ r.retry => Rest(B, Carried(r))

(* Serial groups, wherever what is left of them is.                        *)
Ordered ==
  /\ \A k \in DOMAIN queue : RestItem(Behind, queue[k])
  /\ \A w \in Workers : RestItem(Behind, pending[w]) /\ RestItem(Behind, item[w])
  /\ \A w \in Workers : \A k \in DOMAIN out[w] : RestResult(Behind, out[w][k])
  /\ \A k \in DOMAIN results : RestResult(Behind, results[k])
  /\ \A k \in DOMAIN waiting : RestResult(Behind, waiting[k])

(* The places of work, and where an attempt that is not the first is due.  *)
AtWork(t) == Queued(t) \cup Pending(t) \cup InHand(t)

(* Two places in the same item, or in the same result.                     *)
SamePlace(r, s) == r[1] = s[1] /\ r[2] = s[2] /\ r[3] = s[3]

(* retryStrategy 'isolated': a retry due is in the only work there is.     *)
Alone ==
  Isolated =>
    \A t \in Tests : history[t] # <<>> =>
      \A r \in AtWork(t) : \A u \in Tests : \A s \in AtWork(u) : SamePlace(r, s)

(* What closes and stops a run, and what ends a worker.                    *)
Reasons ==
  /\ failureCount > 0 =>
       \E t \in settled : OutcomeKind(history[t], Expected[t]) = "Unexpected"
  /\ stopSeen => stopRequested
  /\ stopped => stopRequested \/ failureCount > 0
  /\ closed => stopped \/ finalCount >= Total
  /\ \A w \in Workers : pc[w] \in {"cleanup", "done"} /\ pending[w] = NoItem => stopped \/ closed

(* The account the run keeps of its tests: what the counting rests on.     *)
Ledger == Hands /\ Once /\ Kept /\ Counted /\ Attempts /\ Ordered /\ Alone /\ Reasons

(* What is in each part of a test's places.                                *)
LEMMA PlacesAre ==
  ASSUME NEW t, NEW s
  PROVE  /\ s \in Queued(t) <=> \E k, j :
              /\ k \in DOMAIN queue /\ j \in DOMAIN queue[k].work
              /\ s = <<"queue", 0, k, j>> /\ queue[k].work[j].test = t
         /\ s \in Pending(t) <=> \E w, j :
              /\ w \in Workers /\ j \in DOMAIN pending[w].work
              /\ s = <<"pending", w, 0, j>> /\ pending[w].work[j].test = t
         /\ s \in InHand(t) <=> \E w, j :
              /\ w \in Workers /\ j \in DOMAIN item[w].work
              /\ s = <<"item", w, 0, j>> /\ item[w].work[j].test = t
         /\ s \in Unsent(t) <=> \E w, k, j :
              /\ w \in Workers /\ k \in DOMAIN out[w] /\ j \in DOMAIN Carried(out[w][k])
              /\ s = <<"out", w, k, j>> /\ Carried(out[w][k])[j].test = t
         /\ s \in Sent(t) <=> \E k, j :
              /\ k \in DOMAIN results /\ j \in DOMAIN Carried(results[k])
              /\ s = <<"results", 0, k, j>> /\ Carried(results[k])[j].test = t
         /\ s \in Waiting(t) <=> \E k, j :
              /\ k \in DOMAIN waiting /\ j \in DOMAIN Carried(waiting[k])
              /\ s = <<"waiting", 0, k, j>> /\ Carried(waiting[k])[j].test = t
  BY DEF Queued, Pending, InHand, Unsent, Sent, Waiting, Places

(* The same after a step.                                                  *)
LEMMA PlacesAreNext ==
  ASSUME NEW t, NEW s
  PROVE  /\ s \in Queued(t)' <=> \E k, j :
              /\ k \in DOMAIN queue' /\ j \in DOMAIN queue'[k].work
              /\ s = <<"queue", 0, k, j>> /\ queue'[k].work[j].test = t
         /\ s \in Pending(t)' <=> \E w, j :
              /\ w \in Workers /\ j \in DOMAIN pending'[w].work
              /\ s = <<"pending", w, 0, j>> /\ pending'[w].work[j].test = t
         /\ s \in InHand(t)' <=> \E w, j :
              /\ w \in Workers /\ j \in DOMAIN item'[w].work
              /\ s = <<"item", w, 0, j>> /\ item'[w].work[j].test = t
         /\ s \in Unsent(t)' <=> \E w, k, j :
              /\ w \in Workers /\ k \in DOMAIN out'[w] /\ j \in DOMAIN Carried(out'[w][k])
              /\ s = <<"out", w, k, j>> /\ Carried(out'[w][k])[j].test = t
         /\ s \in Sent(t)' <=> \E k, j :
              /\ k \in DOMAIN results' /\ j \in DOMAIN Carried(results'[k])
              /\ s = <<"results", 0, k, j>> /\ Carried(results'[k])[j].test = t
         /\ s \in Waiting(t)' <=> \E k, j :
              /\ k \in DOMAIN waiting' /\ j \in DOMAIN Carried(waiting'[k])
              /\ s = <<"waiting", 0, k, j>> /\ Carried(waiting'[k])[j].test = t
  BY DEF Queued, Pending, InHand, Unsent, Sent, Waiting, Places





(* The tests a result stands for, by position: its own, then its tail.     *)
LEMMA CarriedIs ==
  ASSUME NEW r \in Result
  PROVE  /\ Carried(r) \in Seq(Assignment) /\ Len(r.tail) \in Nat
         /\ r.tail \in Seq(Assignment)
         /\ DOMAIN Carried(r) = 1..(1 + Len(r.tail))
         /\ Len(Carried(r)) = 1 + Len(r.tail)
         /\ Carried(r)[1] = [test |-> r.test, attempt |-> r.attempt]
         /\ \A j \in 1..Len(r.tail) : Carried(r)[j + 1] = r.tail[j]
<1> DEFINE first == <<[test |-> r.test, attempt |-> r.attempt]>>
<1>1. r.tail \in Seq(Assignment) /\ first \in Seq(Assignment) /\ Len(first) = 1
      /\ first[1] = [test |-> r.test, attempt |-> r.attempt]
  BY DEF Result, Assignment
<1> HIDE DEF first
<1>2. Len(r.tail) \in Nat
  BY <1>1
<1>3. /\ first \o r.tail \in Seq(Assignment) /\ Len(first \o r.tail) = 1 + Len(r.tail)
      /\ \A i \in 1..(1 + Len(r.tail)) :
           (first \o r.tail)[i] = IF i <= 1 THEN first[i] ELSE r.tail[i - 1]
  BY <1>1, ConcatProperties
<1>4. DOMAIN (first \o r.tail) = 1..(1 + Len(r.tail))
  BY <1>3, LenProperties
<1>5. Carried(r) = first \o r.tail
  BY DEF Carried, first
<1> HIDE DEF Carried
<1>6. \A j \in 1..Len(r.tail) : Carried(r)[j + 1] = r.tail[j]
  <2> TAKE j \in 1..Len(r.tail)
  <2>1. j + 1 \in 1..(1 + Len(r.tail)) /\ ~(j + 1 <= 1) /\ (j + 1) - 1 = j
    BY <1>2
  <2> QED BY <1>3, <1>5, <2>1
<1>7. Carried(r)[1] = first[1]
  BY <1>2, <1>3, <1>5
<1> QED BY <1>1, <1>2, <1>3, <1>4, <1>5, <1>6, <1>7

(* The same of the item its retry is put back as.                          *)
LEMMA RetryItemIs ==
  ASSUME NEW r \in Result
  PROVE  /\ RetryItem(r) \in Item /\ RetryItem(r).serial = r.serial
         /\ DOMAIN RetryItem(r).work = 1..(1 + Len(r.tail))
         /\ Len(RetryItem(r).work) = 1 + Len(r.tail)
         /\ RetryItem(r).work[1] = [test |-> r.test, attempt |-> r.attempt + 1]
         /\ \A j \in 1..Len(r.tail) : RetryItem(r).work[j + 1] = r.tail[j]
<1> DEFINE next == [r EXCEPT !.attempt = r.attempt + 1]
<1>1. next \in Result /\ next.tail = r.tail /\ next.test = r.test /\ next.attempt = r.attempt + 1
  BY DEF Result
<1>2. RetryItem(r) = [serial |-> r.serial, work |-> Carried(next)]
  BY <1>1 DEF RetryItem, Carried
<1>3. RetryItem(r).work = Carried(next) /\ RetryItem(r).serial = r.serial
  BY <1>2
<1> HIDE DEF next
<1>4. RetryItem(r) \in Item
  BY RetryItemType
<1>5. /\ DOMAIN Carried(next) = 1..(1 + Len(r.tail)) /\ Len(Carried(next)) = 1 + Len(r.tail)
      /\ Carried(next)[1] = [test |-> r.test, attempt |-> r.attempt + 1]
      /\ \A j \in 1..Len(r.tail) : Carried(next)[j + 1] = r.tail[j]
  BY <1>1, CarriedIs
<1> QED BY <1>3, <1>4, <1>5

(* What a test's run leaves: its result alone, with the rest of the group  *)
(* to go on with; the result with that rest in its tail; or results for    *)
(* all that was left.                                                      *)
GoesOn(r, work, left, old, new) ==
  /\ ~r.retry /\ r.tail = <<>> /\ Len(work) > 1
  /\ Len(new) = Len(old) + 1
  /\ Len(left) = Len(work) - 1
  /\ \A j \in 1..(Len(work) - 1) : left[j] = work[j + 1]

(* ... a retry that takes the rest of the group along, ...                 *)
Resumes(r, work, left, old, new) ==
  /\ r.retry
  /\ Len(r.tail) = Len(work) - 1
  /\ \A j \in 1..Len(r.tail) : r.tail[j] = work[j + 1]
  /\ Len(new) = Len(old) + 1
  /\ left = <<>>

(* ... or a failure for good, the rest reported as skipped.                *)
EndsItem(r, work, left, old, new) ==
  /\ ~r.retry /\ r.tail = <<>>
  /\ Len(new) = Len(old) + Len(work)
  /\ \A j \in 2..Len(work) : new[Len(old) + j] = SkippedResult(work[j])
  /\ left = <<>>

(* RunTest, with its sequences spelled out by position.                    *)
LEMMA RunTestIs ==
  ASSUME IInv, NEW w \in Workers, NEW end \in Ends, RunTest(w, end)
  PROVE  /\ pc[w] = "run" /\ Len(item[w].work) \in Nat \ {0} /\ item[w].work \in Seq(Assignment)
         /\ DOMAIN item[w].work = 1..Len(item[w].work)
         /\ out[w] \in Seq(Result) /\ out'[w] \in Seq(Result) /\ Len(out[w]) \in Nat
         /\ DOMAIN out[w] = 1..Len(out[w]) /\ DOMAIN out'[w] = 1..Len(out'[w])
         /\ item'[w].serial = item[w].serial /\ item'[w].work \in Seq(Assignment)
         /\ pc'[w] = (IF item'[w].work = <<>> THEN "send" ELSE "run")
         /\ \A v \in Workers : v # w => item'[v] = item[v] /\ pc'[v] = pc[v] /\ out'[v] = out[v]
         /\ UNCHANGED <<queue, pending, results, waiting, settled, history>>
         /\ \A k \in 1..Len(out[w]) : out'[w][k] = out[w][k]
         /\ \E r \in Result :
              /\ out'[w][Len(out[w]) + 1] = r
              /\ r.test = item[w].work[1].test /\ r.attempt = item[w].work[1].attempt
              /\ r.serial = item[w].serial
              /\ r.retry => /\ r.attempt < MaxAttempts[r.test]
                            /\ r.status = "Failed" \/ ~Matches(r.status, Expected[r.test])
              /\ \/ GoesOn(r, item[w].work, item'[w].work, out[w], out'[w])
                 \/ Resumes(r, item[w].work, item'[w].work, out[w], out'[w])
                 \/ EndsItem(r, item[w].work, item'[w].work, out[w], out'[w])
<1> DEFINE work == item[w].work
           a    == Head(work)
           rest == Tail(work)
           u    == Suite[a.test]
<1>1. /\ work \in Seq(Assignment) /\ work # <<>> /\ pc[w] = "run"
      /\ out[w] \in Seq(Result) /\ item[w].serial \in BOOLEAN /\ item \in [Workers -> Item]
      /\ pc \in [Workers -> {"recv", "lock", "run", "send", "yield", "cleanup", "done", "failed"}]
      /\ out \in [Workers -> Seq(Result)]
  BY DEF IInv, TypeOK, Item, NoneEmpty, RunTest
<1>2. /\ Len(work) \in Nat \ {0} /\ DOMAIN work = 1..Len(work)
      /\ a = work[1] /\ a \in Assignment /\ rest \in Seq(Assignment)
      /\ Len(rest) = Len(work) - 1 /\ \A j \in 1..Len(rest) : rest[j] = work[j + 1]
  BY <1>1, HeadTailProperties, EmptySeq, LenProperties
<1>3. PICK state \in SuiteStates(u, active[w][u]) :
        LET r    == ResultOf(a, item[w].serial, IF state = "failed" THEN "Skipped" ELSE end, rest)
            over == r.retry \/ r.status = "Failed" \/ rest = <<>>
        IN
        /\ out' = [out EXCEPT ![w] = Append(@, r) \o SkippedAfter(r, rest)]
        /\ item' = [item EXCEPT ![w].work = IF over THEN <<>> ELSE rest]
        /\ pc' = [pc EXCEPT ![w] = IF over THEN "send" ELSE "run"]
  BY DEF RunTest
<1> DEFINE how  == IF state = "failed" THEN "Skipped" ELSE end
           r    == ResultOf(a, item[w].serial, how, rest)
           over == r.retry \/ r.status = "Failed" \/ rest = <<>>
           skipped == SkippedAfter(r, rest)
<1>4. /\ r \in Result /\ r.test = a.test /\ r.attempt = a.attempt /\ r.serial = item[w].serial
      /\ r.retry = ShouldRetry(a, how) /\ r.status = StatusOf(how)
      /\ r.tail = IF r.retry THEN rest ELSE <<>>
  <2>1. StatusOf(how) \in Status
    BY EndsAssumption DEF StatusOf, Status, Ending
  <2>2. ShouldRetry(a, how) \in BOOLEAN
    BY DEF ShouldRetry
  <2>3. a.test \in Tests /\ a.attempt \in Nat
    BY <1>2 DEF Assignment
  <2> QED BY <1>1, <1>2, <2>1, <2>2, <2>3 DEF ResultOf, Result
<1>5. r.retry => /\ r.attempt < MaxAttempts[r.test]
                 /\ r.status = "Failed" \/ ~Matches(r.status, Expected[r.test])
  <2> SUFFICES ASSUME ShouldRetry(a, how)
               PROVE  /\ a.attempt < MaxAttempts[a.test]
                      /\ StatusOf(how) = "Failed" \/ ~Matches(StatusOf(how), Expected[a.test])
    BY <1>4
  <2>1. how = "NoPage" => StatusOf(how) = "Failed"
    BY DEF StatusOf
  <2>2. OutcomeKind(<<StatusOf(how)>>, Expected[a.test]) = "Unexpected"
          => ~Matches(StatusOf(how), Expected[a.test])
    BY DEF OutcomeKind
  <2> QED BY <2>1, <2>2 DEF ShouldRetry
<1> HIDE DEF r
<1> DEFINE n == IF r.status = "Failed" /\ ~r.retry THEN Len(rest) ELSE 0
<1>6. /\ skipped \in Seq(Result) /\ Len(skipped) = n /\ n \in Nat
      /\ \A k \in 1..n : skipped[k] = SkippedResult(rest[k])
  <2>1. n \in Nat /\ n <= Len(rest)
    BY <1>2
  <2>2. \A k \in 1..n : SkippedResult(rest[k]) \in Result
    <3> SUFFICES ASSUME NEW k \in 1..n PROVE SkippedResult(rest[k]) \in Result
      OBVIOUS
    <3>1. rest[k] \in Assignment
      BY <1>2, <2>1, ElementOfSeq
    <3> QED BY <3>1 DEF SkippedResult, Result, Assignment, Status
  <2>3. skipped = [k \in 1..n |-> SkippedResult(rest[k])]
    BY DEF SkippedAfter
  <2> HIDE DEF n, skipped, rest
  <2> QED BY <2>1, <2>2, <2>3
<1>7. /\ Append(out[w], r) \in Seq(Result) /\ Len(Append(out[w], r)) = Len(out[w]) + 1
      /\ Len(out[w]) \in Nat
      /\ \A k \in 1..Len(out[w]) : Append(out[w], r)[k] = out[w][k]
      /\ Append(out[w], r)[Len(out[w]) + 1] = r
  BY <1>1, <1>4, AppendProperties, LenProperties
<1>8. /\ out'[w] = Append(out[w], r) \o skipped
      /\ \A v \in Workers : v # w => item'[v] = item[v] /\ pc'[v] = pc[v] /\ out'[v] = out[v]
      /\ pc'[w] = IF over THEN "send" ELSE "run"
      /\ item'[w].work = IF over THEN <<>> ELSE rest
      /\ item'[w].serial = item[w].serial
  <2>1. item' = [item EXCEPT ![w] = [item[w] EXCEPT !.work = IF over THEN <<>> ELSE rest]]
    BY <1>3, <1>1 DEF r
  <2> HIDE DEF over, rest
  <2>2. item'[w] = [item[w] EXCEPT !.work = IF over THEN <<>> ELSE rest] /\ item[w] \in Item
    BY <2>1, <1>1
  <2>3. item'[w].work = (IF over THEN <<>> ELSE rest) /\ item'[w].serial = item[w].serial
    BY <2>2 DEF Item
  <2> QED BY <1>1, <1>3, <2>1, <2>3 DEF r, over, rest
<1> DEFINE s1 == Append(out[w], r)
<1>9. /\ out'[w] \in Seq(Result) /\ Len(out'[w]) = Len(out[w]) + 1 + n
      /\ \A k \in 1..(Len(out[w]) + 1) : out'[w][k] = s1[k]
      /\ \A k \in 1..n : out'[w][Len(out[w]) + 1 + k] = skipped[k]
  <2>1. s1 \in Seq(Result) /\ Len(s1) = Len(out[w]) + 1 /\ Len(out[w]) \in Nat
    BY <1>7
  <2> HIDE DEF s1, skipped, n
  <2>2. out'[w] = s1 \o skipped
    BY <1>8 DEF s1
  <2>3. /\ s1 \o skipped \in Seq(Result) /\ Len(s1 \o skipped) = Len(s1) + Len(skipped)
        /\ \A i \in 1..(Len(s1) + Len(skipped)) :
             (s1 \o skipped)[i] = IF i <= Len(s1) THEN s1[i] ELSE skipped[i - Len(s1)]
    BY <2>1, <1>6, ConcatProperties
  <2>4. \A k \in 1..n : out'[w][Len(out[w]) + 1 + k] = skipped[k]
    <3> TAKE k \in 1..n
    <3>1. /\ Len(out[w]) + 1 + k \in 1..(Len(s1) + Len(skipped))
          /\ ~(Len(out[w]) + 1 + k <= Len(s1)) /\ (Len(out[w]) + 1 + k) - Len(s1) = k
      BY <2>1, <1>6
    <3> QED BY <2>2, <2>3, <3>1
  <2>5. \A k \in 1..(Len(out[w]) + 1) : out'[w][k] = s1[k]
    BY <2>1, <2>2, <2>3, <1>6
  <2> QED BY <2>1, <2>2, <2>3, <2>4, <2>5, <1>6
<1>10. out'[w][Len(out[w]) + 1] = r /\ \A k \in 1..Len(out[w]) : out'[w][k] = out[w][k]
  <2>1. Len(out[w]) + 1 \in 1..(Len(out[w]) + 1) /\ \A k \in 1..Len(out[w]) : k \in 1..(Len(out[w]) + 1)
    BY <1>7
  <2> QED BY <2>1, <1>7, <1>9
<1>11. /\ pc'[w] = (IF item'[w].work = <<>> THEN "send" ELSE "run")
       /\ \/ GoesOn(r, work, item'[w].work, out[w], out'[w])
          \/ Resumes(r, work, item'[w].work, out[w], out'[w])
          \/ EndsItem(r, work, item'[w].work, out[w], out'[w])
  <2>0. /\ Len(out[w]) \in Nat /\ Len(rest) = Len(work) - 1 /\ Len(work) \in Nat \ {0}
        /\ Len(out'[w]) = Len(out[w]) + 1 + n /\ n \in Nat
        /\ rest = <<>> => Len(rest) = 0
        /\ rest # <<>> => Len(rest) > 0
    <3>1. rest \in Seq(Assignment)
      BY <1>2
    <3> HIDE DEF rest
    <3>2. (rest = <<>> => Len(rest) = 0) /\ (rest # <<>> => Len(rest) > 0)
      BY <3>1, EmptySeq
    <3> QED BY <3>2, <1>2, <1>6, <1>7, <1>9
  <2>1. CASE ~over
    <3>1. r.status # "Failed" /\ ~r.retry /\ rest # <<>>
      BY <2>1
    <3>2. n = 0 /\ r.tail = <<>>
      BY <3>1, <1>4
    <3>6. Len(work) > 1
      <4> HIDE DEF n, rest, work
      <4> QED BY <3>1, <2>0
    <3>3. pc'[w] = "run" /\ item'[w].work = rest
      BY <2>1, <1>8
    <3>4. Len(out'[w]) = Len(out[w]) + 1
      <4> HIDE DEF n, rest, work
      <4> QED BY <3>2, <2>0
    <3>5. \A j \in 1..(Len(work) - 1) : item'[w].work[j] = work[j + 1]
      BY <3>3, <1>2
    <3> HIDE DEF n, over
    <3> QED BY <3>1, <3>2, <3>3, <3>4, <3>5, <3>6, <2>0 DEF GoesOn
  <2>2. CASE r.retry
    <3>1. n = 0 /\ r.tail = rest
      BY <2>2, <1>4
    <3>2. pc'[w] = "send" /\ item'[w].work = <<>>
      BY <2>2, <1>8
    <3>3. Len(out'[w]) = Len(out[w]) + 1
      <4> HIDE DEF n, rest, work
      <4> QED BY <3>1, <2>0
    <3>4. \A j \in 1..Len(r.tail) : r.tail[j] = work[j + 1]
      BY <3>1, <1>2
    <3> HIDE DEF n, over
    <3> QED BY <2>2, <3>1, <3>2, <3>3, <3>4, <2>0, <1>5 DEF Resumes
  <2>3. CASE over /\ ~r.retry
    <3>1. n = Len(rest)
      <4>1. r.status = "Failed" \/ rest = <<>>
        BY <2>3
      <4>2. r.status = "Failed" => n = Len(rest)
        BY <2>3
      <4>3. r.status # "Failed" => n = 0
        OBVIOUS
      <4> HIDE DEF n, rest, work, over
      <4> QED BY <4>1, <4>2, <4>3, <2>0
    <3>2. \A j \in 2..Len(work) : out'[w][Len(out[w]) + j] = SkippedResult(work[j])
      <4> TAKE j \in 2..Len(work)
      <4>1. j - 1 \in 1..n /\ Len(out[w]) + 1 + (j - 1) = Len(out[w]) + j /\ j - 1 + 1 = j
        <5> HIDE DEF n, rest, work
        <5> QED BY <3>1, <2>0
      <4>2. out'[w][Len(out[w]) + 1 + (j - 1)] = SkippedResult(rest[j - 1])
        BY <4>1, <1>6, <1>9
      <4>3. rest[j - 1] = work[j]
        BY <4>1, <3>1, <1>2
      <4> QED BY <4>1, <4>2, <4>3
    <3>3. Len(out'[w]) = Len(out[w]) + Len(work)
      <4> HIDE DEF n, rest, work
      <4> QED BY <3>1, <2>0
    <3>4. pc'[w] = "send" /\ item'[w].work = <<>> /\ r.tail = <<>>
      BY <2>3, <1>4, <1>8
    <3> HIDE DEF over, n
    <3> QED BY <2>3, <3>2, <3>3, <3>4 DEF EndsItem
  <2> QED BY <2>1, <2>2, <2>3
<1>12. UNCHANGED <<queue, pending, results, waiting, settled, history>>
  BY DEF RunTest, dispatcherVars, collectVars
<1>13. DOMAIN out[w] = 1..Len(out[w]) /\ DOMAIN out'[w] = 1..Len(out'[w])
  BY <1>1, <1>9, LenProperties
<1>14. item'[w].work \in Seq(Assignment)
  <2>1. <<>> \in Seq(Assignment) /\ rest \in Seq(Assignment)
    BY <1>2
  <2> HIDE DEF over, rest
  <2> QED BY <2>1, <1>8
<1> QED BY <1>1, <1>2, <1>4, <1>5, <1>7, <1>8, <1>9, <1>10, <1>11, <1>12, <1>13, <1>14

(* What a worker receives is what it kept, or the queue's head.            *)
LEMMA ReceiveIs ==
  ASSUME TypeOK, NEW w \in Workers, NEW i \in {pending[w]} \cup Range(queue), Receive(w, i)
  PROVE  /\ pc[w] = "recv"
         /\ \/ pending[w] # NoItem /\ i = pending[w] /\ queue' = queue
            \/ /\ pending[w] = NoItem /\ i = queue[1] /\ 1 \in DOMAIN queue
               /\ \A k : k \in DOMAIN queue' <=> k \in Nat /\ k # 0 /\ k + 1 \in DOMAIN queue
               /\ \A k \in DOMAIN queue' : queue'[k] = queue[k + 1]
               /\ \A k \in DOMAIN queue : k # 1 => k - 1 \in DOMAIN queue' /\ queue'[k - 1] = queue[k]
<1>1. queue \in Seq(Item)
  BY DEF TypeOK
<1> QED BY <1>1 DEF Receive

(* Where a place of a test goes when worker w takes an item: the item's    *)
(* own places become the worker's (kind: what it does with it), the queue  *)
(* moves up.                                                               *)
Taken(w, kind, r) ==
  IF r[1] = "pending" /\ r[2] = w THEN <<kind, w, 0, r[4]>>
  ELSE IF r[1] = "queue" /\ pending[w] = NoItem
         THEN IF r[3] = 1 THEN <<kind, w, 0, r[4]>> ELSE <<"queue", 0, r[3] - 1, r[4]>>
  ELSE r

(* Worker w takes an item, to run it, to keep it or to drop it.            *)
Takes(w, kind) ==
  \E i \in {pending[w]} \cup Range(queue) :
    /\ Receive(w, i)
    /\ pending' = [pending EXCEPT ![w] = IF kind = "pending" THEN i ELSE NoItem]
    /\ item' = [item EXCEPT ![w] = IF kind = "item" THEN i ELSE @]
    /\ UNCHANGED <<out, results, waiting, settled>>

(* Taking an item moves its places and the queue's, and loses none that is *)
(* not dropped.                                                            *)
LEMMA TakesPlaces ==
  ASSUME TypeOK, Hands, NEW w \in Workers, NEW kind \in {"item", "pending", "dropped"},
         Takes(w, kind), NEW t \in Tests
  PROVE  /\ \A s \in Copies(t)' : \E r \in Copies(t) : s = Taken(w, kind, r)
         /\ kind # "dropped" => \A r \in Copies(t) : Taken(w, kind, r) \in Copies(t)'
<1>1. PICK i \in {pending[w]} \cup Range(queue) :
        /\ Receive(w, i)
        /\ pending' = [pending EXCEPT ![w] = IF kind = "pending" THEN i ELSE NoItem]
        /\ item' = [item EXCEPT ![w] = IF kind = "item" THEN i ELSE @]
        /\ UNCHANGED <<out, results, waiting>>
  BY DEF Takes
<1>2. /\ item[w].work = <<>> /\ pc[w] = "recv"
      /\ pending \in [Workers -> Item] /\ item \in [Workers -> Item] /\ queue \in Seq(Item)
  BY <1>1 DEF Hands, TypeOK, Receive
<1>3. NoItem.work = <<>> /\ DOMAIN <<>> = {} /\ DOMAIN NoItem.work = {}
  BY DEF NoItem
<1>8. \/ pending[w] # NoItem /\ i = pending[w] /\ queue' = queue
      \/ /\ pending[w] = NoItem /\ i = queue[1] /\ 1 \in DOMAIN queue
         /\ \A k : k \in DOMAIN queue' <=> k \in Nat /\ k # 0 /\ k + 1 \in DOMAIN queue
         /\ \A k \in DOMAIN queue' : queue'[k] = queue[k + 1]
         /\ \A k \in DOMAIN queue : k # 1 => k - 1 \in DOMAIN queue' /\ queue'[k - 1] = queue[k]
  BY <1>1, ReceiveIs
<1>9. /\ pending'[w] = (IF kind = "pending" THEN i ELSE NoItem)
      /\ item'[w] = (IF kind = "item" THEN i ELSE item[w])
      /\ \A v \in Workers : v # w => pending'[v] = pending[v] /\ item'[v] = item[v]
  BY <1>1, <1>2
<1>4. ASSUME NEW s \in Copies(t)' PROVE \E r \in Copies(t) : s = Taken(w, kind, r)
  <2>1. CASE s \in Queued(t)'
    <3>1. PICK k, j : /\ k \in DOMAIN queue' /\ j \in DOMAIN queue'[k].work
                      /\ s = <<"queue", 0, k, j>> /\ queue'[k].work[j].test = t
      BY <2>1, PlacesAreNext
    <3>2. CASE pending[w] # NoItem
      <4>1. s \in Queued(t) /\ Taken(w, kind, s) = s
        BY <1>8, <3>1, <3>2, PlacesAre DEF Taken
      <4> QED BY <4>1 DEF Copies
    <3>3. CASE pending[w] = NoItem
      <4> DEFINE r == <<"queue", 0, k + 1, j>>
      <4>1. r \in Queued(t)
        BY <1>8, <3>1, <3>3, PlacesAre
      <4>2. Taken(w, kind, r) = s
        BY <1>8, <3>1, <3>3 DEF Taken
      <4> QED BY <4>1, <4>2 DEF Copies
    <3> QED BY <3>2, <3>3
  <2>2. CASE s \in Pending(t)'
    <3>1. PICK v, j : /\ v \in Workers /\ j \in DOMAIN pending'[v].work
                      /\ s = <<"pending", v, 0, j>> /\ pending'[v].work[j].test = t
      BY <2>2, PlacesAreNext
    <3>2. CASE v # w
      <4>1. s \in Pending(t) /\ Taken(w, kind, s) = s
        BY <1>9, <3>1, <3>2, PlacesAre DEF Taken
      <4> QED BY <4>1 DEF Copies
    <3>3. CASE v = w /\ pending[w] # NoItem
      <4> DEFINE r == <<"pending", w, 0, j>>
      <4>1. r \in Pending(t) /\ Taken(w, kind, r) = s
        BY <1>9, <1>3, <1>8, <3>1, <3>3, PlacesAre DEF Taken
      <4> QED BY <4>1 DEF Copies
    <3>4. CASE v = w /\ pending[w] = NoItem
      <4> DEFINE r == <<"queue", 0, 1, j>>
      <4>1. r \in Queued(t) /\ Taken(w, kind, r) = s
        BY <1>9, <1>3, <1>8, <3>1, <3>4, PlacesAre DEF Taken
      <4> QED BY <4>1 DEF Copies
    <3> QED BY <3>2, <3>3, <3>4
  <2>3. CASE s \in InHand(t)'
    <3>1. PICK v, j : /\ v \in Workers /\ j \in DOMAIN item'[v].work
                      /\ s = <<"item", v, 0, j>> /\ item'[v].work[j].test = t
      BY <2>3, PlacesAreNext
    <3>2. CASE v # w
      <4>1. s \in InHand(t) /\ Taken(w, kind, s) = s
        BY <1>9, <3>1, <3>2, PlacesAre DEF Taken
      <4> QED BY <4>1 DEF Copies
    <3>3. CASE v = w /\ pending[w] # NoItem
      <4> DEFINE r == <<"pending", w, 0, j>>
      <4>1. r \in Pending(t) /\ Taken(w, kind, r) = s
        BY <1>9, <1>2, <1>3, <1>8, <3>1, <3>3, PlacesAre DEF Taken
      <4> QED BY <4>1 DEF Copies
    <3>4. CASE v = w /\ pending[w] = NoItem
      <4> DEFINE r == <<"queue", 0, 1, j>>
      <4>1. r \in Queued(t) /\ Taken(w, kind, r) = s
        BY <1>9, <1>2, <1>3, <1>8, <3>1, <3>4, PlacesAre DEF Taken
      <4> QED BY <4>1 DEF Copies
    <3> QED BY <3>2, <3>3, <3>4
  <2>4. CASE s \in Unsent(t)' \cup Sent(t)' \cup Waiting(t)'
    <3>1. s \in Unsent(t) \cup Sent(t) \cup Waiting(t)
      BY <2>4, <1>1 DEF Unsent, Sent, Waiting
    <3>2. s[1] \in {"out", "results", "waiting"}
      BY <3>1, PlacesAre
    <3> QED BY <3>1, <3>2 DEF Copies, Taken
  <2> QED BY <2>1, <2>2, <2>3, <2>4 DEF Copies
<1>5. ASSUME kind # "dropped", NEW r \in Copies(t) PROVE Taken(w, kind, r) \in Copies(t)'
  <2> DEFINE s == Taken(w, kind, r)
  <2>0. ASSUME NEW j, j \in DOMAIN i.work, i.work[j].test = t PROVE <<kind, w, 0, j>> \in Copies(t)'
    <3>1. CASE kind = "item"
      <4>1. <<"item", w, 0, j>> \in InHand(t)'
        BY <1>9, <2>0, <3>1, PlacesAreNext
      <4> QED BY <4>1, <3>1 DEF Copies
    <3>2. CASE kind = "pending"
      <4>1. <<"pending", w, 0, j>> \in Pending(t)'
        BY <1>9, <2>0, <3>2, PlacesAreNext
      <4> QED BY <4>1, <3>2 DEF Copies
    <3> QED BY <3>1, <3>2, <1>5
  <2>1. CASE r \in Queued(t)
    <3>1. PICK k, j : /\ k \in DOMAIN queue /\ j \in DOMAIN queue[k].work
                      /\ r = <<"queue", 0, k, j>> /\ queue[k].work[j].test = t
      BY <2>1, PlacesAre
    <3>2. CASE pending[w] # NoItem
      <4>1. r \in Queued(t)' /\ s = r
        BY <1>8, <3>1, <3>2, PlacesAreNext DEF Taken
      <4> QED BY <4>1 DEF Copies
    <3>3. CASE pending[w] = NoItem /\ k = 1
      <4>1. s = <<kind, w, 0, j>> /\ i = queue[k]
        BY <1>8, <3>1, <3>3 DEF Taken
      <4> QED BY <4>1, <3>1, <2>0
    <3>4. CASE pending[w] = NoItem /\ k # 1
      <4>1. s = <<"queue", 0, k - 1, j>>
        BY <3>1, <3>4 DEF Taken
      <4>2. s \in Queued(t)'
        BY <4>1, <1>8, <3>1, <3>4, PlacesAreNext
      <4> QED BY <4>2 DEF Copies
    <3> QED BY <3>2, <3>3, <3>4
  <2>2. CASE r \in Pending(t)
    <3>1. PICK v, j : /\ v \in Workers /\ j \in DOMAIN pending[v].work
                      /\ r = <<"pending", v, 0, j>> /\ pending[v].work[j].test = t
      BY <2>2, PlacesAre
    <3>2. CASE v # w
      <4>1. r \in Pending(t)' /\ s = r
        BY <1>9, <3>1, <3>2, PlacesAreNext DEF Taken
      <4> QED BY <4>1 DEF Copies
    <3>3. CASE v = w
      <4>1. s = <<kind, w, 0, j>> /\ i = pending[w]
        BY <1>3, <1>8, <3>1, <3>3 DEF Taken
      <4> QED BY <4>1, <3>1, <3>3, <2>0
    <3> QED BY <3>2, <3>3
  <2>3. CASE r \in InHand(t)
    <3>1. PICK v, j : /\ v \in Workers /\ j \in DOMAIN item[v].work
                      /\ r = <<"item", v, 0, j>> /\ item[v].work[j].test = t
      BY <2>3, PlacesAre
    <3>2. v # w
      BY <3>1, <1>2, <1>3
    <3>3. r \in InHand(t)' /\ s = r
      BY <1>9, <3>1, <3>2, PlacesAreNext DEF Taken
    <3> QED BY <3>3 DEF Copies
  <2>4. CASE r \in Unsent(t) \cup Sent(t) \cup Waiting(t)
    <3>1. r \in Unsent(t)' \cup Sent(t)' \cup Waiting(t)'
      BY <2>4, <1>1 DEF Unsent, Sent, Waiting
    <3>2. r[1] \in {"out", "results", "waiting"}
      BY <2>4, PlacesAre
    <3> QED BY <3>1, <3>2 DEF Copies, Taken
  <2> QED BY <2>1, <2>2, <2>3, <2>4 DEF Copies
<1> QED BY <1>4, <1>5

(* The first field of a place tells its part.                              *)
LEMMA AtWorkIs ==
  ASSUME NEW t
  PROVE  /\ \A s \in AtWork(t) : s \in Copies(t) /\ s[1] \in {"queue", "pending", "item"}
         /\ \A s \in Copies(t) : s[1] \in {"queue", "pending", "item"} => s \in AtWork(t)
         /\ \A s \in AtWork(t)' : s \in Copies(t)' /\ s[1] \in {"queue", "pending", "item"}
         /\ \A s \in Copies(t)' : s[1] \in {"queue", "pending", "item"} => s \in AtWork(t)'
BY PlacesAre, PlacesAreNext DEF AtWork, Copies

(* Rest only asks for more verdicts as they come.                          *)
LEMMA RestGrows ==
  ASSUME NEW B, NEW C, B \subseteq C
  PROVE  /\ \A i : RestItem(B, i) => RestItem(C, i)
         /\ \A r : RestResult(B, r) => RestResult(C, r)
BY DEF RestItem, RestResult, Rest

(* NoItem has no work.                                                     *)
LEMMA NothingToDo ==
  /\ Due(history, NoItem.work) /\ (\A B : RestItem(B, NoItem))
  /\ DOMAIN NoItem.work = {} /\ NoItem.work = <<>>
BY DEF Due, RestItem, NoItem

(* Taking an item moves places and keeps what is known of it.              *)
LEMMA TakesKeeps ==
  ASSUME IInv, Ledger, NEW w \in Workers, NEW kind \in {"item", "pending", "dropped"},
         Takes(w, kind), UNCHANGED history, MayLose => MayLose',
         kind = "dropped" => MayLose'
  PROVE  Once' /\ Kept' /\ Attempts' /\ Ordered' /\ Alone'
<1>1. PICK i \in {pending[w]} \cup Range(queue) :
        /\ Receive(w, i)
        /\ pending' = [pending EXCEPT ![w] = IF kind = "pending" THEN i ELSE NoItem]
        /\ item' = [item EXCEPT ![w] = IF kind = "item" THEN i ELSE @]
        /\ UNCHANGED <<out, results, waiting, settled>>
  BY DEF Takes
<1>2. /\ pending \in [Workers -> Item] /\ item \in [Workers -> Item] /\ TypeOK /\ Hands
  BY DEF IInv, TypeOK, Ledger
<1>3. /\ i = pending[w] \/ (1 \in DOMAIN queue /\ i = queue[1])
      /\ \A k \in DOMAIN queue' :
           \/ k \in DOMAIN queue /\ queue'[k] = queue[k]
           \/ k + 1 \in DOMAIN queue /\ queue'[k] = queue[k + 1]
  <2>1. \/ i = pending[w] /\ queue' = queue
        \/ /\ i = queue[1] /\ 1 \in DOMAIN queue
           /\ \A k : k \in DOMAIN queue' <=> k \in Nat /\ k # 0 /\ k + 1 \in DOMAIN queue
           /\ \A k \in DOMAIN queue' : queue'[k] = queue[k + 1]
    BY <1>1, <1>2, ReceiveIs
  <2> QED BY <2>1
<1>0. /\ pending'[w] \in {i, NoItem} /\ item'[w] \in {i, item[w]}
      /\ \A v \in Workers : v # w => pending'[v] = pending[v] /\ item'[v] = item[v]
  BY <1>1, <1>2
<1>4. Once'
  <2> SUFFICES ASSUME NEW t \in Tests
               PROVE  /\ \A r, s \in Copies(t)' : r = s
                      /\ t \in settled => Copies(t)' = {}
    BY <1>1 DEF Once
  <2>1. \A s \in Copies(t)' : \E r \in Copies(t) : s = Taken(w, kind, r)
    BY <1>2, TakesPlaces
  <2> QED BY <2>1 DEF Ledger, Once
<1>5. Kept'
  <2> SUFFICES ASSUME NEW t \in Tests, ~MayLose', t \notin settled PROVE Copies(t)' # {}
    BY <1>1 DEF Kept
  <2>1. Copies(t) # {} /\ kind # "dropped"
    BY DEF Ledger, Kept
  <2>2. \A r \in Copies(t) : Taken(w, kind, r) \in Copies(t)'
    BY <2>1, <1>2, TakesPlaces
  <2> QED BY <2>1, <2>2
<1>6. Attempts'
  <2>1. Due(history, i.work)
    BY <1>3 DEF Ledger, Attempts
  <2>2. \A k \in DOMAIN queue' : Due(history, queue'[k].work)
    BY <1>3 DEF Ledger, Attempts
  <2>3. \A v \in Workers : Due(history, pending'[v].work) /\ Due(history, item'[v].work)
    BY <1>0, <2>1, NothingToDo DEF Ledger, Attempts
  <2> QED BY <1>1, <2>2, <2>3 DEF Ledger, Attempts
<1>7. Ordered'
  <2>0. Behind' = Behind
    BY <1>1 DEF Behind, ResultsInFlight
  <2>1. RestItem(Behind, i)
    BY <1>3 DEF Ledger, Ordered
  <2>2. \A k \in DOMAIN queue' : RestItem(Behind, queue'[k])
    BY <1>3 DEF Ledger, Ordered
  <2>3. \A v \in Workers : RestItem(Behind, pending'[v]) /\ RestItem(Behind, item'[v])
    BY <1>0, <2>1, NothingToDo DEF Ledger, Ordered
  <2> QED BY <1>1, <2>0, <2>2, <2>3 DEF Ledger, Ordered
<1>8. Alone'
  <2> SUFFICES ASSUME Isolated, NEW t \in Tests, history[t] # <<>>, NEW r \in AtWork(t)',
                      NEW u \in Tests, NEW s \in AtWork(u)'
               PROVE  SamePlace(r, s)
    BY DEF Alone
  <2>1. PICK r0 \in Copies(t) : r = Taken(w, kind, r0)
    BY <1>2, TakesPlaces, AtWorkIs
  <2>2. PICK s0 \in Copies(u) : s = Taken(w, kind, s0)
    BY <1>2, TakesPlaces, AtWorkIs
  <2>3. r[1] \in {"queue", "pending", "item"} /\ s[1] \in {"queue", "pending", "item"}
    BY AtWorkIs
  <2>4. r0[1] \in {"queue", "pending", "item"} /\ s0[1] \in {"queue", "pending", "item"}
    BY <2>1, <2>2, <2>3 DEF Taken
  <2>5. r0 \in AtWork(t) /\ s0 \in AtWork(u)
    BY <2>4, AtWorkIs
  <2>6. SamePlace(r0, s0)
    BY <2>5 DEF Ledger, Alone
  <2> QED BY <2>1, <2>2, <2>6 DEF SamePlace, Taken
<1> QED BY <1>4, <1>5, <1>6, <1>7, <1>8

(* A step that leaves every queue, hand and channel alone.                 *)
LEMMA NothingMoves ==
  ASSUME IInv, Ledger, UNCHANGED <<queue, pending, out, results, waiting, settled, history>>,
         \A w \in Workers : item'[w] = item[w] \/ (item[w].work = <<>> /\ item'[w] = NoItem),
         MayLose => MayLose'
  PROVE  Once' /\ Kept' /\ Attempts' /\ Ordered' /\ Alone'
<1>0. \A t \in Tests : InHand(t)' = InHand(t)
  <2> TAKE t \in Tests
  <2>1. \A w \in Workers : item'[w].work = item[w].work
    BY NothingToDo
  <2> QED BY <2>1 DEF InHand, Places
<1>1. \A t \in Tests : Copies(t)' = Copies(t) /\ AtWork(t)' = AtWork(t)
  BY <1>0 DEF Copies, AtWork, Queued, Pending, Unsent, Sent, Waiting
<1>2. Once' BY <1>1 DEF Ledger, Once
<1>3. Kept' BY <1>1 DEF Ledger, Kept
<1>4. Attempts'
  <2>1. \A w \in Workers : Due(history, item'[w].work)
    BY NothingToDo DEF Ledger, Attempts
  <2> QED BY <2>1 DEF Ledger, Attempts
<1>5. Ordered'
  <2>0. Behind' = Behind
    BY DEF Behind, ResultsInFlight
  <2>1. \A w \in Workers : RestItem(Behind, item'[w])
    BY NothingToDo DEF Ledger, Ordered
  <2> QED BY <2>0, <2>1 DEF Ledger, Ordered
<1>6. Alone' BY <1>1 DEF Ledger, Alone
<1> QED BY <1>2, <1>3, <1>4, <1>5, <1>6

(* A worker that ends drops the item it kept, if it kept one.              *)
LEMMA Forgets ==
  ASSUME IInv, Ledger, NEW w \in Workers, pending' = [pending EXCEPT ![w] = NoItem],
         UNCHANGED <<queue, item, out, results, waiting, settled, history>>,
         MayLose => MayLose', pending[w] = NoItem \/ MayLose'
  PROVE  Once' /\ Kept' /\ Attempts' /\ Ordered' /\ Alone'
<1>0. \A v \in Workers : pending'[v] = pending[v] \/ pending'[v] = NoItem
  BY DEF IInv, TypeOK
<1>1. ASSUME NEW t \in Tests PROVE Pending(t)' \subseteq Pending(t)
  <2> SUFFICES ASSUME NEW s \in Pending(t)' PROVE s \in Pending(t)
    OBVIOUS
  <2>1. PICK v, j : /\ v \in Workers /\ j \in DOMAIN pending'[v].work
                    /\ s = <<"pending", v, 0, j>> /\ pending'[v].work[j].test = t
    BY PlacesAreNext
  <2>2. pending'[v] = pending[v]
    BY <1>0, <2>1, NothingToDo
  <2> QED BY <2>1, <2>2, PlacesAre
<1>2. \A t \in Tests : Copies(t)' \subseteq Copies(t) /\ AtWork(t)' \subseteq AtWork(t)
  BY <1>1 DEF Copies, AtWork, Queued, InHand, Unsent, Sent, Waiting
<1>3. pending[w] = NoItem => pending' = pending
  BY DEF IInv, TypeOK
<1>4. \A t \in Tests : MayLose' \/ Copies(t)' = Copies(t)
  BY <1>3 DEF Copies, Queued, Pending, InHand, Unsent, Sent, Waiting
<1>5. Once' BY <1>2 DEF Ledger, Once
<1>6. Kept' BY <1>4 DEF Ledger, Kept
<1>7. Attempts'
  <2>1. \A v \in Workers : Due(history, pending'[v].work)
    BY <1>0, NothingToDo DEF Ledger, Attempts
  <2> QED BY <2>1 DEF Ledger, Attempts
<1>8. Ordered'
  <2>0. Behind' = Behind
    BY DEF Behind, ResultsInFlight
  <2>1. \A v \in Workers : RestItem(Behind, pending'[v])
    BY <1>0, NothingToDo DEF Ledger, Ordered
  <2> QED BY <2>0, <2>1 DEF Ledger, Ordered
<1>9. Alone'
  <2> SUFFICES ASSUME Isolated, NEW t \in Tests, history[t] # <<>>, NEW r \in AtWork(t)',
                      NEW u \in Tests, NEW s \in AtWork(u)'
               PROVE  SamePlace(r, s)
    BY DEF Alone
  <2>1. r \in AtWork(t) /\ s \in AtWork(u)
    BY <1>2
  <2> QED BY <2>1 DEF Ledger, Alone
<1> QED BY <1>5, <1>6, <1>7, <1>8, <1>9

(* A failed worker takes no step, and a hard stop is not taken back.       *)
LEMMA StaysLossy ==
  ASSUME IInv, [Next]_vars
  PROVE  MayLose => MayLose'
<1> SUFFICES ASSUME MayLose PROVE MayLose'
  OBVIOUS
<1>1. stopped => stopped'
  BY DEF Next, WorkerStep, Drained, DropItem, HandOver, PickUp, Acquired, RunTest, Send, EndTurn,
         CleanUp, CleanUpFails, Collect, RequestStop, SeeStop, Finish, Terminated,
         vars, dispatcherVars
<1>2. ASSUME NEW v \in Workers, pc[v] = "failed" PROVE pc'[v] = "failed"
  <2>1. ASSUME NEW w \in Workers, WorkerStep(w) PROVE pc'[v] = "failed"
    <3>1. CASE v = w
      BY <1>2, <2>1, <3>1 DEF WorkerStep, Drained, DropItem, HandOver, PickUp, Receive, Acquired,
                              RunTest, Send, EndTurn, CleanUp, CleanUpFails
    <3>2. CASE v # w
      <4>0. pc \in [Workers -> {"recv", "lock", "run", "send", "yield", "cleanup", "done", "failed"}]
        BY DEF IInv, TypeOK
      <4>1. \E x : pc' = [pc EXCEPT ![w] = x]
        BY <2>1 DEF WorkerStep, Drained, DropItem, HandOver, PickUp, Receive, Acquired,
                              RunTest, Send, EndTurn, CleanUp, CleanUpFails
      <4> QED BY <1>2, <3>2, <4>0, <4>1
    <3> QED BY <3>1, <3>2
  <2>2. CASE UNCHANGED pc
    BY <1>2, <2>2
  <2> QED BY <2>1, <2>2 DEF Next, Collect, RequestStop, SeeStop, Finish, Terminated,
                            vars, workerVars
<1> QED BY <1>1, <1>2 DEF MayLose

(* Each step keeps the rest of the invariant too, one lemma per action.    *)
LEMMA DrainedKeeps ==
  ASSUME IInv, Ledger, MayLose => MayLose', NEW w \in Workers, Drained(w) PROVE Ledger'
<1> USE DEF Drained, dispatcherVars, collectVars
<1>1. Once' /\ Kept' /\ Attempts' /\ Ordered' /\ Alone'
  BY NothingMoves
<1>2. pc \in [Workers -> {"recv", "lock", "run", "send", "yield", "cleanup", "done", "failed"}]
  BY DEF IInv, TypeOK
<1>3. Hands' BY <1>2 DEF Ledger, Hands
<1>4. Counted' BY DEF Ledger, Counted
<1>5. Reasons' BY <1>2 DEF Ledger, Reasons
<1> QED BY <1>1, <1>3, <1>4, <1>5 DEF Ledger

(* A hard stop drops what was received: the run may lose work from then    *)
(* on.                                                                     *)
LEMMA DropItemKeeps ==
  ASSUME IInv, Ledger, MayLose => MayLose', NEW w \in Workers, DropItem(w) PROVE Ledger'
<1> USE DEF DropItem, collectVars
<1>0. /\ pc \in [Workers -> {"recv", "lock", "run", "send", "yield", "cleanup", "done", "failed"}]
      /\ pending \in [Workers -> Item] /\ item \in [Workers -> Item]
  BY DEF IInv, TypeOK
<1>1. Takes(w, "dropped")
  <2>1. PICK i \in {pending[w]} \cup Range(queue) : Receive(w, i)
    OBVIOUS
  <2>2. item' = [item EXCEPT ![w] = IF "dropped" = "item" THEN i ELSE @]
    BY <1>0
  <2>3. pending' = [pending EXCEPT ![w] = IF "dropped" = "pending" THEN i ELSE NoItem]
    OBVIOUS
  <2> QED BY <2>1, <2>2, <2>3 DEF Takes
<1>2. MayLose'
  BY DEF MayLose
<1>3. Once' /\ Kept' /\ Attempts' /\ Ordered' /\ Alone'
  BY <1>1, <1>2, TakesKeeps
<1>4. Hands' BY <1>0 DEF Ledger, Hands, Receive
<1>5. Counted' BY DEF Ledger, Counted
<1>6. Reasons' BY <1>0 DEF Ledger, Reasons
<1> QED BY <1>3, <1>4, <1>5, <1>6 DEF Ledger

(* An item of another repetition stays with the worker.                    *)
LEMMA HandOverKeeps ==
  ASSUME IInv, Ledger, MayLose => MayLose', NEW w \in Workers, HandOver(w) PROVE Ledger'
<1> USE DEF HandOver, collectVars
<1>0. /\ pc \in [Workers -> {"recv", "lock", "run", "send", "yield", "cleanup", "done", "failed"}]
      /\ pending \in [Workers -> Item] /\ item \in [Workers -> Item]
  BY DEF IInv, TypeOK
<1>1. PICK i \in {pending[w]} \cup Range(queue) : Receive(w, i) /\ pending' = [pending EXCEPT ![w] = i]
  OBVIOUS
<1>2. Takes(w, "pending")
  <2>1. item' = [item EXCEPT ![w] = IF "pending" = "item" THEN i ELSE @]
    BY <1>0
  <2> QED BY <1>1, <2>1 DEF Takes
<1>3. Once' /\ Kept' /\ Attempts' /\ Ordered' /\ Alone'
  BY <1>2, TakesKeeps
<1>4. i # NoItem
  <2>1. i.work # <<>>
    BY <1>1, ReceiveInv
  <2> QED BY <2>1, NothingToDo
<1>5. Hands' BY <1>0 DEF Ledger, Hands, Receive
<1>6. Counted' BY DEF Ledger, Counted
<1>7. Reasons' BY <1>0, <1>1, <1>4 DEF Ledger, Reasons
<1> QED BY <1>3, <1>5, <1>6, <1>7 DEF Ledger

(* An item picked up is in the worker's hands.                             *)
LEMMA PickUpKeeps ==
  ASSUME IInv, Ledger, MayLose => MayLose', NEW w \in Workers, PickUp(w) PROVE Ledger'
<1> USE DEF PickUp, collectVars
<1>0. /\ pc \in [Workers -> {"recv", "lock", "run", "send", "yield", "cleanup", "done", "failed"}]
      /\ pending \in [Workers -> Item] /\ item \in [Workers -> Item]
  BY DEF IInv, TypeOK
<1>1. PICK i \in {pending[w]} \cup Range(queue) : Receive(w, i) /\ item' = [item EXCEPT ![w] = i]
  OBVIOUS
<1>2. Takes(w, "item")
  <2>1. pending' = [pending EXCEPT ![w] = IF "item" = "pending" THEN i ELSE NoItem]
    OBVIOUS
  <2>2. item' = [item EXCEPT ![w] = IF "item" = "item" THEN i ELSE @]
    BY <1>1
  <2> QED BY <1>1, <2>1, <2>2 DEF Takes
<1>3. Once' /\ Kept' /\ Attempts' /\ Ordered' /\ Alone'
  BY <1>2, TakesKeeps
<1>4. Hands' BY <1>0, <1>1 DEF Ledger, Hands, Receive
<1>5. Counted' BY DEF Ledger, Counted
<1>6. Reasons' BY <1>0 DEF Ledger, Reasons
<1> QED BY <1>3, <1>4, <1>5, <1>6 DEF Ledger

(* Its locks are its own affair.                                           *)
LEMMA AcquiredKeeps ==
  ASSUME IInv, Ledger, MayLose => MayLose', NEW w \in Workers, Acquired(w) PROVE Ledger'
<1> USE DEF Acquired, dispatcherVars, collectVars
<1>1. Once' /\ Kept' /\ Attempts' /\ Ordered' /\ Alone'
  BY NothingMoves
<1>2. pc \in [Workers -> {"recv", "lock", "run", "send", "yield", "cleanup", "done", "failed"}]
  BY DEF IInv, TypeOK
<1>3. Hands' BY <1>2 DEF Ledger, Hands
<1>4. Counted' BY DEF Ledger, Counted
<1>5. Reasons' BY <1>2 DEF Ledger, Reasons
<1> QED BY <1>1, <1>3, <1>4, <1>5 DEF Ledger

(* A turn ends with nothing in hand.                                       *)
LEMMA EndTurnKeeps ==
  ASSUME IInv, Ledger, MayLose => MayLose', NEW w \in Workers, EndTurn(w) PROVE Ledger'
<1> USE DEF EndTurn, dispatcherVars, collectVars
<1>0. /\ pc \in [Workers -> {"recv", "lock", "run", "send", "yield", "cleanup", "done", "failed"}]
      /\ item \in [Workers -> Item]
  BY DEF IInv, TypeOK
<1>1. Once' /\ Kept' /\ Attempts' /\ Ordered' /\ Alone'
  <2>1. item[w].work = <<>>
    BY DEF Ledger, Hands
  <2>2. \A v \in Workers : item'[v] = item[v] \/ (item[v].work = <<>> /\ item'[v] = NoItem)
    BY <1>0, <2>1
  <2> QED BY <2>2, NothingMoves
<1>3. Hands' BY <1>0, NothingToDo DEF Ledger, Hands
<1>4. Counted' BY DEF Ledger, Counted
<1>5. Reasons' BY <1>0 DEF Ledger, Reasons
<1> QED BY <1>1, <1>3, <1>4, <1>5 DEF Ledger

(* A slot ends when nothing is kept, or after a hard stop.                 *)
LEMMA CleanUpKeeps ==
  ASSUME IInv, Ledger, MayLose => MayLose', NEW w \in Workers, CleanUp(w) PROVE Ledger'
<1> USE DEF dispatcherVars, collectVars
<1>0. /\ pc \in [Workers -> {"recv", "lock", "run", "send", "yield", "cleanup", "done", "failed"}]
      /\ pending \in [Workers -> Item] /\ pc[w] = "cleanup"
  BY DEF IInv, TypeOK, CleanUp
<1>1. CASE pending[w] = NoItem \/ stopped
  <2>1. /\ pc' = [pc EXCEPT ![w] = "done"]
        /\ pending' = [pending EXCEPT ![w] = NoItem]
        /\ UNCHANGED <<dispatcherVars, item, out, collectVars, results, stopRequested>>
    BY <1>1 DEF CleanUp
  <2>2. pending[w] = NoItem \/ MayLose'
    BY <1>1, <2>1 DEF MayLose
  <2>3. Once' /\ Kept' /\ Attempts' /\ Ordered' /\ Alone'
    BY <2>1, <2>2, Forgets
  <2>4. Hands' BY <1>0, <2>1 DEF Ledger, Hands
  <2>5. Counted' BY <2>1 DEF Ledger, Counted
  <2>6. Reasons' BY <1>0, <1>1, <2>1 DEF Ledger, Reasons
  <2> QED BY <2>3, <2>4, <2>5, <2>6 DEF Ledger
<1>2. CASE ~(pending[w] = NoItem \/ stopped)
  <2>1. /\ pc' = [pc EXCEPT ![w] = "recv"]
        /\ UNCHANGED <<dispatcherVars, item, out, pending, collectVars, results, stopRequested>>
    BY <1>2 DEF CleanUp
  <2>3. Once' /\ Kept' /\ Attempts' /\ Ordered' /\ Alone'
    BY <2>1, NothingMoves
  <2>4. Hands' BY <1>0, <2>1 DEF Ledger, Hands
  <2>5. Counted' BY <2>1 DEF Ledger, Counted
  <2>6. Reasons' BY <1>0, <2>1 DEF Ledger, Reasons
  <2> QED BY <2>3, <2>4, <2>5, <2>6 DEF Ledger
<1> QED BY <1>1, <1>2

(* A worker that fails may lose what it kept.                              *)
LEMMA CleanUpFailsKeeps ==
  ASSUME IInv, Ledger, MayLose => MayLose', NEW w \in Workers, CleanUpFails(w) PROVE Ledger'
<1> USE DEF CleanUpFails, dispatcherVars, collectVars
<1>0. /\ pc \in [Workers -> {"recv", "lock", "run", "send", "yield", "cleanup", "done", "failed"}]
      /\ pending \in [Workers -> Item]
  BY DEF IInv, TypeOK
<1>1. MayLose'
  BY <1>0 DEF MayLose
<1>2. Once' /\ Kept' /\ Attempts' /\ Ordered' /\ Alone'
  BY <1>1, Forgets
<1>3. Hands' BY <1>0 DEF Ledger, Hands
<1>4. Counted' BY DEF Ledger, Counted
<1>5. Reasons' BY <1>0 DEF Ledger, Reasons
<1> QED BY <1>2, <1>3, <1>4, <1>5 DEF Ledger

(* A stop is requested, or heard of.                                       *)
LEMMA StopKeeps ==
  ASSUME IInv, Ledger, MayLose => MayLose', RequestStop \/ SeeStop PROVE Ledger'
<1> USE DEF RequestStop, SeeStop, dispatcherVars, workerVars, collectVars
<1>1. Once' /\ Kept' /\ Attempts' /\ Ordered' /\ Alone'
  BY NothingMoves
<1>3. Hands' BY DEF Ledger, Hands
<1>4. Counted' BY DEF Ledger, Counted
<1>5. Reasons' BY DEF Ledger, Reasons
<1> QED BY <1>1, <1>3, <1>4, <1>5 DEF Ledger

(* The summary counts, and changes, nothing of this.                       *)
LEMMA FinishKeeps ==
  ASSUME IInv, Ledger, MayLose => MayLose', Finish \/ UNCHANGED vars PROVE Ledger'
<1> USE DEF Finish, vars, dispatcherVars, workerVars, collectVars
<1>1. Once' /\ Kept' /\ Attempts' /\ Ordered' /\ Alone'
  BY NothingMoves
<1>3. Hands' BY DEF Ledger, Hands
<1>4. Counted' BY DEF Ledger, Counted
<1>5. Reasons' BY DEF Ledger, Reasons
<1> QED BY <1>1, <1>3, <1>4, <1>5 DEF Ledger

(* What Send does, place by place.                                         *)
LEMMA SendIs ==
  ASSUME IInv, NEW w \in Workers, Send(w)
  PROVE  /\ pc[w] = "send" /\ out[w] \in Seq(Result) /\ results \in Seq(Result)
         /\ 1 \in DOMAIN out[w] /\ Len(results) \in Nat
         /\ DOMAIN results = 1..Len(results) /\ DOMAIN results' = 1..(Len(results) + 1)
         /\ \A k \in DOMAIN results : results'[k] = results[k]
         /\ results'[Len(results) + 1] = out[w][1]
         /\ \A k : k \in DOMAIN out'[w] <=> k \in Nat /\ k # 0 /\ k + 1 \in DOMAIN out[w]
         /\ \A k \in DOMAIN out'[w] : out'[w][k] = out[w][k + 1]
         /\ \A k \in DOMAIN out[w] : k # 1 => k - 1 \in DOMAIN out'[w] /\ out'[w][k - 1] = out[w][k]
         /\ \A v \in Workers : v # w => out'[v] = out[v] /\ pc'[v] = pc[v]
         /\ pc'[w] = (IF out'[w] = <<>> THEN "yield" ELSE "send")
         /\ UNCHANGED <<queue, pending, item, waiting, settled, history>>
<1>1. /\ out[w] \in Seq(Result) /\ out[w] # <<>> /\ results \in Seq(Result) /\ pc[w] = "send"
      /\ out \in [Workers -> Seq(Result)]
      /\ pc \in [Workers -> {"recv", "lock", "run", "send", "yield", "cleanup", "done", "failed"}]
  BY DEF IInv, TypeOK, NoneEmpty, Send
<1>2. /\ results' = Append(results, Head(out[w])) /\ out'[w] = Tail(out[w])
      /\ \A v \in Workers : v # w => out'[v] = out[v] /\ pc'[v] = pc[v]
      /\ pc'[w] = IF Len(out[w]) = 1 THEN "yield" ELSE "send"
      /\ UNCHANGED <<queue, pending, item, waiting, settled, history>>
  BY <1>1 DEF Send, dispatcherVars, collectVars
<1>3. Tail(out[w]) = <<>> <=> Len(out[w]) = 1
  <2>1. /\ Len(Tail(out[w])) = Len(out[w]) - 1 /\ Len(out[w]) \in Nat /\ Tail(out[w]) \in Seq(Result)
    BY <1>1, HeadTailProperties
  <2> DEFINE s == Tail(out[w])
             n == Len(out[w])
  <2>2. Len(s) = n - 1 /\ n \in Nat /\ s \in Seq(Result)
    BY <2>1
  <2>3. s = <<>> <=> Len(s) = 0
    <3> HIDE DEF s
    <3> QED BY <2>2, EmptySeq
  <2> HIDE DEF s, n
  <2>4. s = <<>> <=> n = 1
    BY <2>2, <2>3
  <2> QED BY <2>4 DEF s, n
<1>4. /\ 1 \in DOMAIN out[w] /\ Head(out[w]) = out[w][1] /\ Head(out[w]) \in Result
      /\ \A k : k \in DOMAIN Tail(out[w]) <=> k \in Nat /\ k # 0 /\ k + 1 \in DOMAIN out[w]
      /\ \A k \in DOMAIN Tail(out[w]) : Tail(out[w])[k] = out[w][k + 1]
      /\ \A k \in DOMAIN out[w] : k # 1 => k - 1 \in DOMAIN Tail(out[w]) /\ Tail(out[w])[k - 1] = out[w][k]
  BY <1>1
<1>5. /\ Len(results) \in Nat /\ DOMAIN results = 1..Len(results)
      /\ DOMAIN results' = 1..(Len(results) + 1)
      /\ \A k \in DOMAIN results : results'[k] = results[k]
      /\ results'[Len(results) + 1] = out[w][1]
  <2> DEFINE r == Head(out[w])
  <2>1. r \in Result /\ results' = Append(results, r) /\ r = out[w][1]
    BY <1>2, <1>4
  <2> HIDE DEF r
  <2> QED BY <1>1, <2>1, AppendProperties, LenProperties
<1> QED BY <1>1, <1>2, <1>3, <1>4, <1>5

(* A result that is sent takes the places it carries along.                *)
Shipped(w, r) ==
  IF r[1] = "out" /\ r[2] = w
    THEN IF r[3] = 1 THEN <<"results", 0, Len(results) + 1, r[4]>> ELSE <<"out", w, r[3] - 1, r[4]>>
  ELSE r

(* Sending moves places and loses none.                                    *)
LEMMA SendPlaces ==
  ASSUME IInv, NEW w \in Workers, Send(w), NEW t \in Tests
  PROVE  /\ \A s \in Copies(t)' : \E r \in Copies(t) : s = Shipped(w, r)
         /\ \A r \in Copies(t) : Shipped(w, r) \in Copies(t)'
<1>1. ASSUME NEW s \in Copies(t)' PROVE \E r \in Copies(t) : s = Shipped(w, r)
  <2>1. CASE s \in Unsent(t)'
    <3>1. PICK v, k, j : /\ v \in Workers /\ k \in DOMAIN out'[v] /\ j \in DOMAIN Carried(out'[v][k])
                         /\ s = <<"out", v, k, j>> /\ Carried(out'[v][k])[j].test = t
      BY <2>1, PlacesAreNext
    <3>2. CASE v # w
      <4>1. s \in Unsent(t) /\ Shipped(w, s) = s
        BY SendIs, <3>1, <3>2, PlacesAre DEF Shipped
      <4> QED BY <4>1 DEF Copies
    <3>3. CASE v = w
      <4> DEFINE r == <<"out", w, k + 1, j>>
      <4>0. k \in Nat /\ k # 0 /\ k + 1 \in DOMAIN out[w] /\ out'[w][k] = out[w][k + 1]
        BY SendIs, <3>1, <3>3
      <4>1. r \in Unsent(t)
        BY <4>0, <3>1, <3>3, PlacesAre
      <4>2. Shipped(w, r) = s
        BY <4>0, <3>1, <3>3 DEF Shipped
      <4> QED BY <4>1, <4>2 DEF Copies
    <3> QED BY <3>2, <3>3
  <2>2. CASE s \in Sent(t)'
    <3>1. PICK k, j : /\ k \in DOMAIN results' /\ j \in DOMAIN Carried(results'[k])
                      /\ s = <<"results", 0, k, j>> /\ Carried(results'[k])[j].test = t
      BY <2>2, PlacesAreNext
    <3>0. Len(results) \in Nat /\ k \in 1..(Len(results) + 1) /\ DOMAIN results = 1..Len(results)
      BY SendIs, <3>1
    <3>2. CASE k \in DOMAIN results
      <4>1. results'[k] = results[k]
        BY SendIs, <3>2
      <4>2. s \in Sent(t) /\ Shipped(w, s) = s
        BY <4>1, <3>1, <3>2, PlacesAre DEF Shipped
      <4> QED BY <4>2 DEF Copies
    <3>3. CASE k = Len(results) + 1
      <4> DEFINE r == <<"out", w, 1, j>>
      <4>0. 1 \in DOMAIN out[w] /\ results'[k] = out[w][1]
        BY SendIs, <3>3
      <4>1. r \in Unsent(t)
        BY <4>0, <3>1, PlacesAre
      <4>2. Shipped(w, r) = s
        BY <3>1, <3>3 DEF Shipped
      <4> QED BY <4>1, <4>2 DEF Copies
    <3> QED BY <3>0, <3>2, <3>3
  <2>3. CASE s \in Queued(t)' \cup Pending(t)' \cup InHand(t)' \cup Waiting(t)'
    <3>1. s \in Queued(t) \cup Pending(t) \cup InHand(t) \cup Waiting(t)
      BY <2>3, SendIs DEF Queued, Pending, InHand, Waiting
    <3>2. s[1] \in {"queue", "pending", "item", "waiting"}
      BY <3>1, PlacesAre
    <3> QED BY <3>1, <3>2 DEF Copies, Shipped
  <2> QED BY <2>1, <2>2, <2>3 DEF Copies
<1>2. ASSUME NEW r \in Copies(t) PROVE Shipped(w, r) \in Copies(t)'
  <2>1. CASE r \in Unsent(t)
    <3>1. PICK v, k, j : /\ v \in Workers /\ k \in DOMAIN out[v] /\ j \in DOMAIN Carried(out[v][k])
                         /\ r = <<"out", v, k, j>> /\ Carried(out[v][k])[j].test = t
      BY <2>1, PlacesAre
    <3>2. CASE v # w
      <4>1. r \in Unsent(t)' /\ Shipped(w, r) = r
        BY SendIs, <3>1, <3>2, PlacesAreNext DEF Shipped
      <4> QED BY <4>1 DEF Copies
    <3>3. CASE v = w /\ k = 1
      <4>0. Len(results) + 1 \in DOMAIN results' /\ results'[Len(results) + 1] = out[w][k]
        BY SendIs, <3>3
      <4>1. Shipped(w, r) = <<"results", 0, Len(results) + 1, j>>
        BY <3>1, <3>3 DEF Shipped
      <4>2. Shipped(w, r) \in Sent(t)'
        BY <4>0, <4>1, <3>1, <3>3, PlacesAreNext
      <4> QED BY <4>2 DEF Copies
    <3>4. CASE v = w /\ k # 1
      <4>0. k - 1 \in DOMAIN out'[w] /\ out'[w][k - 1] = out[w][k]
        BY SendIs, <3>1, <3>4
      <4>1. Shipped(w, r) = <<"out", w, k - 1, j>>
        BY <3>1, <3>4 DEF Shipped
      <4>2. Shipped(w, r) \in Unsent(t)'
        BY <4>0, <4>1, <3>1, <3>4, PlacesAreNext
      <4> QED BY <4>2 DEF Copies
    <3> QED BY <3>2, <3>3, <3>4
  <2>2. CASE r \in Sent(t)
    <3>1. PICK k, j : /\ k \in DOMAIN results /\ j \in DOMAIN Carried(results[k])
                      /\ r = <<"results", 0, k, j>> /\ Carried(results[k])[j].test = t
      BY <2>2, PlacesAre
    <3>2. k \in DOMAIN results' /\ results'[k] = results[k]
      BY SendIs, <3>1
    <3>3. r \in Sent(t)' /\ Shipped(w, r) = r
      BY <3>1, <3>2, PlacesAreNext DEF Shipped
    <3> QED BY <3>3 DEF Copies
  <2>3. CASE r \in Queued(t) \cup Pending(t) \cup InHand(t) \cup Waiting(t)
    <3>1. r \in Queued(t)' \cup Pending(t)' \cup InHand(t)' \cup Waiting(t)'
      BY <2>3, SendIs DEF Queued, Pending, InHand, Waiting
    <3>2. r[1] \in {"queue", "pending", "item", "waiting"}
      BY <2>3, PlacesAre
    <3> QED BY <3>1, <3>2 DEF Copies, Shipped
  <2> QED BY <2>1, <2>2, <2>3 DEF Copies
<1> QED BY <1>1, <1>2

(* One result goes to the channel.                                         *)
LEMMA SendKeeps ==
  ASSUME IInv, Ledger, MayLose => MayLose', NEW w \in Workers, Send(w) PROVE Ledger'
<1>0. /\ \A v \in Workers : \A k \in DOMAIN out'[v] : \E j \in DOMAIN out[v] : out'[v][k] = out[v][j]
      /\ \A k \in DOMAIN results' : \/ k \in DOMAIN results /\ results'[k] = results[k]
                                    \/ 1 \in DOMAIN out[w] /\ results'[k] = out[w][1]
  <2>1. ASSUME NEW v \in Workers, NEW k \in DOMAIN out'[v]
        PROVE \E j \in DOMAIN out[v] : out'[v][k] = out[v][j]
    BY SendIs
  <2>2. ASSUME NEW k \in DOMAIN results'
        PROVE  \/ k \in DOMAIN results /\ results'[k] = results[k]
               \/ 1 \in DOMAIN out[w] /\ results'[k] = out[w][1]
    <3>1. /\ k \in 1..(Len(results) + 1) /\ Len(results) \in Nat /\ DOMAIN results = 1..Len(results)
          /\ \A i \in DOMAIN results : results'[i] = results[i]
          /\ results'[Len(results) + 1] = out[w][1] /\ 1 \in DOMAIN out[w]
      BY SendIs
    <3> QED BY <3>1
  <2> QED BY <2>1, <2>2
<1>9. UNCHANGED <<queue, pending, item, waiting, settled, history>>
  BY SendIs
<1>1. Once'
  <2> SUFFICES ASSUME NEW t \in Tests
               PROVE  /\ \A r, s \in Copies(t)' : r = s
                      /\ t \in settled => Copies(t)' = {}
    BY <1>9 DEF Once
  <2>1. \A s \in Copies(t)' : \E r \in Copies(t) : s = Shipped(w, r)
    BY SendPlaces
  <2> QED BY <2>1 DEF Ledger, Once
<1>2. Kept'
  <2> SUFFICES ASSUME NEW t \in Tests, ~MayLose', t \notin settled PROVE Copies(t)' # {}
    BY <1>9 DEF Kept
  <2>1. Copies(t) # {}
    BY DEF Ledger, Kept
  <2>2. \A r \in Copies(t) : Shipped(w, r) \in Copies(t)'
    BY SendPlaces
  <2> QED BY <2>1, <2>2
<1>3. Attempts'
  <2>1. \A v \in Workers : \A k \in DOMAIN out'[v] : Honest(history, out'[v][k])
    BY <1>0 DEF Ledger, Attempts
  <2>2. \A k \in DOMAIN results' : Honest(history, results'[k])
    BY <1>0 DEF Ledger, Attempts
  <2> QED BY <1>9, <2>1, <2>2 DEF Ledger, Attempts
<1>4. Ordered'
  <2>1. Behind \subseteq Behind'
    <3> SUFFICES ASSUME NEW t \in Tests, NEW r \in ResultsInFlight, r.test = t, ~r.retry
                 PROVE  r \in ResultsInFlight'
      BY <1>9 DEF Behind
    <3>1. CASE r \in Range(results)
      <4>1. PICK k \in DOMAIN results : r = results[k]
        BY <3>1 DEF Range
      <4>2. k \in DOMAIN results' /\ results'[k] = r
        BY <4>1, SendIs
      <4> QED BY <4>2 DEF ResultsInFlight, Range
    <3>2. ASSUME NEW v \in Workers, r \in Range(out[v]) PROVE r \in ResultsInFlight'
      <4>1. PICK k \in DOMAIN out[v] : r = out[v][k]
        BY <3>2 DEF Range
      <4>2. CASE v # w
        <5>1. k \in DOMAIN out'[v] /\ out'[v][k] = r
          BY <4>1, <4>2, SendIs
        <5> QED BY <5>1 DEF ResultsInFlight, Range
      <4>3. CASE v = w /\ k = 1
        <5>1. Len(results) + 1 \in DOMAIN results' /\ results'[Len(results) + 1] = r
          BY <4>1, <4>3, SendIs
        <5> QED BY <5>1 DEF ResultsInFlight, Range
      <4>4. CASE v = w /\ k # 1
        <5>1. k - 1 \in DOMAIN out'[v] /\ out'[v][k - 1] = r
          BY <4>1, <4>4, SendIs
        <5> QED BY <5>1 DEF ResultsInFlight, Range
      <4> QED BY <4>2, <4>3, <4>4
    <3> QED BY <3>1, <3>2 DEF ResultsInFlight
  <2>2. /\ \A i : RestItem(Behind, i) => RestItem(Behind', i)
        /\ \A r : RestResult(Behind, r) => RestResult(Behind', r)
    BY <2>1, RestGrows
  <2>3. \A v \in Workers : \A k \in DOMAIN out'[v] : RestResult(Behind', out'[v][k])
    BY <1>0, <2>2 DEF Ledger, Ordered
  <2>4. \A k \in DOMAIN results' : RestResult(Behind', results'[k])
    BY <1>0, <2>2 DEF Ledger, Ordered
  <2> QED BY <1>9, <2>2, <2>3, <2>4 DEF Ledger, Ordered
<1>5. Alone'
  <2>1. \A t \in Tests : AtWork(t)' = AtWork(t)
    BY <1>9 DEF AtWork, Queued, Pending, InHand
  <2> QED BY <1>9, <2>1 DEF Ledger, Alone
<1>6. Hands'
  <2>1. \A v \in Workers : pc'[v] \notin {"run", "send"} => out'[v] = <<>>
    BY SendIs DEF Ledger, Hands
  <2>2. pc' \in [Workers -> {"recv", "lock", "run", "send", "yield", "cleanup", "done", "failed"}]
    BY SendInv DEF IInv, TypeOK
  <2>3. \A v \in Workers : v # w => pc'[v] = pc[v]
    BY SendIs
  <2>4. pc[w] = "send" /\ pc'[w] \in {"yield", "send"}
    BY SendIs
  <2> QED BY <1>9, <2>1, <2>3, <2>4 DEF Ledger, Hands
<1>7. Counted' BY DEF Ledger, Counted, Send, collectVars
<1>8. Reasons'
  <2>1. \A v \in Workers : pc'[v] \in {"cleanup", "done"} => pc'[v] = pc[v]
    BY SendIs
  <2>2. UNCHANGED <<stopped, closed, failureCount, finalCount, stopSeen, stopRequested>>
    BY DEF Send, dispatcherVars, collectVars
  <2> QED BY <1>9, <2>1, <2>2 DEF Ledger, Reasons
<1> QED BY <1>1, <1>2, <1>3, <1>4, <1>5, <1>6, <1>7, <1>8 DEF Ledger

(* A result without a tail stands for its own test.                        *)
LEMMA CarriedAlone ==
  ASSUME NEW r \in Result, r.tail = <<>>
  PROVE  DOMAIN Carried(r) = {1} /\ Carried(r)[1] = [test |-> r.test, attempt |-> r.attempt]
<1>1. Len(r.tail) = 0 /\ 1 + 0 = 1 /\ 1..1 = {1}
  BY EmptySeq
<1> QED BY <1>1, CarriedIs

(* A result that reports a skipped test stands for that test alone.        *)
LEMMA SkippedIs ==
  ASSUME NEW a \in Assignment
  PROVE  /\ SkippedResult(a) \in Result /\ SkippedResult(a).tail = <<>> /\ ~SkippedResult(a).retry
         /\ SkippedResult(a).test = a.test
         /\ DOMAIN Carried(SkippedResult(a)) = {1} /\ Carried(SkippedResult(a))[1] = a
<1> DEFINE r == SkippedResult(a)
<1>1. /\ r \in Result /\ r.tail = <<>> /\ ~r.retry
      /\ r.test = a.test /\ [test |-> r.test, attempt |-> r.attempt] = a
  BY DEF SkippedResult, Result, Assignment, Status
<1> HIDE DEF r
<1>2. DOMAIN Carried(r) = {1} /\ Carried(r)[1] = a
  BY <1>1, CarriedAlone
<1> QED BY <1>1, <1>2 DEF r

(* Where a place of a test goes when worker w runs the head of its item:   *)
(* the item goes on, a retry takes it all along, or it ends.               *)
Ran(w, how, r) ==
  IF r[1] = "item" /\ r[2] = w
    THEN IF how = "ends" THEN <<"out", w, Len(out[w]) + r[4], 1>>
         ELSE IF how = "resumes" \/ r[4] = 1 THEN <<"out", w, Len(out[w]) + 1, r[4]>>
         ELSE <<"item", w, 0, r[4] - 1>>
  ELSE r

(* What a test's run leaves alone.                                         *)
LEMMA RunElsewhere ==
  ASSUME IInv, NEW w \in Workers, NEW end \in Ends, RunTest(w, end), NEW t \in Tests
  PROVE  /\ \A s \in Copies(t)' :
              \/ s[1] = "item" /\ s \in InHand(t)' /\ s[2] = w
              \/ s[1] = "out" /\ s \in Unsent(t)' /\ s[2] = w /\ s[3] \notin DOMAIN out[w]
              \/ s \in Copies(t) /\ ~(s[1] = "item" /\ s[2] = w)
         /\ \A r \in Copies(t) : ~(r[1] = "item" /\ r[2] = w) => r \in Copies(t)'
         /\ \A r \in Copies(t) : r[1] = "item" => r \in InHand(t)
<1>1. /\ \A v \in Workers : v # w => item'[v] = item[v] /\ out'[v] = out[v]
      /\ UNCHANGED <<queue, pending, results, waiting>>
      /\ \A k \in DOMAIN out[w] : k \in DOMAIN out'[w] /\ out'[w][k] = out[w][k]
  <2>1. /\ DOMAIN out[w] = 1..Len(out[w]) /\ DOMAIN out'[w] = 1..Len(out'[w])
        /\ Len(out'[w]) >= Len(out[w]) /\ Len(out[w]) \in Nat /\ Len(out'[w]) \in Nat
        /\ \A k \in 1..Len(out[w]) : out'[w][k] = out[w][k]
    <3>1. /\ DOMAIN out[w] = 1..Len(out[w]) /\ DOMAIN out'[w] = 1..Len(out'[w])
          /\ Len(out[w]) \in Nat /\ out'[w] \in Seq(Result) /\ Len(item[w].work) \in Nat
          /\ \A k \in 1..Len(out[w]) : out'[w][k] = out[w][k]
          /\ \/ Len(out'[w]) = Len(out[w]) + 1
             \/ Len(out'[w]) = Len(out[w]) + Len(item[w].work)
      BY RunTestIs DEF GoesOn, Resumes, EndsItem
    <3>2. Len(out'[w]) \in Nat
      BY <3>1, LenProperties
    <3> DEFINE a == Len(out[w])
               b == Len(out'[w])
               c == Len(item[w].work)
    <3>3. a \in Nat /\ b \in Nat /\ c \in Nat /\ (b = a + 1 \/ b = a + c)
      BY <3>1, <3>2
    <3> HIDE DEF a, b, c
    <3>4. b >= a
      BY <3>3
    <3> QED BY <3>1, <3>2, <3>4 DEF a, b
  <2>2. \A v \in Workers : v # w => item'[v] = item[v] /\ out'[v] = out[v]
    BY RunTestIs
  <2>3. UNCHANGED <<queue, pending, results, waiting>>
    BY RunTestIs
  <2> QED BY <2>1, <2>2, <2>3
<1>2. ASSUME NEW s \in Copies(t)'
      PROVE  \/ s[1] = "item" /\ s \in InHand(t)' /\ s[2] = w
             \/ s[1] = "out" /\ s \in Unsent(t)' /\ s[2] = w /\ s[3] \notin DOMAIN out[w]
             \/ s \in Copies(t) /\ ~(s[1] = "item" /\ s[2] = w)
  <2>1. CASE s \in InHand(t)'
    <3>1. PICK v, j : /\ v \in Workers /\ j \in DOMAIN item'[v].work
                      /\ s = <<"item", v, 0, j>> /\ item'[v].work[j].test = t
      BY <2>1, PlacesAreNext
    <3>2. v # w => s \in InHand(t)
      BY <3>1, <1>1, PlacesAre
    <3> QED BY <2>1, <3>1, <3>2 DEF Copies
  <2>2. CASE s \in Unsent(t)'
    <3>1. PICK v, k, j : /\ v \in Workers /\ k \in DOMAIN out'[v] /\ j \in DOMAIN Carried(out'[v][k])
                         /\ s = <<"out", v, k, j>> /\ Carried(out'[v][k])[j].test = t
      BY <2>2, PlacesAreNext
    <3>2. (v # w \/ k \in DOMAIN out[w]) => s \in Unsent(t)
      BY <3>1, <1>1, PlacesAre
    <3> QED BY <2>2, <3>1, <3>2 DEF Copies
  <2>3. CASE s \in Queued(t)' \cup Pending(t)' \cup Sent(t)' \cup Waiting(t)'
    <3>1. s \in Queued(t) \cup Pending(t) \cup Sent(t) \cup Waiting(t)
      BY <2>3, <1>1 DEF Queued, Pending, Sent, Waiting
    <3>2. s[1] \in {"queue", "pending", "results", "waiting"}
      BY <3>1, PlacesAre
    <3> QED BY <3>1, <3>2 DEF Copies
  <2> QED BY <2>1, <2>2, <2>3 DEF Copies
<1>3. ASSUME NEW r \in Copies(t), ~(r[1] = "item" /\ r[2] = w) PROVE r \in Copies(t)'
  <2>1. CASE r \in InHand(t)
    <3>1. PICK v, j : /\ v \in Workers /\ j \in DOMAIN item[v].work
                      /\ r = <<"item", v, 0, j>> /\ item[v].work[j].test = t
      BY <2>1, PlacesAre
    <3>2. v # w
      BY <3>1, <1>3
    <3>3. r \in InHand(t)'
      BY <3>1, <3>2, <1>1, PlacesAreNext
    <3> QED BY <3>3 DEF Copies
  <2>2. CASE r \in Unsent(t)
    <3>1. PICK v, k, j : /\ v \in Workers /\ k \in DOMAIN out[v] /\ j \in DOMAIN Carried(out[v][k])
                         /\ r = <<"out", v, k, j>> /\ Carried(out[v][k])[j].test = t
      BY <2>2, PlacesAre
    <3>2. k \in DOMAIN out'[v] /\ out'[v][k] = out[v][k]
      BY <3>1, <1>1
    <3>3. r \in Unsent(t)'
      BY <3>1, <3>2, PlacesAreNext
    <3> QED BY <3>3 DEF Copies
  <2>3. CASE r \in Queued(t) \cup Pending(t) \cup Sent(t) \cup Waiting(t)
    <3>1. r \in Queued(t)' \cup Pending(t)' \cup Sent(t)' \cup Waiting(t)'
      BY <2>3, <1>1 DEF Queued, Pending, Sent, Waiting
    <3> QED BY <3>1 DEF Copies
  <2> QED BY <2>1, <2>2, <2>3 DEF Copies
<1>4. ASSUME NEW r \in Copies(t), r[1] = "item" PROVE r \in InHand(t)
  BY <1>4, PlacesAre DEF Copies
<1> QED BY <1>2, <1>3, <1>4

(* It is enough to say where the item's own places went.                   *)
LEMMA RunMoves ==
  ASSUME IInv, NEW w \in Workers, NEW end \in Ends, RunTest(w, end), NEW how, NEW t \in Tests,
         \A s \in InHand(t)' : s[2] = w => \E r \in Copies(t) : s = Ran(w, how, r),
         \A s \in Unsent(t)' : s[2] = w /\ s[3] \notin DOMAIN out[w] =>
                                   \E r \in Copies(t) : s = Ran(w, how, r),
         \A r \in InHand(t) : r[2] = w => Ran(w, how, r) \in Copies(t)'
  PROVE  /\ \A s \in Copies(t)' : \E r \in Copies(t) : s = Ran(w, how, r)
         /\ \A r \in Copies(t) : Ran(w, how, r) \in Copies(t)'
<1>1. ASSUME NEW s \in Copies(t)' PROVE \E r \in Copies(t) : s = Ran(w, how, r)
  <2>1. CASE s \in Copies(t) /\ ~(s[1] = "item" /\ s[2] = w)
    <3>1. Ran(w, how, s) = s
      BY <2>1 DEF Ran
    <3> QED BY <2>1, <3>1
  <2> QED BY <2>1, RunElsewhere
<1>2. ASSUME NEW r \in Copies(t) PROVE Ran(w, how, r) \in Copies(t)'
  <2>1. CASE ~(r[1] = "item" /\ r[2] = w)
    <3>1. Ran(w, how, r) = r
      BY <2>1 DEF Ran
    <3> QED BY <2>1, <3>1, RunElsewhere
  <2>2. CASE r[1] = "item" /\ r[2] = w
    <3>1. r \in InHand(t)
      BY <2>2, RunElsewhere
    <3> QED BY <2>2, <3>1
  <2> QED BY <2>1, <2>2
<1> QED BY <1>1, <1>2

(* The item's own places, in the three ways a run may leave it.            *)
LEMMA RunPlaces ==
  ASSUME IInv, NEW w \in Workers, NEW end \in Ends, RunTest(w, end), NEW t \in Tests, NEW r0 \in Result,
         out'[w][Len(out[w]) + 1] = r0, r0.test = item[w].work[1].test,
         NEW how, \/ how = "goes" /\ GoesOn(r0, item[w].work, item'[w].work, out[w], out'[w])
                  \/ how = "resumes" /\ Resumes(r0, item[w].work, item'[w].work, out[w], out'[w])
                  \/ how = "ends" /\ EndsItem(r0, item[w].work, item'[w].work, out[w], out'[w])
  PROVE  /\ \A s \in Copies(t)' : \E r \in Copies(t) : s = Ran(w, how, r)
         /\ \A r \in Copies(t) : Ran(w, how, r) \in Copies(t)'
<1> DEFINE work == item[w].work
           n == Len(out[w])
           L == Len(work)
           m == Len(out'[w])
<1>1. /\ n \in Nat /\ L \in Nat \ {0} /\ m \in Nat /\ DOMAIN work = 1..L
      /\ DOMAIN out[w] = 1..n /\ DOMAIN out'[w] = 1..m /\ out'[w] \in Seq(Result)
      /\ work \in Seq(Assignment) /\ \A k \in 1..L : work[k] \in Assignment
  <2>1. /\ n \in Nat /\ L \in Nat \ {0} /\ DOMAIN work = 1..L
        /\ DOMAIN out[w] = 1..n /\ DOMAIN out'[w] = 1..m /\ out'[w] \in Seq(Result)
        /\ work \in Seq(Assignment)
    BY RunTestIs
  <2>2. m \in Nat
    BY <2>1, LenProperties
  <2>3. \A k \in 1..L : work[k] \in Assignment
    BY <2>1, ElementOfSeq
  <2> QED BY <2>1, <2>2, <2>3
<1>2. /\ Carried(r0)[1].test = work[1].test
      /\ Len(r0.tail) \in Nat /\ DOMAIN Carried(r0) = 1..(1 + Len(r0.tail))
      /\ \A j \in 1..Len(r0.tail) : Carried(r0)[j + 1] = r0.tail[j]
  <2>1. /\ Carried(r0)[1] = [test |-> r0.test, attempt |-> r0.attempt] /\ Len(r0.tail) \in Nat
        /\ DOMAIN Carried(r0) = 1..(1 + Len(r0.tail))
        /\ \A j \in 1..Len(r0.tail) : Carried(r0)[j + 1] = r0.tail[j]
    BY CarriedIs
  <2> QED BY <2>1
<1>3. ASSUME NEW j, j \in 1..L, work[j].test = t
      PROVE  <<"item", w, 0, j>> \in Copies(t)
  <2>1. <<"item", w, 0, j>> \in InHand(t)
    BY <1>1, <1>3, PlacesAre
  <2> QED BY <2>1 DEF Copies
<1> SUFFICES /\ \A s \in InHand(t)' : s[2] = w => \E r \in Copies(t) : s = Ran(w, how, r)
             /\ \A s \in Unsent(t)' : s[2] = w /\ s[3] \notin DOMAIN out[w] =>
                                           \E r \in Copies(t) : s = Ran(w, how, r)
             /\ \A r \in InHand(t) : r[2] = w => Ran(w, how, r) \in Copies(t)'
  BY RunMoves
<1>0. \/ how = "goes" /\ GoesOn(r0, work, item'[w].work, out[w], out'[w])
      \/ how = "resumes" /\ Resumes(r0, work, item'[w].work, out[w], out'[w])
      \/ how = "ends" /\ EndsItem(r0, work, item'[w].work, out[w], out'[w])
  OBVIOUS
<1> HIDE DEF work, n, L, m
<1>4. ASSUME NEW s \in InHand(t)', s[2] = w PROVE \E r \in Copies(t) : s = Ran(w, how, r)
  <2>0. PICK v, l : /\ v \in Workers /\ l \in DOMAIN item'[v].work
                    /\ s = <<"item", v, 0, l>> /\ item'[v].work[l].test = t
    BY PlacesAreNext
  <2>1. PICK j : /\ j \in DOMAIN item'[w].work
                 /\ s = <<"item", w, 0, j>> /\ item'[w].work[j].test = t
    BY <1>4, <2>0
  <2>2. CASE how = "goes" /\ GoesOn(r0, work, item'[w].work, out[w], out'[w])
    <3>1. /\ item'[w].work \in Seq(Assignment) /\ Len(item'[w].work) = L - 1
          /\ \A i \in 1..(L - 1) : item'[w].work[i] = work[i + 1]
      BY <2>2, RunTestInv DEF GoesOn, IInv, TypeOK, Item, work, L
    <3>2. j \in 1..(L - 1) /\ j + 1 \in 1..L /\ item'[w].work[j] = work[j + 1]
          /\ j + 1 # 1 /\ (j + 1) - 1 = j
      BY <3>1, <2>1, <1>1, LenProperties
    <3>3. s = Ran(w, how, <<"item", w, 0, j + 1>>)
      BY <2>1, <2>2, <3>2 DEF Ran
    <3>4. <<"item", w, 0, j + 1>> \in Copies(t)
      BY <1>3, <2>1, <3>2
    <3> QED BY <3>3, <3>4
  <2>3. CASE \/ Resumes(r0, work, item'[w].work, out[w], out'[w])
             \/ EndsItem(r0, work, item'[w].work, out[w], out'[w])
    BY <2>1, <2>3 DEF Resumes, EndsItem
  <2> QED BY <1>0, <2>2, <2>3
<1>5. ASSUME NEW s \in Unsent(t)', s[2] = w, s[3] \notin DOMAIN out[w]
      PROVE  \E r \in Copies(t) : s = Ran(w, how, r)
  <2>0. PICK v, x, y : /\ v \in Workers /\ x \in DOMAIN out'[v] /\ y \in DOMAIN Carried(out'[v][x])
                       /\ s = <<"out", v, x, y>> /\ Carried(out'[v][x])[y].test = t
    BY PlacesAreNext
  <2>1. PICK k, j : /\ k \in DOMAIN out'[w] /\ j \in DOMAIN Carried(out'[w][k])
                    /\ s = <<"out", w, k, j>> /\ Carried(out'[w][k])[j].test = t
    BY <1>5, <2>0
  <2>2. k \in 1..m /\ k > n
    BY <1>1, <1>5, <2>1
  <2>3. CASE how = "goes" /\ GoesOn(r0, work, item'[w].work, out[w], out'[w])
    <3>1. m = n + 1 /\ r0.tail = <<>>
      BY <2>3 DEF GoesOn, n, m
    <3>2. k = n + 1
      BY <3>1, <2>2, <1>1
    <3>3. j = 1 /\ work[1].test = t
      BY <3>1, <3>2, <2>1, <1>2, CarriedAlone DEF n
    <3>4. s = Ran(w, how, <<"item", w, 0, 1>>)
      BY <2>1, <2>3, <3>2, <3>3 DEF Ran, n
    <3>5. <<"item", w, 0, 1>> \in Copies(t)
      BY <1>1, <1>3, <3>3
    <3> QED BY <3>4, <3>5
  <2>4. CASE how = "resumes" /\ Resumes(r0, work, item'[w].work, out[w], out'[w])
    <3>1. /\ m = n + 1 /\ Len(r0.tail) = L - 1
          /\ \A i \in 1..Len(r0.tail) : r0.tail[i] = work[i + 1]
      BY <2>4 DEF Resumes, n, work, L, m
    <3>2. k = n + 1
      BY <3>1, <2>2, <1>1
    <3>3. out'[w][k] = r0
      BY <3>2 DEF n
    <3>4. j \in 1..L
      BY <3>1, <3>3, <2>1, <1>1, <1>2
    <3>5. work[j].test = t
      <4>1. CASE j = 1
        BY <4>1, <3>3, <2>1, <1>2
      <4>2. CASE j # 1
        <5>1. j - 1 \in 1..Len(r0.tail) /\ (j - 1) + 1 = j
          BY <4>2, <3>1, <3>4, <1>1
        <5> QED BY <5>1, <3>1, <3>3, <2>1, <1>2
      <4> QED BY <4>1, <4>2
    <3>6. s = Ran(w, how, <<"item", w, 0, j>>)
      BY <2>1, <2>4, <3>2 DEF Ran, n
    <3> QED BY <1>3, <3>4, <3>5, <3>6
  <2>5. CASE how = "ends" /\ EndsItem(r0, work, item'[w].work, out[w], out'[w])
    <3>1. /\ m = n + L /\ r0.tail = <<>>
          /\ \A i \in 2..L : out'[w][n + i] = SkippedResult(work[i])
      BY <2>5 DEF EndsItem, n, work, L, m
    <3>2. k - n \in 1..L /\ n + (k - n) = k
      BY <3>1, <2>2, <1>1
    <3>3. j = 1 /\ work[k - n].test = t
      <4>1. CASE k - n = 1
        <5>1. out'[w][k] = r0
          BY <4>1, <3>2 DEF n
        <5> QED BY <5>1, <4>1, <3>1, <2>1, <1>2, CarriedAlone
      <4>2. CASE k - n # 1
        <5>1. k - n \in 2..L /\ work[k - n] \in Assignment
          BY <4>2, <3>2, <1>1
        <5>2. out'[w][k] = SkippedResult(work[k - n])
          BY <5>1, <3>1, <3>2
        <5>3. DOMAIN Carried(out'[w][k]) = {1} /\ Carried(out'[w][k])[1].test = work[k - n].test
          BY <5>1, <5>2, SkippedIs
        <5> QED BY <5>3, <2>1
      <4> QED BY <4>1, <4>2
    <3>4. s = Ran(w, how, <<"item", w, 0, k - n>>)
      BY <2>1, <2>5, <3>2, <3>3 DEF Ran, n
    <3> QED BY <1>3, <3>2, <3>3, <3>4
  <2> QED BY <1>0, <2>3, <2>4, <2>5
<1>6. ASSUME NEW r \in InHand(t), r[2] = w PROVE Ran(w, how, r) \in Copies(t)'
  <2>8. PICK v, l : /\ v \in Workers /\ l \in DOMAIN item[v].work
                    /\ r = <<"item", v, 0, l>> /\ item[v].work[l].test = t
    BY PlacesAre
  <2>1. PICK j : j \in DOMAIN work /\ r = <<"item", w, 0, j>> /\ work[j].test = t
    BY <1>6, <2>8 DEF work
  <2>2. j \in 1..L /\ j \in Nat
    BY <1>1, <2>1
  <2>0. ASSUME NEW k, NEW i, k \in 1..m, i \in DOMAIN Carried(out'[w][k]),
               Carried(out'[w][k])[i].test = t
        PROVE  <<"out", w, k, i>> \in Copies(t)'
    <3>1. <<"out", w, k, i>> \in Unsent(t)'
      BY <1>1, <2>0, PlacesAreNext
    <3> QED BY <3>1 DEF Copies
  <2>3. CASE how = "goes" /\ GoesOn(r0, work, item'[w].work, out[w], out'[w])
    <3>1. /\ m = n + 1 /\ r0.tail = <<>> /\ out'[w][n + 1] = r0
          /\ Len(item'[w].work) = L - 1
          /\ \A i \in 1..(L - 1) : item'[w].work[i] = work[i + 1]
          /\ item'[w].work \in Seq(Assignment)
      BY <2>3, RunTestInv DEF GoesOn, n, work, L, m, IInv, TypeOK, Item
    <3>2. CASE j = 1
      <4>1. Ran(w, how, r) = <<"out", w, n + 1, 1>>
        BY <2>1, <2>3, <3>2 DEF Ran, n
      <4>2. n + 1 \in 1..m /\ 1 \in DOMAIN Carried(r0) /\ Carried(r0)[1].test = t
        BY <3>1, <3>2, <2>1, <1>1, <1>2, CarriedAlone
      <4> QED BY <4>1, <4>2, <3>1, <2>0
    <3>3. CASE j # 1
      <4>1. Ran(w, how, r) = <<"item", w, 0, j - 1>>
        BY <2>1, <2>3, <3>3 DEF Ran
      <4>2. j - 1 \in 1..(L - 1) /\ (j - 1) + 1 = j
        BY <2>2, <3>3, <1>1
      <4>3. j - 1 \in DOMAIN item'[w].work /\ item'[w].work[j - 1].test = t
        BY <4>2, <3>1, <2>1, LenProperties
      <4>4. <<"item", w, 0, j - 1>> \in InHand(t)'
        BY <4>3, PlacesAreNext
      <4> QED BY <4>1, <4>4 DEF Copies
    <3> QED BY <3>2, <3>3
  <2>4. CASE how = "resumes" /\ Resumes(r0, work, item'[w].work, out[w], out'[w])
    <3>1. /\ m = n + 1 /\ Len(r0.tail) = L - 1 /\ out'[w][n + 1] = r0
          /\ \A i \in 1..Len(r0.tail) : r0.tail[i] = work[i + 1]
      BY <2>4 DEF Resumes, n, work, L, m
    <3>2. Ran(w, how, r) = <<"out", w, n + 1, j>>
      BY <2>1, <2>4 DEF Ran, n
    <3>3. n + 1 \in 1..m /\ j \in DOMAIN Carried(r0)
      BY <3>1, <2>2, <1>1, <1>2
    <3>4. Carried(r0)[j].test = t
      <4>1. CASE j = 1
        BY <4>1, <2>1, <1>2
      <4>2. CASE j # 1
        <5>1. j - 1 \in 1..Len(r0.tail) /\ (j - 1) + 1 = j
          BY <4>2, <3>1, <2>2, <1>1
        <5> QED BY <5>1, <3>1, <2>1, <1>2
      <4> QED BY <4>1, <4>2
    <3> QED BY <3>1, <3>2, <3>3, <3>4, <2>0
  <2>5. CASE how = "ends" /\ EndsItem(r0, work, item'[w].work, out[w], out'[w])
    <3>1. /\ m = n + L /\ r0.tail = <<>> /\ out'[w][n + 1] = r0
          /\ \A i \in 2..L : out'[w][n + i] = SkippedResult(work[i])
      BY <2>5 DEF EndsItem, n, work, L, m
    <3>2. Ran(w, how, r) = <<"out", w, n + j, 1>>
      BY <2>1, <2>5 DEF Ran, n
    <3>3. n + j \in 1..m
      BY <3>1, <2>2, <1>1
    <3>4. 1 \in DOMAIN Carried(out'[w][n + j]) /\ Carried(out'[w][n + j])[1].test = t
      <4>1. CASE j = 1
        BY <4>1, <3>1, <2>1, <1>2, CarriedAlone
      <4>2. CASE j # 1
        <5>1. j \in 2..L /\ work[j] \in Assignment
          BY <4>2, <2>2, <1>1
        <5>2. out'[w][n + j] = SkippedResult(work[j])
          BY <5>1, <3>1
        <5>3. DOMAIN Carried(out'[w][n + j]) = {1} /\ Carried(out'[w][n + j])[1].test = work[j].test
          BY <5>1, <5>2, SkippedIs
        <5> QED BY <5>3, <2>1
      <4> QED BY <4>1, <4>2
    <3> QED BY <3>2, <3>3, <3>4, <2>0
  <2> QED BY <1>0, <2>3, <2>4, <2>5
<1> QED BY <1>4, <1>5, <1>6

(* What a run leaves: the results it makes, one by one.                    *)
LEMMA RunResults ==
  ASSUME IInv, NEW w \in Workers, NEW end \in Ends, RunTest(w, end), NEW r0 \in Result,
         out'[w][Len(out[w]) + 1] = r0,
         r0.test = item[w].work[1].test, r0.attempt = item[w].work[1].attempt,
         \/ GoesOn(r0, item[w].work, item'[w].work, out[w], out'[w])
         \/ Resumes(r0, item[w].work, item'[w].work, out[w], out'[w])
         \/ EndsItem(r0, item[w].work, item'[w].work, out[w], out'[w])
  PROVE  /\ DOMAIN Carried(r0) \subseteq DOMAIN item[w].work
         /\ \A j \in DOMAIN Carried(r0) : Carried(r0)[j] = item[w].work[j]
         /\ \A k \in DOMAIN out'[w] :
              \/ k \in DOMAIN out[w] /\ out'[w][k] = out[w][k]
              \/ out'[w][k] = r0
              \/ \E j \in DOMAIN item[w].work : out'[w][k] = SkippedResult(item[w].work[j])
         /\ \A k \in DOMAIN out[w] : k \in DOMAIN out'[w] /\ out'[w][k] = out[w][k]
         /\ Len(out[w]) + 1 \in DOMAIN out'[w]
<1> DEFINE work == item[w].work
           n == Len(out[w])
           L == Len(work)
           m == Len(out'[w])
<1>1. /\ n \in Nat /\ L \in Nat \ {0} /\ m \in Nat /\ DOMAIN work = 1..L
      /\ DOMAIN out[w] = 1..n /\ DOMAIN out'[w] = 1..m /\ out'[w] \in Seq(Result)
      /\ work \in Seq(Assignment) /\ \A k \in 1..L : work[k] \in Assignment
      /\ \A k \in 1..n : out'[w][k] = out[w][k]
  <2>1. /\ n \in Nat /\ L \in Nat \ {0} /\ DOMAIN work = 1..L
        /\ DOMAIN out[w] = 1..n /\ DOMAIN out'[w] = 1..m /\ out'[w] \in Seq(Result)
        /\ work \in Seq(Assignment) /\ \A k \in 1..n : out'[w][k] = out[w][k]
    BY RunTestIs
  <2>2. m \in Nat
    BY <2>1, LenProperties
  <2>3. \A k \in 1..L : work[k] \in Assignment
    BY <2>1, ElementOfSeq
  <2> QED BY <2>1, <2>2, <2>3
<1>2. /\ Carried(r0)[1] = work[1]
      /\ Len(r0.tail) \in Nat /\ DOMAIN Carried(r0) = 1..(1 + Len(r0.tail))
      /\ \A j \in 1..Len(r0.tail) : Carried(r0)[j + 1] = r0.tail[j]
  <2>1. /\ Carried(r0)[1] = [test |-> r0.test, attempt |-> r0.attempt] /\ Len(r0.tail) \in Nat
        /\ DOMAIN Carried(r0) = 1..(1 + Len(r0.tail))
        /\ \A j \in 1..Len(r0.tail) : Carried(r0)[j + 1] = r0.tail[j]
    BY CarriedIs
  <2>2. work[1] \in Assignment
    BY <1>1
  <2>3. work[1] = [test |-> work[1].test, attempt |-> work[1].attempt]
    BY <2>2 DEF Assignment
  <2> QED BY <2>1, <2>3
<1>3. \/ m = n + 1 /\ r0.tail = <<>>
      \/ m = n + 1 /\ Len(r0.tail) = L - 1 /\ \A j \in 1..Len(r0.tail) : r0.tail[j] = work[j + 1]
      \/ /\ m = n + L /\ r0.tail = <<>>
         /\ \A i \in 2..L : out'[w][n + i] = SkippedResult(work[i])
  BY DEF GoesOn, Resumes, EndsItem
<1>4. out'[w][n + 1] = r0
  OBVIOUS
<1> HIDE DEF work, n, L, m
<1>5. DOMAIN Carried(r0) \subseteq 1..L /\ \A j \in DOMAIN Carried(r0) : Carried(r0)[j] = work[j]
  <2>1. CASE r0.tail = <<>>
    <3>1. DOMAIN Carried(r0) = {1}
      BY <2>1, CarriedAlone
    <3> QED BY <3>1, <1>1, <1>2
  <2>2. CASE Len(r0.tail) = L - 1 /\ \A j \in 1..Len(r0.tail) : r0.tail[j] = work[j + 1]
    <3>1. DOMAIN Carried(r0) = 1..L
      BY <2>2, <1>1, <1>2
    <3>2. ASSUME NEW j \in 1..L PROVE Carried(r0)[j] = work[j]
      <4>1. CASE j = 1
        BY <4>1, <1>2
      <4>2. CASE j # 1
        <5>1. j - 1 \in 1..Len(r0.tail) /\ (j - 1) + 1 = j
          BY <4>2, <2>2, <1>1
        <5> QED BY <5>1, <2>2, <1>2
      <4> QED BY <4>1, <4>2
    <3> QED BY <3>1, <3>2
  <2> QED BY <2>1, <2>2, <1>3
<1>6. ASSUME NEW k \in 1..m
      PROVE  \/ k \in 1..n /\ out'[w][k] = out[w][k]
             \/ out'[w][k] = r0
             \/ \E j \in 1..L : out'[w][k] = SkippedResult(work[j])
  <2>1. CASE k \in 1..n
    BY <2>1, <1>1
  <2>2. CASE k = n + 1
    BY <2>2, <1>4
  <2>3. CASE k \notin 1..n /\ k # n + 1
    <3>1. m # n + 1
      BY <2>3, <1>1
    <3>2. m = n + L /\ \A i \in 2..L : out'[w][n + i] = SkippedResult(work[i])
      BY <3>1, <1>3
    <3>3. k - n \in 2..L /\ n + (k - n) = k
      BY <2>3, <3>2, <1>1
    <3>4. out'[w][k] = SkippedResult(work[k - n]) /\ k - n \in 1..L
      BY <3>2, <3>3, <1>1
    <3> QED BY <3>4
  <2> QED BY <2>1, <2>2, <2>3
<1>7. n + 1 \in 1..m /\ \A k \in 1..n : k \in 1..m
  BY <1>1, <1>3
<1> QED BY <1>1, <1>5, <1>6, <1>7 DEF work, n, L, m

(* The plan's groups are sequences of tests.                               *)
LEMMA PlanIs ==
  ASSUME NEW u \in DOMAIN Plan
  PROVE  /\ Plan[u].tests \in Seq(Tests) /\ Plan[u].serial \in BOOLEAN /\ Plan[u].tests # <<>>
         /\ Len(Plan[u].tests) \in Nat \ {0} /\ DOMAIN Plan[u].tests = 1..Len(Plan[u].tests)
<1>1. u \in 1..Len(Plan) /\ Plan \in Seq([serial : BOOLEAN, tests : Seq(Tests) \ {<<>>}])
  BY RunAssumption, LenProperties
<1>2. Plan[u] \in [serial : BOOLEAN, tests : Seq(Tests) \ {<<>>}]
  BY <1>1, ElementOfSeq
<1> DEFINE ts == Plan[u].tests
<1>3. ts \in Seq(Tests) /\ ts # <<>> /\ Plan[u].serial \in BOOLEAN
  BY <1>2
<1> HIDE DEF ts
<1>4. Len(ts) \in Nat \ {0} /\ DOMAIN ts = 1..Len(ts)
  BY <1>3, LenProperties, EmptySeq
<1> QED BY <1>3, <1>4 DEF ts

(* What is left of a group is known by its tests, and stays a suffix when  *)
(* its first test has its verdict.                                         *)
LEMMA RestSame ==
  ASSUME NEW B, NEW a, NEW b, Rest(B, a), Len(b) = Len(a),
         \A j \in 1..Len(a) : b[j].test = a[j].test
  PROVE  Rest(B, b)
BY DEF Rest

(* ... and so it does when its first test is done with.                    *)
LEMMA RestTail ==
  ASSUME NEW B, NEW C, NEW a, NEW b, Rest(B, a), B \subseteq C, Len(a) \in Nat \ {0},
         Len(b) = Len(a) - 1, \A j \in 1..(Len(a) - 1) : b[j].test = a[j + 1].test, a[1].test \in C
  PROVE  Rest(C, b)
<1> DEFINE n == Len(a)
           m == Len(b)
<1>1. PICK u \in DOMAIN Plan :
        /\ Plan[u].serial /\ n <= Len(Plan[u].tests)
        /\ \A j \in 1..n : a[j].test = Plan[u].tests[Len(Plan[u].tests) - n + j]
        /\ \A k \in 1..(Len(Plan[u].tests) - n) : Plan[u].tests[k] \in B
  BY DEF Rest
<1> DEFINE g == Plan[u].tests
           l == Len(g)
<1>2. l \in Nat /\ n \in Nat \ {0} /\ m = n - 1 /\ n <= l
  BY <1>1, PlanIs
<1>3. /\ \A j \in 1..n : a[j].test = g[l - n + j]
      /\ \A k \in 1..(l - n) : g[k] \in B
  BY <1>1
<1>4. \A j \in 1..(n - 1) : b[j].test = a[j + 1].test
  OBVIOUS
<1> HIDE DEF n, m, g, l
<1>5. m <= l /\ l - m = l - n + 1
  BY <1>2
<1>6. \A j \in 1..m : b[j].test = g[l - m + j]
  <2> TAKE j \in 1..m
  <2>1. j \in 1..(n - 1) /\ j + 1 \in 1..n /\ l - n + (j + 1) = l - m + j
    BY <1>2
  <2> QED BY <2>1, <1>3, <1>4
<1>7. \A k \in 1..(l - m) : g[k] \in C
  <2> TAKE k \in 1..(l - m)
  <2>1. CASE k \in 1..(l - n)
    BY <2>1, <1>3
  <2>2. CASE k = l - n + 1
    <3>1. 1 \in 1..n
      BY <1>2
    <3>2. g[l - n + 1] = a[1].test
      BY <1>3, <3>1
    <3> QED BY <2>2, <3>2
  <2> QED BY <2>1, <2>2, <1>2, <1>5
<1> QED BY <1>1, <1>5, <1>6, <1>7 DEF Rest, m, g, l

(* A test runs: its place, and those of the group's rest, become results.  *)
LEMMA RunTestKeeps ==
  ASSUME IInv, Ledger, MayLose => MayLose', NEW w \in Workers, NEW end \in Ends, RunTest(w, end)
  PROVE  Ledger'
<1> DEFINE work == item[w].work
<1>1. PICK r0 \in Result :
        /\ out'[w][Len(out[w]) + 1] = r0
        /\ r0.test = work[1].test /\ r0.attempt = work[1].attempt
        /\ r0.serial = item[w].serial
        /\ r0.retry => /\ r0.attempt < MaxAttempts[r0.test]
                       /\ r0.status = "Failed" \/ ~Matches(r0.status, Expected[r0.test])
        /\ \/ GoesOn(r0, work, item'[w].work, out[w], out'[w])
           \/ Resumes(r0, work, item'[w].work, out[w], out'[w])
           \/ EndsItem(r0, work, item'[w].work, out[w], out'[w])
  BY RunTestIs
<1>2. /\ pc[w] = "run" /\ Len(work) \in Nat \ {0} /\ work \in Seq(Assignment)
      /\ DOMAIN work = 1..Len(work) /\ item'[w].work \in Seq(Assignment)
      /\ item'[w].serial = item[w].serial
      /\ \A v \in Workers : v # w => item'[v] = item[v] /\ pc'[v] = pc[v] /\ out'[v] = out[v]
      /\ UNCHANGED <<queue, pending, results, waiting, settled, history>>
      /\ pc'[w] = (IF item'[w].work = <<>> THEN "send" ELSE "run")
  BY RunTestIs
<1>3. /\ DOMAIN Carried(r0) \subseteq DOMAIN work
      /\ \A j \in DOMAIN Carried(r0) : Carried(r0)[j] = work[j]
      /\ \A k \in DOMAIN out'[w] :
           \/ k \in DOMAIN out[w] /\ out'[w][k] = out[w][k]
           \/ out'[w][k] = r0
           \/ \E j \in DOMAIN work : out'[w][k] = SkippedResult(work[j])
      /\ \A k \in DOMAIN out[w] : k \in DOMAIN out'[w] /\ out'[w][k] = out[w][k]
      /\ Len(out[w]) + 1 \in DOMAIN out'[w]
  BY <1>1, RunResults
<1>4. PICK how : \A t \in Tests :
        /\ \A s \in Copies(t)' : \E r \in Copies(t) : s = Ran(w, how, r)
        /\ \A r \in Copies(t) : Ran(w, how, r) \in Copies(t)'
  <2> DEFINE how == IF GoesOn(r0, work, item'[w].work, out[w], out'[w]) THEN "goes"
                    ELSE IF Resumes(r0, work, item'[w].work, out[w], out'[w]) THEN "resumes"
                    ELSE "ends"
  <2>1. \/ how = "goes" /\ GoesOn(r0, work, item'[w].work, out[w], out'[w])
        \/ how = "resumes" /\ Resumes(r0, work, item'[w].work, out[w], out'[w])
        \/ how = "ends" /\ EndsItem(r0, work, item'[w].work, out[w], out'[w])
    BY <1>1
  <2> HIDE DEF how
  <2>2. ASSUME NEW t \in Tests
        PROVE  /\ \A s \in Copies(t)' : \E r \in Copies(t) : s = Ran(w, how, r)
               /\ \A r \in Copies(t) : Ran(w, how, r) \in Copies(t)'
    BY <1>1, <2>1, RunPlaces
  <2> QED BY <2>2
<1>5. Once'
  <2> SUFFICES ASSUME NEW t \in Tests
               PROVE  /\ \A r, s \in Copies(t)' : r = s
                      /\ t \in settled => Copies(t)' = {}
    BY <1>2 DEF Once
  <2> QED BY <1>4 DEF Ledger, Once
<1>6. Kept'
  <2> SUFFICES ASSUME NEW t \in Tests, ~MayLose', t \notin settled PROVE Copies(t)' # {}
    BY <1>2 DEF Kept
  <2>1. Copies(t) # {}
    BY DEF Ledger, Kept
  <2> QED BY <1>4, <2>1
<1>7. Due(history, work)
  BY DEF Ledger, Attempts
<1>8. \A j \in DOMAIN work : work[j] \in Assignment
  BY <1>2, ElementOfSeq
<1> HIDE DEF work
<1>9. Attempts'
  <2>1. Honest(history, r0)
    <3>1. Due(history, Carried(r0))
      BY <1>3, <1>7 DEF Due
    <3>2. ~r0.retry => r0.tail = <<>>
      BY <1>1 DEF GoesOn, Resumes, EndsItem
    <3> QED BY <1>1, <3>1, <3>2 DEF Honest
  <2>2. ASSUME NEW j \in DOMAIN work PROVE Honest(history, SkippedResult(work[j]))
    <3> DEFINE q == SkippedResult(work[j])
    <3>1. /\ q.tail = <<>> /\ ~q.retry
          /\ DOMAIN Carried(q) = {1} /\ Carried(q)[1] = work[j]
      BY <1>8, SkippedIs
    <3> HIDE DEF q
    <3>2. Due(history, Carried(q))
      BY <3>1, <1>7 DEF Due
    <3>3. Honest(history, q)
      BY <3>1, <3>2 DEF Honest
    <3> QED BY <3>3 DEF q
  <2>3. \A v \in Workers : \A k \in DOMAIN out'[v] : Honest(history, out'[v][k])
    BY <1>2, <1>3, <2>1, <2>2 DEF Ledger, Attempts
  <2>4. Due(history, item'[w].work)
    <3>1. CASE GoesOn(r0, work, item'[w].work, out[w], out'[w])
      <4> DEFINE L == Len(work)
                 left == item'[w].work
      <4>1. DOMAIN left = 1..(L - 1) /\ L \in Nat \ {0} /\ DOMAIN work = 1..L
            /\ \A j \in 1..(L - 1) : left[j] = work[j + 1]
        BY <3>1, <1>2, LenProperties DEF GoesOn, work
      <4> HIDE DEF L, left
      <4>2. \A j \in DOMAIN left : j + 1 \in DOMAIN work /\ left[j] = work[j + 1]
        BY <4>1
      <4>3. Due(history, left)
        BY <4>2, <1>7 DEF Due
      <4> QED BY <4>3 DEF left
    <3>2. CASE item'[w].work = <<>>
      BY <3>2 DEF Due
    <3> QED BY <1>1, <3>1, <3>2 DEF Resumes, EndsItem
  <2>5. \A v \in Workers : Due(history, item'[v].work)
    BY <1>2, <2>4 DEF Ledger, Attempts
  <2> QED BY <1>2, <2>3, <2>5 DEF Ledger, Attempts
<1>10. Ordered'
  <2>1. Behind \subseteq Behind' /\ (~r0.retry => r0.test \in Behind')
    <3>1. ResultsInFlight \subseteq ResultsInFlight' /\ r0 \in ResultsInFlight'
      <4>1. ASSUME NEW v \in Workers PROVE Range(out[v]) \subseteq Range(out'[v])
        <5>1. \A k \in DOMAIN out[v] : k \in DOMAIN out'[v] /\ out'[v][k] = out[v][k]
          BY <1>2, <1>3
        <5> QED BY <5>1 DEF Range
      <4>2. r0 \in Range(out'[w])
        BY <1>1, <1>3 DEF Range
      <4> QED BY <1>2, <4>1, <4>2 DEF ResultsInFlight
    <3>2. r0.test \in Tests
      BY DEF Result
    <3> QED BY <1>2, <3>1, <3>2 DEF Behind
  <2>2. /\ \A i : RestItem(Behind, i) => RestItem(Behind', i)
        /\ \A r : RestResult(Behind, r) => RestResult(Behind', r)
    BY <2>1, RestGrows
  <2>3. item[w].serial => Rest(Behind, work)
    BY <1>2, EmptySeq DEF Ledger, Ordered, RestItem, work
  <2>4. RestItem(Behind', item'[w])
    <3>1. CASE GoesOn(r0, work, item'[w].work, out[w], out'[w]) /\ item[w].serial
      <4>1. /\ Len(item'[w].work) = Len(work) - 1 /\ r0.test \in Behind'
            /\ \A j \in 1..(Len(work) - 1) : item'[w].work[j].test = work[j + 1].test
        BY <2>1, <3>1 DEF GoesOn
      <4>2. work[1].test \in Behind'
        BY <1>1, <4>1
      <4>3. Len(work) \in Nat \ {0} /\ Rest(Behind, work) /\ Behind \subseteq Behind'
        BY <1>2, <2>1, <2>3, <3>1
      <4> DEFINE left == item'[w].work
                 C == Behind'
      <4>4. /\ Len(left) = Len(work) - 1 /\ work[1].test \in C /\ Behind \subseteq C
            /\ \A j \in 1..(Len(work) - 1) : left[j].test = work[j + 1].test
        BY <4>1, <4>2, <4>3
      <4> HIDE DEF left, C
      <4>5. Rest(C, left)
        BY <4>3, <4>4, RestTail
      <4> QED BY <4>5 DEF RestItem, left, C
    <3>2. CASE item'[w].work = <<>> \/ ~item[w].serial
      BY <1>2, <3>2 DEF RestItem
    <3> QED BY <1>1, <3>1, <3>2 DEF Resumes, EndsItem
  <2>5. RestResult(Behind', r0)
    <3> SUFFICES ASSUME r0.serial, r0.retry PROVE Rest(Behind', Carried(r0))
      BY DEF RestResult
    <3>1. Len(r0.tail) = Len(work) - 1
      BY <1>1 DEF Resumes, GoesOn, EndsItem
    <3>2. Len(Carried(r0)) = 1 + Len(r0.tail) /\ DOMAIN Carried(r0) = 1..(1 + Len(r0.tail))
      BY CarriedIs
    <3>3. Len(Carried(r0)) = Len(work) /\ DOMAIN Carried(r0) = 1..Len(work)
      <4> DEFINE L == Len(work)
                 m == Len(r0.tail)
      <4>1. L \in Nat /\ m = L - 1
        BY <1>2, <3>1
      <4> HIDE DEF L, m
      <4>2. 1 + m = L
        BY <4>1
      <4> QED BY <4>2, <3>2 DEF L, m
    <3>4. Rest(Behind, Carried(r0))
      BY <1>1, <1>3, <2>3, <3>3, RestSame
    <3>5. RestResult(Behind, r0)
      BY <3>4 DEF RestResult
    <3> QED BY <3>5, <2>2 DEF RestResult
  <2>6. ASSUME NEW j \in DOMAIN work PROVE RestResult(Behind', SkippedResult(work[j]))
    <3>1. ~SkippedResult(work[j]).retry
      BY <1>8, SkippedIs
    <3> QED BY <3>1 DEF RestResult
  <2>7. \A v \in Workers : \A k \in DOMAIN out'[v] : RestResult(Behind', out'[v][k])
    BY <1>2, <1>3, <2>2, <2>5, <2>6 DEF Ledger, Ordered
  <2>8. \A v \in Workers : RestItem(Behind', item'[v])
    BY <1>2, <2>2, <2>4 DEF Ledger, Ordered
  <2> QED BY <1>2, <2>2, <2>7, <2>8 DEF Ledger, Ordered
<1>11. Alone'
  <2> SUFFICES ASSUME Isolated, NEW t \in Tests, history[t] # <<>>, NEW r \in AtWork(t)',
                      NEW u \in Tests, NEW s \in AtWork(u)'
               PROVE  SamePlace(r, s)
    BY <1>2 DEF Alone
  <2>1. /\ r \in Copies(t)' /\ s \in Copies(u)'
        /\ r[1] \in {"queue", "pending", "item"} /\ s[1] \in {"queue", "pending", "item"}
    BY AtWorkIs
  <2>2. PICK r1 \in Copies(t) : r = Ran(w, how, r1)
    BY <1>4, <2>1
  <2>3. PICK s1 \in Copies(u) : s = Ran(w, how, s1)
    BY <1>4, <2>1
  <2>4. r1[1] \in {"queue", "pending", "item"} /\ s1[1] \in {"queue", "pending", "item"}
    BY <2>1, <2>2, <2>3 DEF Ran
  <2>5. r1 \in AtWork(t) /\ s1 \in AtWork(u)
    BY <2>4, AtWorkIs
  <2>6. SamePlace(r1, s1)
    BY <2>5 DEF Ledger, Alone
  <2>7. /\ r1 \in InHand(t) \/ r1[1] # "item"
        /\ s1 \in InHand(u) \/ s1[1] # "item"
    BY RunElsewhere
  <2>8. (r1[1] = "item" => r1[3] = 0) /\ (s1[1] = "item" => s1[3] = 0)
    BY <2>7, PlacesAre
  <2> QED BY <2>1, <2>2, <2>3, <2>6, <2>8 DEF SamePlace, Ran
<1>12. Hands'
  <2>1. \A v \in Workers : pc'[v] \notin {"lock", "run"} => item'[v].work = <<>>
    BY <1>2 DEF Ledger, Hands
  <2>2. \A v \in Workers : pc'[v] \notin {"run", "send"} => out'[v] = <<>>
    BY <1>2 DEF Ledger, Hands
  <2>3. \A v \in Workers : pc'[v] \notin {"recv", "cleanup"} => pending'[v] = NoItem
    BY <1>2 DEF Ledger, Hands
  <2> QED BY <2>1, <2>2, <2>3 DEF Hands
<1>13. Counted'
  BY DEF Ledger, Counted, RunTest, collectVars
<1>14. Reasons'
  <2>1. \A v \in Workers : pc'[v] \in {"cleanup", "done"} => pc'[v] = pc[v]
    BY <1>2
  <2>2. UNCHANGED <<stopped, closed, failureCount, finalCount, stopSeen, stopRequested>>
    BY DEF RunTest, dispatcherVars, collectVars
  <2> QED BY <1>2, <2>1, <2>2 DEF Ledger, Reasons
<1> QED BY <1>5, <1>6, <1>9, <1>10, <1>11, <1>12, <1>13, <1>14 DEF Ledger

(* The collecting loop takes the first result; R are the retries that wait *)
(* with it, the first of them is moved on or not, and put back in the      *)
(* queue or dropped.                                                       *)
Collects(R, moved, back) ==
  /\ 1 \in DOMAIN results /\ results[1] \in Result
  /\ \A k : k \in DOMAIN results' <=> k \in Nat /\ k # 0 /\ k + 1 \in DOMAIN results
  /\ \A k \in DOMAIN results' : results'[k] = results[k + 1]
  /\ \A k \in DOMAIN results : k # 1 => k - 1 \in DOMAIN results' /\ results'[k - 1] = results[k]
  /\ R \in Seq(Result) /\ DOMAIN waiting = 1..Len(waiting) /\ Len(waiting) \in Nat
  /\ DOMAIN R = 1..(IF results[1].retry THEN Len(waiting) + 1 ELSE Len(waiting))
  /\ \A k \in DOMAIN waiting : R[k] = waiting[k]
  /\ results[1].retry => R[Len(waiting) + 1] = results[1]
  /\ moved => 1 \in DOMAIN R
  /\ ~moved => waiting' = R
  /\ moved => \A k : k \in DOMAIN waiting' <=> k \in Nat /\ k # 0 /\ k + 1 \in DOMAIN R
  /\ moved => \A k \in DOMAIN waiting' : waiting'[k] = R[k + 1]
  /\ moved => \A k \in DOMAIN R : k # 1 => k - 1 \in DOMAIN waiting' /\ waiting'[k - 1] = R[k]
  /\ Len(queue) \in Nat /\ DOMAIN queue = 1..Len(queue)
  /\ ~back => queue' = queue
  /\ back => /\ moved /\ DOMAIN queue' = 1..(Len(queue) + 1)
             /\ queue'[Len(queue) + 1] = RetryItem(R[1])
             /\ \A k \in DOMAIN queue : queue'[k] = queue[k]
  /\ moved /\ ~back => closed \/ stopped'
  /\ moved /\ Isolated => IsolatedTurn(finalCount', R)
  /\ settled' = (IF results[1].retry THEN settled ELSE settled \cup {results[1].test})
  /\ history' = [history EXCEPT ![results[1].test] = Append(@, results[1].status)]
  /\ UNCHANGED <<item, pending, out>>

(* Collect, with its sequences spelled out by position.                    *)
LEMMA CollectIs ==
  ASSUME IInv, Collect
  PROVE  \E R : \E moved, back \in BOOLEAN : Collects(R, moved, back)
<1> DEFINE r       == Head(results)
           failed  == ~r.retry /\ OutcomeKind(<<r.status>>, Expected[r.test]) = "Unexpected"
           R       == IF r.retry THEN Append(waiting, r) ELSE waiting
           tripped == MaxFailures > 0 /\ failureCount' >= MaxFailures
           goes    == IF Isolated THEN IsolatedTurn(finalCount', R) ELSE r.retry
           moved   == goes /\ R # <<>>
           back    == moved /\ ~closed /\ (Isolated => ~tripped)
<1>1. /\ history' = [history EXCEPT ![r.test] = Append(@, r.status)]
      /\ settled' = IF r.retry THEN settled ELSE settled \cup {r.test}
      /\ waiting' = IF moved THEN Tail(R) ELSE R
      /\ queue' = IF back THEN Append(queue, RetryItem(Head(R))) ELSE queue
      /\ stopped' = (stopped \/ tripped)
      /\ results' = Tail(results) /\ results # <<>>
      /\ UNCHANGED <<item, pending, out>>
  BY DEF Collect, workerVars
<1>2. /\ results \in Seq(Result) /\ waiting \in Seq(Result) /\ queue \in Seq(Item)
  BY DEF IInv, TypeOK
<1>3. /\ 1 \in DOMAIN results /\ r = results[1] /\ r \in Result
      /\ \A k : k \in DOMAIN results' <=> k \in Nat /\ k # 0 /\ k + 1 \in DOMAIN results
      /\ \A k \in DOMAIN results' : results'[k] = results[k + 1]
      /\ \A k \in DOMAIN results : k # 1 => k - 1 \in DOMAIN results' /\ results'[k - 1] = results[k]
  BY <1>1, <1>2
<1>4. r.retry \in BOOLEAN /\ moved \in BOOLEAN /\ back \in BOOLEAN
  BY <1>3 DEF Result
<1>5. moved /\ ~back => closed \/ stopped'
  BY <1>1
<1>6. moved /\ Isolated => IsolatedTurn(finalCount', R)
  OBVIOUS
<1>7. moved => R # <<>>
  OBVIOUS
<1> HIDE DEF r, moved, back, goes, tripped
<1>8. /\ R \in Seq(Result) /\ DOMAIN waiting = 1..Len(waiting) /\ Len(waiting) \in Nat
      /\ DOMAIN R = 1..(IF r.retry THEN Len(waiting) + 1 ELSE Len(waiting))
      /\ \A k \in DOMAIN waiting : R[k] = waiting[k]
      /\ r.retry => R[Len(waiting) + 1] = r
  <2>1. DOMAIN waiting = 1..Len(waiting) /\ Len(waiting) \in Nat
    BY <1>2, LenProperties
  <2>2. CASE r.retry
    <3>1. R = Append(waiting, r)
      BY <2>2
    <3> HIDE DEF R
    <3>2. /\ R \in Seq(Result) /\ Len(R) = Len(waiting) + 1
          /\ \A k \in 1..Len(waiting) : R[k] = waiting[k]
          /\ R[Len(waiting) + 1] = r
      BY <1>2, <1>3, <3>1, AppendProperties
    <3>3. DOMAIN R = 1..(Len(waiting) + 1)
      BY <3>2, LenProperties
    <3> QED BY <2>1, <2>2, <3>2, <3>3
  <2>3. CASE ~r.retry
    <3>1. R = waiting
      BY <2>3
    <3> QED BY <1>2, <2>1, <2>3, <3>1
  <2> QED BY <2>2, <2>3
<1> HIDE DEF R
<1>9. /\ moved => 1 \in DOMAIN R /\ Head(R) = R[1]
      /\ ~moved => waiting' = R
      /\ moved => \A k : k \in DOMAIN waiting' <=> k \in Nat /\ k # 0 /\ k + 1 \in DOMAIN R
      /\ moved => \A k \in DOMAIN waiting' : waiting'[k] = R[k + 1]
      /\ moved => \A k \in DOMAIN R : k # 1 => k - 1 \in DOMAIN waiting' /\ waiting'[k - 1] = R[k]
  <2>1. CASE moved
    <3>1. R \in Seq(Result) /\ R # <<>> /\ waiting' = Tail(R)
      BY <1>1, <1>7, <1>8, <2>1
    <3> QED BY <2>1, <3>1
  <2>2. CASE ~moved
    BY <1>1, <2>2
  <2> QED BY <2>1, <2>2
<1>10. /\ Len(queue) \in Nat /\ DOMAIN queue = 1..Len(queue)
       /\ ~back => queue' = queue
       /\ back => /\ moved /\ DOMAIN queue' = 1..(Len(queue) + 1)
                  /\ queue'[Len(queue) + 1] = RetryItem(R[1])
                  /\ \A k \in DOMAIN queue : queue'[k] = queue[k]
  <2>1. Len(queue) \in Nat /\ DOMAIN queue = 1..Len(queue)
    BY <1>2, LenProperties
  <2>2. CASE back
    <3>1. moved
      BY <2>2 DEF back
    <3>2. R[1] \in Result
      BY <1>8, <1>9, <3>1, ElementOfSeq, LenProperties
    <3> DEFINE i == RetryItem(R[1])
    <3>3. i \in Item
      BY <3>2, RetryItemType
    <3>4. queue' = Append(queue, i)
      BY <1>1, <1>9, <2>2, <3>1
    <3> HIDE DEF i
    <3>5. /\ queue' \in Seq(Item) /\ Len(queue') = Len(queue) + 1
          /\ \A k \in 1..Len(queue) : queue'[k] = queue[k]
          /\ queue'[Len(queue) + 1] = i
      BY <1>2, <3>3, <3>4, AppendProperties
    <3>6. DOMAIN queue' = 1..(Len(queue) + 1)
      BY <3>5, LenProperties
    <3> QED BY <2>1, <2>2, <3>1, <3>5, <3>6 DEF i
  <2>3. CASE ~back
    BY <1>1, <2>1, <2>3
  <2> QED BY <2>2, <2>3
<1>11. Collects(R, moved, back)
  <2>1. /\ settled' = (IF results[1].retry THEN settled ELSE settled \cup {results[1].test})
        /\ history' = [history EXCEPT ![results[1].test] = Append(@, results[1].status)]
        /\ UNCHANGED <<item, pending, out>>
    BY <1>1, <1>3
  <2>2. /\ DOMAIN R = 1..(IF results[1].retry THEN Len(waiting) + 1 ELSE Len(waiting))
        /\ results[1].retry => R[Len(waiting) + 1] = results[1]
    BY <1>3, <1>8
  <2> QED BY <1>3, <1>5, <1>6, <1>8, <1>9, <1>10, <2>1, <2>2 DEF Collects
<1> QED BY <1>4, <1>11

(* What is put back stands for the tests the result stood for.             *)
LEMMA RetryCarries ==
  ASSUME NEW r \in Result
  PROVE  /\ DOMAIN RetryItem(r).work = DOMAIN Carried(r)
         /\ Len(RetryItem(r).work) = Len(Carried(r))
         /\ \A j \in DOMAIN Carried(r) : RetryItem(r).work[j].test = Carried(r)[j].test
         /\ RetryItem(r).work[1].attempt = r.attempt + 1
         /\ \A j \in DOMAIN Carried(r) : j # 1 => RetryItem(r).work[j] = Carried(r)[j]
         /\ 1 \in DOMAIN Carried(r) /\ Carried(r)[1].test = r.test
<1> DEFINE m == Len(r.tail)
<1>1. /\ m \in Nat /\ DOMAIN Carried(r) = 1..(1 + m) /\ Len(Carried(r)) = 1 + m
      /\ Carried(r)[1].test = r.test
      /\ \A j \in 1..m : Carried(r)[j + 1] = r.tail[j]
  <2>1. /\ m \in Nat /\ DOMAIN Carried(r) = 1..(1 + m) /\ Len(Carried(r)) = 1 + m
        /\ Carried(r)[1] = [test |-> r.test, attempt |-> r.attempt]
        /\ \A j \in 1..m : Carried(r)[j + 1] = r.tail[j]
    BY CarriedIs
  <2> QED BY <2>1
<1>2. /\ DOMAIN RetryItem(r).work = 1..(1 + m) /\ Len(RetryItem(r).work) = 1 + m
      /\ RetryItem(r).work[1].test = r.test /\ RetryItem(r).work[1].attempt = r.attempt + 1
      /\ \A j \in 1..m : RetryItem(r).work[j + 1] = r.tail[j]
  <2>1. /\ DOMAIN RetryItem(r).work = 1..(1 + m) /\ Len(RetryItem(r).work) = 1 + m
        /\ RetryItem(r).work[1] = [test |-> r.test, attempt |-> r.attempt + 1]
        /\ \A j \in 1..m : RetryItem(r).work[j + 1] = r.tail[j]
    BY RetryItemIs
  <2> QED BY <2>1
<1> HIDE DEF m
<1>3. ASSUME NEW j \in 1..(1 + m), j # 1 PROVE RetryItem(r).work[j] = Carried(r)[j]
  <2>1. j - 1 \in 1..m /\ (j - 1) + 1 = j
    BY <1>1, <1>3
  <2> QED BY <2>1, <1>1, <1>2
<1>4. 1 \in 1..(1 + m)
  BY <1>1
<1> QED BY <1>1, <1>2, <1>3, <1>4

(* Where the places of the k-th waiting retry go, and with them those of   *)
(* the results, when one is collected.                                     *)
Waited(moved, k, j) ==
  IF ~moved     THEN <<"waiting", 0, k, j>>
  ELSE IF k = 1 THEN <<"queue", 0, Len(queue) + 1, j>>
  ELSE <<"waiting", 0, k - 1, j>>

(* Where any place goes when a result is collected.                        *)
Collected(moved, r) ==
  IF r[1] = "results"
    THEN IF r[3] = 1 THEN Waited(moved, Len(waiting) + 1, r[4]) ELSE <<"results", 0, r[3] - 1, r[4]>>
  ELSE IF r[1] = "waiting" THEN Waited(moved, r[3], r[4])
  ELSE r

(* The result collected stays in flight only to be retried.                *)
Gone(r) == r[1] = "results" /\ r[3] = 1 /\ ~results[1].retry

(* Every place after it comes from one before it, ...                      *)
LEMMA CollectBack ==
  ASSUME NEW R, NEW moved \in BOOLEAN, NEW back \in BOOLEAN, Collects(R, moved, back), NEW t \in Tests
  PROVE  \A s \in Copies(t)' : \E r \in Copies(t) : ~Gone(r) /\ s = Collected(moved, r)
<1>0. ASSUME NEW k \in DOMAIN R, NEW j \in DOMAIN Carried(R[k]), Carried(R[k])[j].test = t
      PROVE  \E r \in Copies(t) : ~Gone(r) /\ Waited(moved, k, j) = Collected(moved, r)
  <2>1. CASE k \in DOMAIN waiting
    <3> DEFINE r == <<"waiting", 0, k, j>>
    <3>1. R[k] = waiting[k]
      BY <2>1 DEF Collects
    <3>2. r \in Waiting(t)
      BY <1>0, <2>1, <3>1, PlacesAre
    <3>3. ~Gone(r) /\ Waited(moved, k, j) = Collected(moved, r)
      BY DEF Gone, Collected
    <3> QED BY <3>2, <3>3 DEF Copies
  <2>2. CASE k \notin DOMAIN waiting
    <3> DEFINE r == <<"results", 0, 1, j>>
    <3>1. /\ results[1].retry /\ k = Len(waiting) + 1 /\ R[k] = results[1]
          /\ 1 \in DOMAIN results
      <4>1. /\ Len(waiting) \in Nat /\ DOMAIN waiting = 1..Len(waiting)
            /\ DOMAIN R = 1..(IF results[1].retry THEN Len(waiting) + 1 ELSE Len(waiting))
            /\ results[1].retry => R[Len(waiting) + 1] = results[1]
            /\ 1 \in DOMAIN results
        BY DEF Collects
      <4> QED BY <1>0, <2>2, <4>1
    <3>2. r \in Sent(t)
      BY <1>0, <3>1, PlacesAre
    <3>3. ~Gone(r) /\ Waited(moved, k, j) = Collected(moved, r)
      BY <3>1 DEF Gone, Collected
    <3> QED BY <3>2, <3>3 DEF Copies
  <2> QED BY <2>1, <2>2
<1> SUFFICES ASSUME NEW s \in Copies(t)' PROVE \E r \in Copies(t) : ~Gone(r) /\ s = Collected(moved, r)
  OBVIOUS
<1>1. CASE s \in Queued(t)'
  <2>1. PICK k, j : /\ k \in DOMAIN queue' /\ j \in DOMAIN queue'[k].work
                    /\ s = <<"queue", 0, k, j>> /\ queue'[k].work[j].test = t
    BY <1>1, PlacesAreNext
  <2>2. CASE k \in DOMAIN queue
    <3>1. queue'[k] = queue[k]
      BY <2>2 DEF Collects
    <3>2. s \in Queued(t)
      BY <2>1, <2>2, <3>1, PlacesAre
    <3>3. ~Gone(s) /\ s = Collected(moved, s)
      BY <2>1 DEF Gone, Collected
    <3> QED BY <3>2, <3>3 DEF Copies
  <2>3. CASE k \notin DOMAIN queue
    <3>1. moved /\ k = Len(queue) + 1 /\ queue'[k] = RetryItem(R[1]) /\ 1 \in DOMAIN R /\ R[1] \in Result
      <4>1. /\ Len(queue) \in Nat /\ DOMAIN queue = 1..Len(queue)
            /\ ~back => queue' = queue
            /\ back => /\ moved /\ DOMAIN queue' = 1..(Len(queue) + 1)
                       /\ queue'[Len(queue) + 1] = RetryItem(R[1])
            /\ moved => 1 \in DOMAIN R
            /\ R \in Seq(Result)
        BY DEF Collects
      <4>2. \A i \in DOMAIN R : R[i] \in Result
        BY <4>1, ElementOfSeq, LenProperties
      <4> QED BY <2>1, <2>3, <4>1, <4>2
    <3>2. j \in DOMAIN Carried(R[1]) /\ Carried(R[1])[j].test = t
      BY <2>1, <3>1, RetryCarries
    <3>3. s = Waited(moved, 1, j)
      BY <2>1, <3>1 DEF Waited
    <3> QED BY <1>0, <3>1, <3>2, <3>3
  <2> QED BY <2>2, <2>3
<1>2. CASE s \in Waiting(t)'
  <2>1. PICK k, j : /\ k \in DOMAIN waiting' /\ j \in DOMAIN Carried(waiting'[k])
                    /\ s = <<"waiting", 0, k, j>> /\ Carried(waiting'[k])[j].test = t
    BY <1>2, PlacesAreNext
  <2>2. CASE ~moved
    <3>1. waiting' = R
      BY <2>2 DEF Collects
    <3>2. s = Waited(moved, k, j)
      BY <2>1, <2>2 DEF Waited
    <3> QED BY <1>0, <2>1, <3>1, <3>2
  <2>3. CASE moved
    <3>1. k \in Nat /\ k # 0 /\ k + 1 \in DOMAIN R /\ waiting'[k] = R[k + 1]
      BY <2>1, <2>3 DEF Collects
    <3>2. k + 1 # 1 /\ (k + 1) - 1 = k
      BY <3>1
    <3>3. s = Waited(moved, k + 1, j)
      BY <2>1, <2>3, <3>2 DEF Waited
    <3> QED BY <1>0, <2>1, <3>1, <3>3
  <2> QED BY <2>2, <2>3
<1>3. CASE s \in Sent(t)'
  <2>1. PICK k, j : /\ k \in DOMAIN results' /\ j \in DOMAIN Carried(results'[k])
                    /\ s = <<"results", 0, k, j>> /\ Carried(results'[k])[j].test = t
    BY <1>3, PlacesAreNext
  <2> DEFINE r == <<"results", 0, k + 1, j>>
  <2>2. k \in Nat /\ k # 0 /\ k + 1 \in DOMAIN results /\ results'[k] = results[k + 1]
    BY <2>1 DEF Collects
  <2>3. r \in Sent(t)
    BY <2>1, <2>2, PlacesAre
  <2>4. ~Gone(r) /\ s = Collected(moved, r)
    BY <2>1, <2>2 DEF Gone, Collected
  <2> QED BY <2>3, <2>4 DEF Copies
<1>4. CASE s \in Pending(t)' \cup InHand(t)' \cup Unsent(t)'
  <2>1. s \in Pending(t) \cup InHand(t) \cup Unsent(t)
    BY <1>4 DEF Pending, InHand, Unsent, Collects
  <2>2. s[1] \in {"pending", "item", "out"}
    BY <2>1, PlacesAre
  <2>3. ~Gone(s) /\ s = Collected(moved, s)
    BY <2>2 DEF Gone, Collected
  <2> QED BY <2>1, <2>3 DEF Copies
<1> QED BY <1>1, <1>2, <1>3, <1>4 DEF Copies

(* ... and every place stays, but the result's own and those of a retry    *)
(* dropped.                                                                *)
LEMMA CollectForth ==
  ASSUME NEW R, NEW moved \in BOOLEAN, NEW back \in BOOLEAN, Collects(R, moved, back), NEW t \in Tests,
         NEW r \in Copies(t), ~Gone(r)
  PROVE  Collected(moved, r) \in Copies(t)' \/ (moved /\ ~back)
<1>0. ASSUME NEW k \in DOMAIN R, NEW j \in DOMAIN Carried(R[k]), Carried(R[k])[j].test = t, ~moved \/ back
      PROVE  Waited(moved, k, j) \in Copies(t)'
  <2>1. CASE ~moved
    <3>1. waiting' = R /\ Waited(moved, k, j) = <<"waiting", 0, k, j>>
      BY <2>1 DEF Collects, Waited
    <3>2. Waited(moved, k, j) \in Waiting(t)'
      BY <1>0, <3>1, PlacesAreNext
    <3> QED BY <3>2 DEF Copies
  <2>2. CASE moved /\ k # 1
    <3>1. /\ k - 1 \in DOMAIN waiting' /\ waiting'[k - 1] = R[k]
          /\ Waited(moved, k, j) = <<"waiting", 0, k - 1, j>>
      BY <2>2 DEF Collects, Waited
    <3>2. Waited(moved, k, j) \in Waiting(t)'
      BY <1>0, <3>1, PlacesAreNext
    <3> QED BY <3>2 DEF Copies
  <2>3. CASE moved /\ back /\ k = 1
    <3>1. /\ Len(queue) \in Nat /\ DOMAIN queue' = 1..(Len(queue) + 1)
          /\ queue'[Len(queue) + 1] = RetryItem(R[k]) /\ R \in Seq(Result)
      BY <2>3 DEF Collects
    <3>2. R[k] \in Result /\ Len(queue) + 1 \in DOMAIN queue'
      BY <3>1, ElementOfSeq, LenProperties
    <3>3. j \in DOMAIN RetryItem(R[k]).work /\ RetryItem(R[k]).work[j].test = t
      BY <1>0, <3>2, RetryCarries
    <3>4. Waited(moved, k, j) = <<"queue", 0, Len(queue) + 1, j>>
      BY <2>3 DEF Waited
    <3>5. Waited(moved, k, j) \in Queued(t)'
      BY <3>1, <3>2, <3>3, <3>4, PlacesAreNext
    <3> QED BY <3>5 DEF Copies
  <2> QED BY <1>0, <2>1, <2>2, <2>3
<1> SUFFICES ASSUME ~moved \/ back PROVE Collected(moved, r) \in Copies(t)'
  OBVIOUS
<1>1. CASE r \in Sent(t)
  <2>1. PICK k, j : /\ k \in DOMAIN results /\ j \in DOMAIN Carried(results[k])
                    /\ r = <<"results", 0, k, j>> /\ Carried(results[k])[j].test = t
    BY <1>1, PlacesAre
  <2>2. CASE k = 1
    <3>1. results[1].retry
      BY <2>1, <2>2 DEF Gone
    <3>2. Len(waiting) + 1 \in DOMAIN R /\ R[Len(waiting) + 1] = results[1]
      BY <3>1 DEF Collects
    <3>3. Collected(moved, r) = Waited(moved, Len(waiting) + 1, j)
      BY <2>1, <2>2 DEF Collected
    <3> QED BY <1>0, <2>1, <2>2, <3>2, <3>3
  <2>3. CASE k # 1
    <3>1. k - 1 \in DOMAIN results' /\ results'[k - 1] = results[k]
      BY <2>1, <2>3 DEF Collects
    <3>2. Collected(moved, r) = <<"results", 0, k - 1, j>>
      BY <2>1, <2>3 DEF Collected
    <3>3. Collected(moved, r) \in Sent(t)'
      BY <2>1, <3>1, <3>2, PlacesAreNext
    <3> QED BY <3>3 DEF Copies
  <2> QED BY <2>2, <2>3
<1>2. CASE r \in Waiting(t)
  <2>1. PICK k, j : /\ k \in DOMAIN waiting /\ j \in DOMAIN Carried(waiting[k])
                    /\ r = <<"waiting", 0, k, j>> /\ Carried(waiting[k])[j].test = t
    BY <1>2, PlacesAre
  <2>2. k \in DOMAIN R /\ R[k] = waiting[k]
    <3>1. /\ Len(waiting) \in Nat /\ DOMAIN waiting = 1..Len(waiting)
          /\ DOMAIN R = 1..(IF results[1].retry THEN Len(waiting) + 1 ELSE Len(waiting))
          /\ \A i \in DOMAIN waiting : R[i] = waiting[i]
      BY DEF Collects
    <3> QED BY <2>1, <3>1
  <2>3. Collected(moved, r) = Waited(moved, k, j)
    BY <2>1 DEF Collected
  <2> QED BY <1>0, <2>1, <2>2, <2>3
<1>3. CASE r \in Queued(t)
  <2>1. PICK k, j : /\ k \in DOMAIN queue /\ j \in DOMAIN queue[k].work
                    /\ r = <<"queue", 0, k, j>> /\ queue[k].work[j].test = t
    BY <1>3, PlacesAre
  <2>2. k \in DOMAIN queue' /\ queue'[k] = queue[k]
    <3>1. /\ Len(queue) \in Nat /\ DOMAIN queue = 1..Len(queue)
          /\ ~back => queue' = queue
          /\ back => /\ DOMAIN queue' = 1..(Len(queue) + 1)
                     /\ \A i \in DOMAIN queue : queue'[i] = queue[i]
      BY DEF Collects
    <3> QED BY <2>1, <3>1
  <2>3. r \in Queued(t)' /\ Collected(moved, r) = r
    BY <2>1, <2>2, PlacesAreNext DEF Collected
  <2> QED BY <2>3 DEF Copies
<1>4. CASE r \in Pending(t) \cup InHand(t) \cup Unsent(t)
  <2>1. r \in Pending(t)' \cup InHand(t)' \cup Unsent(t)'
    BY <1>4 DEF Pending, InHand, Unsent, Collects
  <2>2. r[1] \in {"pending", "item", "out"}
    BY <1>4, PlacesAre
  <2>3. r = Collected(moved, r)
    BY <2>2 DEF Collected
  <2> QED BY <2>1, <2>3 DEF Copies
<1> QED BY <1>1, <1>2, <1>3, <1>4 DEF Copies

(* The result collected is the only place of its test, which has no        *)
(* verdict yet; and if it is the verdict, it is gone with that place.      *)
LEMMA CollectedIs ==
  ASSUME IInv, Ledger, 1 \in DOMAIN results, results[1] \in Result
  PROVE  /\ results[1].test \in Tests /\ results[1].test \notin settled
         /\ results[1].retry \in BOOLEAN /\ results[1].status \in Status
         /\ \A s \in Copies(results[1].test) : s = <<"results", 0, 1, 1>>
         /\ \A t \in Tests : \A s \in Copies(t) : Gone(s) => t = results[1].test
<1> DEFINE r == results[1]
<1>1. r.test \in Tests /\ r.retry \in BOOLEAN /\ r.status \in Status
  BY DEF Result
<1>2. 1 \in DOMAIN Carried(r) /\ Carried(r)[1].test = r.test
  BY RetryCarries
<1>3. <<"results", 0, 1, 1>> \in Sent(r.test)
  BY <1>2, PlacesAre
<1>4. <<"results", 0, 1, 1>> \in Copies(r.test)
  BY <1>3 DEF Copies
<1>5. ASSUME NEW t \in Tests, NEW s \in Copies(t), Gone(s) PROVE t = r.test
  <2>1. s[1] = "results" /\ s[3] = 1 /\ ~r.retry
    BY <1>5 DEF Gone
  <2>2. s \in Sent(t)
    BY <2>1, <1>5, PlacesAre DEF Copies
  <2>3. PICK k, j : /\ k \in DOMAIN results /\ j \in DOMAIN Carried(results[k])
                    /\ s = <<"results", 0, k, j>> /\ Carried(results[k])[j].test = t
    BY <2>2, PlacesAre
  <2>4. k = 1 /\ j \in DOMAIN Carried(r) /\ Carried(r)[j].test = t
    BY <2>1, <2>3
  <2>5. r.tail = <<>>
    BY <2>1 DEF Ledger, Attempts, Honest
  <2>6. j = 1
    BY <2>4, <2>5, CarriedAlone
  <2> QED BY <2>4, <2>6, <1>2
<1> QED BY <1>1, <1>4, <1>5 DEF Ledger, Once

(* The count of verdicts reaches the number of tests when each has one.    *)
LEMMA AllSettled ==
  ASSUME TypeOK, Counted, finalCount >= Total
  PROVE  settled = Tests
<1>1. settled \in SUBSET Tests /\ IsFiniteSet(Tests) /\ finalCount = Cardinality(settled)
  BY RunAssumption DEF TypeOK, Counted
<1>2. /\ IsFiniteSet(settled) /\ Cardinality(settled) <= Cardinality(Tests)
      /\ Cardinality(Tests) = Cardinality(settled) => Tests = settled
  BY <1>1, FS_Subset
<1>3. Cardinality(settled) \in Nat /\ Cardinality(Tests) \in Nat
  BY <1>1, <1>2, FS_CardinalityType
<1>4. finalCount >= Cardinality(Tests)
  BY DEF Total
<1> QED BY <1>1, <1>2, <1>3, <1>4

(* So each test stays in one place at most, ...                            *)
LEMMA CollectOnce ==
  ASSUME IInv, Ledger, NEW R, NEW moved \in BOOLEAN, NEW back \in BOOLEAN, Collects(R, moved, back)
  PROVE  Once'
<1>1. /\ \A t \in Tests : \A s \in Copies(t)' : \E r \in Copies(t) : ~Gone(r) /\ s = Collected(moved, r)
  BY CollectBack
<1>2. 1 \in DOMAIN results /\ results[1] \in Result
  BY DEF Collects
<1>3. settled' = (IF results[1].retry THEN settled ELSE settled \cup {results[1].test})
  BY DEF Collects
<1> SUFFICES ASSUME NEW t \in Tests
             PROVE  /\ \A r, s \in Copies(t)' : r = s
                    /\ t \in settled' => Copies(t)' = {}
  BY DEF Once
<1>4. \A r, s \in Copies(t)' : r = s
  BY <1>1 DEF Ledger, Once
<1>5. CASE t \in settled
  <2>1. Copies(t) = {}
    BY <1>5 DEF Ledger, Once
  <2> QED BY <1>1, <1>4, <2>1
<1>6. CASE t \in settled' /\ t \notin settled
  <2>1. t = results[1].test /\ ~results[1].retry
    BY <1>3, <1>6
  <2>2. \A s \in Copies(t) : Gone(s)
    BY <2>1, <1>2, CollectedIs DEF Gone
  <2> QED BY <1>1, <1>4, <2>2
<1> QED BY <1>4, <1>5, <1>6

(* ... in one at least unless the run was stopped, for a queue closed      *)
(* without a stop is one that every test left, ...                         *)
LEMMA CollectKept ==
  ASSUME IInv, Ledger, NEW R, NEW moved \in BOOLEAN, NEW back \in BOOLEAN, Collects(R, moved, back),
         MayLose => MayLose'
  PROVE  Kept'
<1>1. 1 \in DOMAIN results /\ results[1] \in Result
  BY DEF Collects
<1>2. settled' = (IF results[1].retry THEN settled ELSE settled \cup {results[1].test})
  BY DEF Collects
<1> SUFFICES ASSUME NEW t \in Tests, ~MayLose', t \notin settled' PROVE Copies(t)' # {}
  BY DEF Kept
<1>3. ~MayLose /\ t \notin settled
  BY <1>2
<1>4. PICK r \in Copies(t) : TRUE
  BY <1>3 DEF Ledger, Kept
<1>5. ~Gone(r)
  <2>1. SUFFICES ASSUME Gone(r) PROVE FALSE
    OBVIOUS
  <2>2. t = results[1].test /\ ~results[1].retry
    BY <2>1, <1>1, CollectedIs DEF Gone
  <2> QED BY <2>2, <1>2
<1>6. ~(moved /\ ~back)
  <2> SUFFICES ASSUME moved, ~back PROVE FALSE
    OBVIOUS
  <2>1. closed \/ stopped'
    BY DEF Collects
  <2>2. ~stopped' /\ ~stopped
    BY <1>3 DEF MayLose
  <2>3. finalCount >= Total
    BY <2>1, <2>2 DEF Ledger, Reasons
  <2>4. settled = Tests
    BY <2>3, AllSettled DEF IInv, Ledger
  <2> QED BY <2>4, <1>3
<1>7. Collected(moved, r) \in Copies(t)'
  BY <1>5, <1>6, CollectForth
<1> QED BY <1>7

(* ... and the count follows the verdicts.                                 *)
LEMMA CollectCounted ==
  ASSUME IInv, Ledger, Collect
  PROVE  Counted'
<1>1. results \in Seq(Result) /\ results # <<>> /\ settled \in SUBSET Tests /\ IsFiniteSet(Tests)
  BY RunAssumption DEF IInv, TypeOK, Collect
<1>2. 1 \in DOMAIN results /\ results[1] \in Result /\ Head(results) = results[1]
  BY <1>1
<1>3. /\ finalCount' = finalCount + (IF results[1].retry THEN 0 ELSE 1)
      /\ settled' = IF results[1].retry THEN settled ELSE settled \cup {results[1].test}
  BY <1>2 DEF Collect
<1>4. results[1].test \notin settled
  BY <1>2, CollectedIs
<1>5. IsFiniteSet(settled)
  BY <1>1, FS_Subset
<1>6. Cardinality(settled \cup {results[1].test}) = Cardinality(settled) + 1 /\ Cardinality(settled) \in Nat
  BY <1>4, <1>5, FS_AddElement, FS_CardinalityType
<1> QED BY <1>3, <1>6 DEF Ledger, Counted

(* Work to run and work carried is made of assignments.                    *)
LEMMA WorkTypes ==
  ASSUME TypeOK
  PROVE  /\ \A k \in DOMAIN queue : queue[k] \in Item
         /\ \A i \in Item : i.work \in Seq(Assignment) /\ \A j \in DOMAIN i.work : i.work[j] \in Assignment
         /\ \A w \in Workers : pending[w] \in Item /\ item[w] \in Item
         /\ \A w \in Workers : \A k \in DOMAIN out[w] : out[w][k] \in Result
         /\ \A k \in DOMAIN results : results[k] \in Result
         /\ \A k \in DOMAIN waiting : waiting[k] \in Result
<1>1. /\ queue \in Seq(Item) /\ results \in Seq(Result) /\ waiting \in Seq(Result)
      /\ pending \in [Workers -> Item] /\ item \in [Workers -> Item]
      /\ out \in [Workers -> Seq(Result)]
  BY DEF TypeOK
<1>2. ASSUME NEW S, NEW s \in Seq(S) PROVE \A k \in DOMAIN s : s[k] \in S
  BY <1>2
<1>3. \A i \in Item : i.work \in Seq(Assignment)
  BY DEF Item
<1>4. \A i \in Item : \A j \in DOMAIN i.work : i.work[j] \in Assignment
  BY <1>2, <1>3
<1>5. \A k \in DOMAIN queue : queue[k] \in Item
  BY <1>1, <1>2
<1>6. /\ \A k \in DOMAIN results : results[k] \in Result
      /\ \A k \in DOMAIN waiting : waiting[k] \in Result
      /\ \A w \in Workers : \A k \in DOMAIN out[w] : out[w][k] \in Result
  BY <1>1, <1>2
<1> QED BY <1>1, <1>3, <1>4, <1>5, <1>6

(* What a result carries is made of assignments, its own and its tail's.   *)
LEMMA CarriedTypes ==
  ASSUME NEW r \in Result
  PROVE  /\ \A j \in DOMAIN Carried(r) : Carried(r)[j] \in Assignment
         /\ \A j \in DOMAIN r.tail : r.tail[j] \in Assignment /\ j + 1 \in DOMAIN Carried(r)
                                     /\ j + 1 # 1 /\ r.tail[j] = Carried(r)[j + 1]
         /\ \A j \in DOMAIN Carried(r) : j # 1 => j - 1 \in DOMAIN r.tail /\ Carried(r)[j] = r.tail[j - 1]
         /\ 1 \in DOMAIN Carried(r) /\ Carried(r)[1].test = r.test /\ Carried(r)[1].attempt = r.attempt
<1> DEFINE m == Len(r.tail)
<1>1. /\ m \in Nat /\ DOMAIN Carried(r) = 1..(1 + m)
      /\ Carried(r)[1] = [test |-> r.test, attempt |-> r.attempt]
      /\ \A j \in 1..m : Carried(r)[j + 1] = r.tail[j]
  BY CarriedIs
<1>2. r.tail \in Seq(Assignment) /\ r.test \in Tests /\ r.attempt \in Nat
  BY DEF Result
<1>3. DOMAIN r.tail = 1..m /\ \A j \in 1..m : r.tail[j] \in Assignment
  BY <1>2, LenProperties, ElementOfSeq
<1>4. Carried(r)[1] \in Assignment /\ Carried(r)[1].test = r.test /\ Carried(r)[1].attempt = r.attempt
  BY <1>1, <1>2 DEF Assignment
<1> HIDE DEF m
<1>5. ASSUME NEW j \in 1..(1 + m), j # 1 
      PROVE  j - 1 \in 1..m /\ Carried(r)[j] = r.tail[j - 1] /\ Carried(r)[j] \in Assignment
  <2>1. j - 1 \in 1..m /\ (j - 1) + 1 = j
    BY <1>1, <1>5
  <2> QED BY <2>1, <1>1, <1>3
<1>6. 1 \in 1..(1 + m) /\ \A j \in 1..m : j + 1 \in 1..(1 + m) /\ j + 1 # 1
  BY <1>1
<1> QED BY <1>1, <1>3, <1>4, <1>5, <1>6

(* Whatever is not the result collected, or its own place in it, is about  *)
(* other tests.                                                            *)
LEMMA OtherTests ==
  ASSUME IInv, Ledger, 1 \in DOMAIN results, results[1] \in Result
  PROVE  LET Others == Tests \ {results[1].test} IN
         /\ \A k \in DOMAIN queue : \A j \in DOMAIN queue[k].work : queue[k].work[j].test \in Others
         /\ \A w \in Workers : \A j \in DOMAIN pending[w].work : pending[w].work[j].test \in Others
         /\ \A w \in Workers : \A j \in DOMAIN item[w].work : item[w].work[j].test \in Others
         /\ \A w \in Workers : \A k \in DOMAIN out[w] : \A j \in DOMAIN Carried(out[w][k]) :
              Carried(out[w][k])[j].test \in Others
         /\ \A k \in DOMAIN results : \A j \in DOMAIN Carried(results[k]) :
              k # 1 \/ j # 1 => Carried(results[k])[j].test \in Others
         /\ \A k \in DOMAIN waiting : \A j \in DOMAIN Carried(waiting[k]) :
              Carried(waiting[k])[j].test \in Others
<1> DEFINE t0 == results[1].test
           Others == Tests \ {t0}
<1>0. \A s \in Copies(t0) : s = <<"results", 0, 1, 1>>
  BY CollectedIs
<1>1. \A a \in Assignment : a.test \in Tests
  BY DEF Assignment
<1>2. TypeOK
  BY DEF IInv
<1>3. ASSUME NEW k \in DOMAIN queue, NEW j \in DOMAIN queue[k].work PROVE queue[k].work[j].test \in Others
  <2>1. queue[k].work[j].test \in Tests
    BY <1>1, <1>2, WorkTypes
  <2>2. queue[k].work[j].test = t0 => <<"queue", 0, k, j>> \in Queued(t0)
    BY PlacesAre
  <2> QED BY <1>0, <2>1, <2>2 DEF Copies
<1>4. ASSUME NEW w \in Workers, NEW j \in DOMAIN pending[w].work PROVE pending[w].work[j].test \in Others
  <2>1. pending[w].work[j].test \in Tests
    BY <1>1, <1>2, WorkTypes
  <2>2. pending[w].work[j].test = t0 => <<"pending", w, 0, j>> \in Pending(t0)
    BY PlacesAre
  <2> QED BY <1>0, <2>1, <2>2 DEF Copies
<1>5. ASSUME NEW w \in Workers, NEW j \in DOMAIN item[w].work PROVE item[w].work[j].test \in Others
  <2>1. item[w].work[j].test \in Tests
    BY <1>1, <1>2, WorkTypes
  <2>2. item[w].work[j].test = t0 => <<"item", w, 0, j>> \in InHand(t0)
    BY PlacesAre
  <2> QED BY <1>0, <2>1, <2>2 DEF Copies
<1>6. ASSUME NEW w \in Workers, NEW k \in DOMAIN out[w], NEW j \in DOMAIN Carried(out[w][k])
      PROVE  Carried(out[w][k])[j].test \in Others
  <2>1. Carried(out[w][k])[j].test \in Tests
    BY <1>1, <1>2, WorkTypes, CarriedTypes
  <2>2. Carried(out[w][k])[j].test = t0 => <<"out", w, k, j>> \in Unsent(t0)
    BY PlacesAre
  <2> QED BY <1>0, <2>1, <2>2 DEF Copies
<1>7. ASSUME NEW k \in DOMAIN results, NEW j \in DOMAIN Carried(results[k]), k # 1 \/ j # 1
      PROVE  Carried(results[k])[j].test \in Others
  <2>1. Carried(results[k])[j].test \in Tests
    BY <1>1, <1>2, WorkTypes, CarriedTypes
  <2>2. Carried(results[k])[j].test = t0 => <<"results", 0, k, j>> \in Sent(t0)
    BY PlacesAre
  <2> QED BY <1>0, <1>7, <2>1, <2>2 DEF Copies
<1>8. ASSUME NEW k \in DOMAIN waiting, NEW j \in DOMAIN Carried(waiting[k])
      PROVE  Carried(waiting[k])[j].test \in Others
  <2>1. Carried(waiting[k])[j].test \in Tests
    BY <1>1, <1>2, WorkTypes, CarriedTypes
  <2>2. Carried(waiting[k])[j].test = t0 => <<"waiting", 0, k, j>> \in Waiting(t0)
    BY PlacesAre
  <2> QED BY <1>0, <2>1, <2>2 DEF Copies
<1> QED BY <1>3, <1>4, <1>5, <1>6, <1>7, <1>8

(* The history grows by one status, of the test collected.                 *)
LEMMA HistoryGrows ==
  ASSUME TypeOK, 1 \in DOMAIN results, results[1] \in Result,
         history' = [history EXCEPT ![results[1].test] = Append(@, results[1].status)]
  PROVE  /\ \A t \in Tests \ {results[1].test} : history'[t] = history[t]
         /\ Len(history'[results[1].test]) = Len(history[results[1].test]) + 1
         /\ Len(history[results[1].test]) \in Nat
         /\ history'[results[1].test] = Append(history[results[1].test], results[1].status)
         /\ results[1].test \in Tests
<1>1. history \in [Tests -> Seq(Status)] /\ results[1].test \in Tests /\ results[1].status \in Status
  BY DEF TypeOK, Result
<1>2. history[results[1].test] \in Seq(Status)
  BY <1>1
<1> QED BY <1>1, <1>2, AppendProperties, LenProperties

(* What is due, and about other tests, stays due.                          *)
LEMMA StaysDue ==
  ASSUME NEW t0, \A t \in Tests \ {t0} : history'[t] = history[t], NEW work, Due(history, work),
         \A j \in DOMAIN work : work[j].test \in Tests \ {t0}
  PROVE  Due(history', work)
BY DEF Due

(* The attempts due follow the history.                                    *)
LEMMA CollectAttempts ==
  ASSUME IInv, Ledger, NEW R, NEW moved \in BOOLEAN, NEW back \in BOOLEAN, Collects(R, moved, back)
  PROVE  Attempts' /\ \A k \in DOMAIN R : R[k] \in Result /\ R[k].retry
<1> DEFINE r0 == results[1]
           t0 == r0.test
<1>1. /\ 1 \in DOMAIN results /\ r0 \in Result
      /\ history' = [history EXCEPT ![t0] = Append(@, r0.status)]
      /\ UNCHANGED <<item, pending, out>>
  BY DEF Collects
<1>2. /\ \A t \in Tests \ {t0} : history'[t] = history[t]
      /\ Len(history'[t0]) = Len(history[t0]) + 1 /\ Len(history[t0]) \in Nat
  BY <1>1, HistoryGrows DEF IInv
<1>3. /\ \A k \in DOMAIN waiting : waiting[k] \in Result
      /\ \A k \in DOMAIN results : results[k] \in Result
      /\ \A w \in Workers : \A k \in DOMAIN out[w] : out[w][k] \in Result
  BY WorkTypes DEF IInv
<1>4. ASSUME NEW r \in Result, Waits(history, r), r.retry,
             \A j \in DOMAIN Carried(r) : Carried(r)[j].test \in Tests \ {t0}
      PROVE  Waits(history', r)
  <2>1. Due(history', r.tail)
    <3>1. \A j \in DOMAIN r.tail : j + 1 \in DOMAIN Carried(r) /\ r.tail[j] = Carried(r)[j + 1]
      BY CarriedTypes
    <3>2. \A j \in DOMAIN r.tail : r.tail[j].test \in Tests \ {t0}
      BY <3>1, <1>4
    <3>3. Due(history, r.tail)
      BY <1>4 DEF Waits
    <3> QED BY <1>2, <3>2, <3>3, StaysDue
  <2>2. r.test \in Tests \ {t0}
    BY <1>4, CarriedTypes
  <2> QED BY <1>2, <1>4, <2>1, <2>2 DEF Waits
<1>5. ASSUME r0.retry PROVE Waits(history', r0)
  <2>1. Honest(history, r0)
    BY <1>1 DEF Ledger, Attempts
  <2>2. Due(history, Carried(r0)) /\ r0.attempt < MaxAttempts[t0]
    BY <2>1, <1>5 DEF Honest
  <2>3. r0.attempt = Len(history[t0]) + 1
    <3>1. 1 \in DOMAIN Carried(r0) /\ Carried(r0)[1].test = t0 /\ Carried(r0)[1].attempt = r0.attempt
      BY <1>1, CarriedTypes
    <3> QED BY <3>1, <2>2 DEF Due
  <2>4. \A j \in DOMAIN r0.tail : r0.tail[j].test \in Tests \ {t0}
    <3> TAKE j \in DOMAIN r0.tail
    <3>1. j + 1 \in DOMAIN Carried(r0) /\ j + 1 # 1 /\ r0.tail[j] = Carried(r0)[j + 1]
      BY <1>1, CarriedTypes
    <3>2. Carried(r0)[j + 1].test \in Tests \ {t0}
      BY <3>1, <1>1, OtherTests
    <3> QED BY <3>1, <3>2
  <2>5. Due(history, r0.tail)
    <3>1. \A j \in DOMAIN r0.tail : j + 1 \in DOMAIN Carried(r0) /\ r0.tail[j] = Carried(r0)[j + 1]
      BY <1>1, CarriedTypes
    <3> QED BY <3>1, <2>2 DEF Due
  <2>6. Due(history', r0.tail)
    BY <1>2, <2>4, <2>5, StaysDue
  <2> QED BY <1>2, <2>2, <2>3, <2>6 DEF Waits
<1>6. ASSUME NEW k \in DOMAIN R PROVE R[k] \in Result /\ R[k].retry /\ Waits(history', R[k])
  <2>1. CASE k \in DOMAIN waiting
    <3>1. R[k] = waiting[k]
      BY <2>1 DEF Collects
    <3>2. waiting[k] \in Result /\ waiting[k].retry /\ Waits(history, waiting[k])
      BY <2>1, <1>3 DEF Ledger, Attempts
    <3>3. \A j \in DOMAIN Carried(waiting[k]) : Carried(waiting[k])[j].test \in Tests \ {t0}
      BY <2>1, <1>1, OtherTests
    <3>4. Waits(history', waiting[k])
      BY <1>4, <3>2, <3>3
    <3> QED BY <3>1, <3>2, <3>4
  <2>2. CASE k \notin DOMAIN waiting
    <3>1. r0.retry /\ R[k] = r0
      <4>1. /\ Len(waiting) \in Nat /\ DOMAIN waiting = 1..Len(waiting)
            /\ DOMAIN R = 1..(IF r0.retry THEN Len(waiting) + 1 ELSE Len(waiting))
            /\ r0.retry => R[Len(waiting) + 1] = r0
        BY DEF Collects
      <4> QED BY <1>6, <2>2, <4>1
    <3> QED BY <3>1, <1>1, <1>5
  <2> QED BY <2>1, <2>2
<1>7. ASSUME NEW k \in DOMAIN queue' PROVE Due(history', queue'[k].work)
  <2>1. CASE k \in DOMAIN queue
    <3>1. queue'[k] = queue[k]
      BY <2>1 DEF Collects
    <3>2. /\ Due(history, queue[k].work)
          /\ \A j \in DOMAIN queue[k].work : queue[k].work[j].test \in Tests \ {t0}
      BY <2>1, <1>1, OtherTests DEF Ledger, Attempts
    <3> QED BY <3>1, <3>2, <1>2, StaysDue
  <2>2. CASE k \notin DOMAIN queue
    <3>1. queue'[k] = RetryItem(R[1]) /\ 1 \in DOMAIN R
      <4>1. /\ Len(queue) \in Nat /\ DOMAIN queue = 1..Len(queue)
            /\ ~back => queue' = queue
            /\ back => /\ moved /\ DOMAIN queue' = 1..(Len(queue) + 1)
                       /\ queue'[Len(queue) + 1] = RetryItem(R[1])
            /\ moved => 1 \in DOMAIN R
        BY DEF Collects
      <4> QED BY <1>7, <2>2, <4>1
    <3> DEFINE r == R[1]
               work == RetryItem(r).work
    <3>2. r \in Result /\ Waits(history', r)
      BY <3>1, <1>6
    <3>3. /\ DOMAIN work = DOMAIN Carried(r) /\ work[1].attempt = r.attempt + 1 /\ work[1].test = r.test
          /\ \A j \in DOMAIN Carried(r) : j # 1 => work[j] = Carried(r)[j]
      BY <3>2, RetryCarries
    <3>4. \A j \in DOMAIN Carried(r) : j # 1 => j - 1 \in DOMAIN r.tail /\ Carried(r)[j] = r.tail[j - 1]
      BY <3>2, CarriedTypes
    <3>5. r.test \in Tests /\ MaxAttempts[r.test] \in Nat /\ r.attempt \in Nat
      BY <3>2, RunAssumption DEF Result
    <3> HIDE DEF r, work
    <3>6. Due(history', work)
      BY <3>2, <3>3, <3>4, <3>5 DEF Due, Waits
    <3> QED BY <3>1, <3>6 DEF work, r
  <2> QED BY <2>1, <2>2
<1>8. ASSUME NEW w \in Workers PROVE Due(history', pending'[w].work) /\ Due(history', item'[w].work)
  <2>1. /\ Due(history, pending[w].work) /\ Due(history, item[w].work)
        /\ \A j \in DOMAIN pending[w].work : pending[w].work[j].test \in Tests \ {t0}
        /\ \A j \in DOMAIN item[w].work : item[w].work[j].test \in Tests \ {t0}
    BY <1>1, OtherTests DEF Ledger, Attempts
  <2> QED BY <2>1, <1>1, <1>2, StaysDue
<1>9. ASSUME NEW w \in Workers, NEW k \in DOMAIN out'[w] PROVE Honest(history', out'[w][k])
  <2>1. /\ k \in DOMAIN out[w] /\ out'[w][k] = out[w][k] /\ Honest(history, out[w][k])
        /\ \A j \in DOMAIN Carried(out[w][k]) : Carried(out[w][k])[j].test \in Tests \ {t0}
    BY <1>1, <1>9, OtherTests DEF Ledger, Attempts
  <2>2. Due(history', Carried(out[w][k]))
    BY <2>1, <1>2, StaysDue DEF Honest
  <2> QED BY <2>1, <2>2 DEF Honest
<1>10. ASSUME NEW k \in DOMAIN results' PROVE Honest(history', results'[k])
  <2>1. k + 1 \in DOMAIN results /\ k + 1 # 1 /\ results'[k] = results[k + 1]
    BY <1>10 DEF Collects
  <2> DEFINE r == results[k + 1]
  <2>2. Honest(history, r) /\ \A j \in DOMAIN Carried(r) : Carried(r)[j].test \in Tests \ {t0}
    BY <2>1, <1>1, OtherTests DEF Ledger, Attempts
  <2>3. Due(history', Carried(r))
    BY <2>2, <1>2, StaysDue DEF Honest
  <2>4. Honest(history', r)
    BY <2>2, <2>3 DEF Honest
  <2> QED BY <2>1, <2>4
<1>11. ASSUME NEW k \in DOMAIN waiting' PROVE waiting'[k].retry /\ Waits(history', waiting'[k])
  <2>1. CASE moved
    <3>1. k + 1 \in DOMAIN R /\ waiting'[k] = R[k + 1]
      BY <1>11, <2>1 DEF Collects
    <3> QED BY <3>1, <1>6
  <2>2. CASE ~moved
    <3>1. waiting' = R
      BY <2>2 DEF Collects
    <3> QED BY <3>1, <1>6, <1>11
  <2> QED BY <2>1, <2>2
<1> QED BY <1>6, <1>7, <1>8, <1>9, <1>10, <1>11 DEF Attempts

(* A group's rest is put back behind its verdicts.                         *)
LEMMA CollectOrdered ==
  ASSUME IInv, Ledger, NEW R, NEW moved \in BOOLEAN, NEW back \in BOOLEAN, Collects(R, moved, back)
  PROVE  Ordered'
<1> DEFINE r0 == results[1]
<1>1. /\ 1 \in DOMAIN results /\ r0 \in Result
      /\ settled' = (IF r0.retry THEN settled ELSE settled \cup {r0.test})
      /\ UNCHANGED <<item, pending, out>>
  BY DEF Collects
<1>2. Behind \subseteq Behind'
  <2>1. ASSUME NEW r \in ResultsInFlight, ~r.retry PROVE r \in ResultsInFlight' \/ r.test \in settled'
    <3>1. CASE r \in Range(results)
      <4>1. PICK k \in DOMAIN results : r = results[k]
        BY <3>1 DEF Range
      <4>2. CASE k = 1
        BY <4>1, <4>2, <1>1, <2>1
      <4>3. CASE k # 1
        <5>1. k - 1 \in DOMAIN results' /\ results'[k - 1] = r
          BY <4>1, <4>3 DEF Collects
        <5>2. r \in Range(results')
          BY <5>1 DEF Range
        <5> QED BY <5>2 DEF ResultsInFlight
      <4> QED BY <4>2, <4>3
    <3>2. CASE r \notin Range(results)
      BY <3>2, <1>1, <2>1 DEF ResultsInFlight
    <3> QED BY <3>1, <3>2
  <2>2. settled \subseteq settled'
    BY <1>1
  <2> QED BY <2>1, <2>2 DEF Behind
<1>3. /\ \A i : RestItem(Behind, i) => RestItem(Behind', i)
      /\ \A r : RestResult(Behind, r) => RestResult(Behind', r)
  BY <1>2, RestGrows
<1>4. ASSUME NEW k \in DOMAIN R PROVE RestResult(Behind', R[k]) /\ R[k] \in Result /\ R[k].retry
  <2>1. R[k] \in Result /\ R[k].retry
    BY CollectAttempts
  <2>2. CASE k \in DOMAIN waiting
    <3>1. R[k] = waiting[k]
      BY <2>2 DEF Collects
    <3> QED BY <2>1, <2>2, <3>1, <1>3 DEF Ledger, Ordered
  <2>3. CASE k \notin DOMAIN waiting
    <3>1. R[k] = r0
      <4>1. /\ Len(waiting) \in Nat /\ DOMAIN waiting = 1..Len(waiting)
            /\ DOMAIN R = 1..(IF r0.retry THEN Len(waiting) + 1 ELSE Len(waiting))
            /\ r0.retry => R[Len(waiting) + 1] = r0
        BY DEF Collects
      <4> QED BY <1>4, <2>3, <4>1
    <3> QED BY <2>1, <3>1, <1>1, <1>3 DEF Ledger, Ordered
  <2> QED BY <2>2, <2>3
<1>5. ASSUME NEW k \in DOMAIN queue' PROVE RestItem(Behind', queue'[k])
  <2>1. CASE k \in DOMAIN queue
    <3>1. queue'[k] = queue[k]
      BY <2>1 DEF Collects
    <3> QED BY <2>1, <3>1, <1>3 DEF Ledger, Ordered
  <2>2. CASE k \notin DOMAIN queue
    <3>1. queue'[k] = RetryItem(R[1]) /\ 1 \in DOMAIN R
      <4>1. /\ Len(queue) \in Nat /\ DOMAIN queue = 1..Len(queue)
            /\ ~back => queue' = queue
            /\ back => /\ moved /\ DOMAIN queue' = 1..(Len(queue) + 1)
                       /\ queue'[Len(queue) + 1] = RetryItem(R[1])
            /\ moved => 1 \in DOMAIN R
        BY DEF Collects
      <4> QED BY <1>5, <2>2, <4>1
    <3> DEFINE r == R[1]
               a == Carried(r)
               b == RetryItem(r).work
               C == Behind'
    <3>2. r \in Result /\ r.retry /\ RestResult(C, r)
      BY <3>1, <1>4
    <3>3. /\ Len(b) = Len(a) /\ DOMAIN a = 1..Len(a)
          /\ \A j \in DOMAIN a : b[j].test = a[j].test
          /\ RetryItem(r).serial = r.serial
      <4>1. Len(a) = 1 + Len(r.tail) /\ DOMAIN a = 1..(1 + Len(r.tail))
        BY <3>2, CarriedIs
      <4> QED BY <4>1, <3>2, RetryCarries, RetryItemIs
    <3>4. r.serial => Rest(C, a)
      BY <3>2 DEF RestResult
    <3> HIDE DEF a, b, C, r
    <3>5. r.serial => Rest(C, b)
      BY <3>3, <3>4, RestSame
    <3>6. RestItem(C, RetryItem(r))
      BY <3>3, <3>5 DEF RestItem, b
    <3> QED BY <3>1, <3>6 DEF r, C
  <2> QED BY <2>1, <2>2
<1>6. \A w \in Workers : RestItem(Behind', pending'[w]) /\ RestItem(Behind', item'[w])
  BY <1>1, <1>3 DEF Ledger, Ordered
<1>7. \A w \in Workers : \A k \in DOMAIN out'[w] : RestResult(Behind', out'[w][k])
  BY <1>1, <1>3 DEF Ledger, Ordered
<1>8. ASSUME NEW k \in DOMAIN results' PROVE RestResult(Behind', results'[k])
  <2>1. k + 1 \in DOMAIN results /\ results'[k] = results[k + 1]
    BY <1>8 DEF Collects
  <2> QED BY <2>1, <1>3 DEF Ledger, Ordered
<1>9. ASSUME NEW k \in DOMAIN waiting' PROVE RestResult(Behind', waiting'[k])
  <2>1. CASE moved
    <3>1. k + 1 \in DOMAIN R /\ waiting'[k] = R[k + 1]
      BY <1>9, <2>1 DEF Collects
    <3> QED BY <3>1, <1>4
  <2>2. CASE ~moved
    <3>1. waiting' = R
      BY <2>2 DEF Collects
    <3> QED BY <3>1, <1>4, <1>9
  <2> QED BY <2>1, <2>2
<1> QED BY <1>5, <1>6, <1>7, <1>8, <1>9 DEF Ordered

(* When the runner moves an isolated retry on, the retries that wait stand *)
(* for every test without a verdict: no other work is left.                *)
LEMMA NoOtherWork ==
  ASSUME IInv, Ledger, NEW R, NEW moved \in BOOLEAN, NEW back \in BOOLEAN, Collects(R, moved, back),
         Counted', moved, Isolated, NEW t \in Tests
  PROVE  AtWork(t) = {}
<1> DEFINE r0 == results[1]
           S == HeldPlaces(R)
           T == Tests \ settled'
           TestAt(k, j) == Carried(R[k])[j].test
           f == [p \in S |-> TestAt(p[1], p[2])]
           PlaceOf(k, j) == IF k \in DOMAIN waiting THEN <<"waiting", 0, k, j>> ELSE <<"results", 0, 1, j>>
<1>1. /\ 1 \in DOMAIN results /\ r0 \in Result
      /\ settled' = (IF r0.retry THEN settled ELSE settled \cup {r0.test})
      /\ Len(waiting) \in Nat /\ DOMAIN waiting = 1..Len(waiting)
      /\ DOMAIN R = 1..(IF r0.retry THEN Len(waiting) + 1 ELSE Len(waiting))
      /\ \A k \in DOMAIN waiting : R[k] = waiting[k]
      /\ r0.retry => R[Len(waiting) + 1] = r0
      /\ IsolatedTurn(finalCount', R)
  BY DEF Collects
<1>2. \A k \in DOMAIN R : R[k] \in Result
  BY CollectAttempts
<1>3. \A p : p \in S <=> \E k \in DOMAIN R : \E j \in DOMAIN Carried(R[k]) : p = <<k, j>>
  BY DEF HeldPlaces
<1>4. ASSUME NEW k \in DOMAIN R, NEW j \in DOMAIN Carried(R[k])
      PROVE  TestAt(k, j) \in T /\ PlaceOf(k, j) \in Copies(TestAt(k, j))
  <2> DEFINE u == TestAt(k, j)
  <2>1. u \in Tests
    BY <1>2, CarriedTypes DEF Assignment
  <2>2. CASE k \in DOMAIN waiting
    <3>1. PlaceOf(k, j) \in Waiting(u)
      BY <2>2, <1>1, PlacesAre
    <3>2. PlaceOf(k, j) \in Copies(u)
      BY <3>1 DEF Copies
    <3>3. u # r0.test
      <4>1. PlaceOf(k, j)[1] # "results"
        BY <2>2
      <4> QED BY <4>1, <3>2, <1>1, CollectedIs
    <3>4. u \notin settled
      BY <2>1, <3>2 DEF Ledger, Once
    <3> QED BY <2>1, <3>2, <3>3, <3>4, <1>1
  <2>3. CASE k \notin DOMAIN waiting
    <3>1. r0.retry /\ R[k] = r0
      BY <2>3, <1>1
    <3>2. PlaceOf(k, j) \in Sent(u)
      BY <2>3, <1>1, <3>1, PlacesAre
    <3>3. PlaceOf(k, j) \in Copies(u)
      BY <3>2 DEF Copies
    <3>4. u \notin settled
      BY <2>1, <3>3 DEF Ledger, Once
    <3> QED BY <2>1, <3>1, <3>3, <3>4, <1>1
  <2> QED BY <2>2, <2>3
<1>5. ASSUME NEW k \in DOMAIN R, NEW j \in DOMAIN Carried(R[k]),
             NEW l \in DOMAIN R, NEW i \in DOMAIN Carried(R[l]), TestAt(k, j) = TestAt(l, i)
      PROVE  k = l /\ j = i
  <2>1. PlaceOf(k, j) = PlaceOf(l, i)
    BY <1>4, <1>5 DEF Ledger, Once
  <2> QED BY <2>1, <1>1
<1>6. f \in Injection(S, T)
  <2>1. ASSUME NEW p \in S PROVE TestAt(p[1], p[2]) \in T
    <3>1. PICK k \in DOMAIN R : \E j \in DOMAIN Carried(R[k]) : p = <<k, j>>
      BY <1>3
    <3>2. PICK j \in DOMAIN Carried(R[k]) : p = <<k, j>>
      BY <3>1
    <3>3. TestAt(k, j) \in T
      BY <1>4
    <3> QED BY <3>2, <3>3
  <2>2. \A p, q \in S : f[p] = f[q] => p = q
    BY <1>3, <1>5
  <2> HIDE DEF S, T
  <2>3. f \in [S -> T]
    BY <2>1
  <2> QED BY <2>2, <2>3 DEF Injection, IsInjective
<1>7. IsFiniteSet(Tests) /\ settled' \in SUBSET Tests
  BY <1>1, RunAssumption DEF IInv, TypeOK, Result
<1>8. /\ IsFiniteSet(T) /\ IsFiniteSet(settled')
      /\ Cardinality(T) = Cardinality(Tests) - Cardinality(settled')
  <2>1. Tests \cap settled' = settled'
    BY <1>7
  <2> QED BY <1>7, <2>1, FS_Difference, FS_Subset
<1> HIDE DEF f, S, T
<1>9. /\ IsFiniteSet(S) /\ Cardinality(S) <= Cardinality(T)
      /\ Cardinality(S) = Cardinality(T) <=> f \in Surjection(S, T)
  BY <1>6, <1>8, FS_Injection
<1>10. /\ Cardinality(S) \in Nat /\ Cardinality(T) \in Nat /\ Cardinality(Tests) \in Nat
       /\ Cardinality(settled') \in Nat
  BY <1>7, <1>8, <1>9, FS_CardinalityType
<1>11. finalCount' = Cardinality(settled') /\ finalCount' + Cardinality(S) >= Cardinality(Tests)
  BY <1>1 DEF Counted, IsolatedTurn, Held, Total, S
<1>12. f \in Surjection(S, T)
  BY <1>8, <1>9, <1>10, <1>11
<1> SUFFICES ASSUME NEW r \in AtWork(t) PROVE FALSE
  OBVIOUS
<1>13. r \in Copies(t) /\ r[1] \in {"queue", "pending", "item"}
  BY AtWorkIs
<1>14. t \in T
  <2>1. t \notin settled
    BY <1>13 DEF Ledger, Once
  <2>2. t # r0.test
    BY <1>1, <1>13, CollectedIs
  <2> QED BY <2>1, <2>2, <1>1 DEF T
<1>15. PICK p \in S : f[p] = t
  BY <1>12, <1>14 DEF Surjection
<1>16. PICK k \in DOMAIN R : \E j \in DOMAIN Carried(R[k]) : p = <<k, j>>
  BY <1>3, <1>15 DEF S
<1>17. PICK j \in DOMAIN Carried(R[k]) : p = <<k, j>>
  BY <1>16
<1>18. TestAt(k, j) = t
  BY <1>15, <1>17 DEF f
<1>19. PlaceOf(k, j) \in Copies(t)
  BY <1>4, <1>18
<1>20. PlaceOf(k, j) = r
  BY <1>13, <1>19 DEF Ledger, Once
<1> QED BY <1>13, <1>20

(* A retry put back in its turn is all the work there is.                  *)
LEMMA CollectAlone ==
  ASSUME IInv, Ledger, NEW R, NEW moved \in BOOLEAN, NEW back \in BOOLEAN, Collects(R, moved, back),
         Counted'
  PROVE  Alone'
<1>1. /\ 1 \in DOMAIN results /\ results[1] \in Result
      /\ history' = [history EXCEPT ![results[1].test] = Append(@, results[1].status)]
  BY DEF Collects
<1> SUFFICES ASSUME Isolated, NEW t \in Tests, history'[t] # <<>>, NEW r \in AtWork(t)',
                    NEW u \in Tests, NEW s \in AtWork(u)'
             PROVE  SamePlace(r, s)
  BY DEF Alone
<1>2. /\ r \in Copies(t)' /\ r[1] \in {"queue", "pending", "item"}
      /\ s \in Copies(u)' /\ s[1] \in {"queue", "pending", "item"}
  BY AtWorkIs
<1>3. PICK r1 \in Copies(t) : r = Collected(moved, r1)
  BY <1>2, CollectBack
<1>4. PICK s1 \in Copies(u) : s = Collected(moved, s1)
  BY <1>2, CollectBack
<1>5. CASE moved
  <2>1. ASSUME NEW v \in Tests, NEW p \in Copies(v), Collected(moved, p)[1] \in {"queue", "pending", "item"}
        PROVE  \E j : Collected(moved, p) = <<"queue", 0, Len(queue) + 1, j>>
    <3>1. p \notin AtWork(v)
      BY <1>5, NoOtherWork
    <3>2. p[1] \notin {"queue", "pending", "item"}
      BY <3>1, AtWorkIs
    <3> QED BY <2>1, <3>2, <1>5 DEF Collected, Waited
  <2>2. PICK j : r = <<"queue", 0, Len(queue) + 1, j>>
    BY <2>1, <1>2, <1>3
  <2>3. PICK i : s = <<"queue", 0, Len(queue) + 1, i>>
    BY <2>1, <1>2, <1>4
  <2> QED BY <2>2, <2>3 DEF SamePlace
<1>6. CASE ~moved
  <2>1. r = r1 /\ s = s1
    BY <1>2, <1>3, <1>4, <1>6 DEF Collected, Waited
  <2>2. r \in AtWork(t) /\ s \in AtWork(u)
    BY <1>2, <1>3, <1>4, <2>1, AtWorkIs
  <2>3. t # results[1].test
    BY <1>1, <1>2, <1>3, <2>1, CollectedIs
  <2>4. history[t] # <<>>
    BY <1>1, <2>3, HistoryGrows DEF IInv
  <2> QED BY <2>2, <2>4 DEF Ledger, Alone
<1> QED BY <1>5, <1>6

(* An attempt that reads as unexpected on its own makes its test           *)
(* unexpected, whatever came before.                                       *)
LEMMA LastUnexpected ==
  ASSUME NEW h \in Seq(Status), NEW s \in Status, NEW e, OutcomeKind(<<s>>, e) = "Unexpected"
  PROVE  OutcomeKind(Append(h, s), e) = "Unexpected"
<1>1. s # "Skipped" /\ ~Matches(s, e)
  <2>1. DOMAIN <<s>> = {1} /\ Len(<<s>>) = 1 /\ <<s>>[1] = s
    OBVIOUS
  <2> QED BY <2>1 DEF OutcomeKind
<1> DEFINE a == Append(h, s)
<1>2. /\ Len(a) = Len(h) + 1 /\ a[Len(h) + 1] = s /\ Len(h) \in Nat /\ DOMAIN a = 1..(Len(h) + 1)
  <2>1. a \in Seq(Status) /\ Len(a) = Len(h) + 1 /\ a[Len(h) + 1] = s
    BY AppendProperties
  <2>2. DOMAIN a = 1..Len(a) /\ Len(h) \in Nat
    BY <2>1, LenProperties
  <2> QED BY <2>1, <2>2
<1> HIDE DEF a
<1>3. a[Len(a)] = s /\ Len(a) \in DOMAIN a
  BY <1>2
<1>4. OutcomeKind(a, e) = "Unexpected"
  BY <1>1, <1>3 DEF OutcomeKind
<1> QED BY <1>4 DEF a

(* A failure counted, and a queue closed, has its reason.                  *)
LEMMA CollectReasons ==
  ASSUME IInv, Ledger, Collect
  PROVE  Reasons'
<1> DEFINE r0      == Head(results)
           t0      == r0.test
           failed  == ~r0.retry /\ OutcomeKind(<<r0.status>>, Expected[t0]) = "Unexpected"
           tripped == MaxFailures > 0 /\ failureCount' >= MaxFailures
<1>1. results \in Seq(Result) /\ results # <<>> /\ history \in [Tests -> Seq(Status)]
      /\ finalCount \in Nat /\ failureCount \in Nat
  BY DEF IInv, TypeOK, Collect
<1>2. 1 \in DOMAIN results /\ results[1] \in Result /\ Head(results) = results[1]
  BY <1>1
<1>3. /\ history' = [history EXCEPT ![t0] = Append(@, r0.status)]
      /\ finalCount' = finalCount + (IF r0.retry THEN 0 ELSE 1)
      /\ failureCount' = failureCount + (IF failed THEN 1 ELSE 0)
      /\ settled' = IF r0.retry THEN settled ELSE settled \cup {t0}
      /\ stopped' = (stopped \/ tripped)
      /\ closed' = (closed \/ tripped \/ LastVerdict(finalCount'))
      /\ UNCHANGED <<pc, pending, stopSeen, stopRequested>>
  BY DEF Collect, workerVars
<1>4. r0 \in Result /\ t0 \in Tests /\ r0.status \in Status /\ t0 \notin settled
  BY <1>2, CollectedIs
<1>5. failureCount' > 0 => \E t \in settled' : OutcomeKind(history'[t], Expected[t]) = "Unexpected"
  <2>1. CASE failed
    <3>1. history'[t0] = Append(history[t0], r0.status) /\ history[t0] \in Seq(Status) /\ t0 \in settled'
      BY <1>1, <1>3, <1>4, <2>1
    <3>2. OutcomeKind(<<r0.status>>, Expected[t0]) = "Unexpected"
      BY <2>1
    <3> HIDE DEF r0
    <3>3. OutcomeKind(Append(history[t0], r0.status), Expected[t0]) = "Unexpected"
      BY <1>4, <3>1, <3>2, LastUnexpected
    <3> QED BY <3>1, <3>3
  <2>2. CASE ~failed /\ failureCount > 0
    <3>1. PICK t \in settled : OutcomeKind(history[t], Expected[t]) = "Unexpected"
      BY <2>2 DEF Ledger, Reasons
    <3>2. t \in settled' /\ t \in Tests /\ t # t0
      BY <1>3, <1>4, <3>1 DEF IInv, TypeOK
    <3>3. history'[t] = history[t]
      BY <1>1, <1>3, <3>2
    <3> QED BY <3>1, <3>2, <3>3
  <2> QED BY <1>1, <1>3, <2>1, <2>2
<1>6. /\ failureCount' >= failureCount /\ finalCount' >= finalCount
      /\ finalCount' \in Nat /\ failureCount' \in Nat
  BY <1>1, <1>3
<1>7. tripped => failureCount' > 0
  BY <1>6, RunAssumption
<1>8. Total \in Nat
  BY RunAssumption, FS_CardinalityType DEF Total
<1> HIDE DEF failed, tripped
<1>9. stopped' => stopRequested' \/ failureCount' > 0
  <2>1. stopped => stopRequested' \/ failureCount' > 0
    BY <1>1, <1>3, <1>6 DEF Ledger, Reasons
  <2> QED BY <2>1, <1>3, <1>7
<1>10. closed' => stopped' \/ finalCount' >= Total
  <2>1. closed => stopped \/ finalCount' >= Total
    BY <1>1, <1>6, <1>8 DEF Ledger, Reasons
  <2> QED BY <2>1, <1>3 DEF LastVerdict
<1>11. \A w \in Workers : pc'[w] \in {"cleanup", "done"} /\ pending'[w] = NoItem => stopped' \/ closed'
  BY <1>3 DEF Ledger, Reasons
<1>12. stopSeen' => stopRequested'
  BY <1>3 DEF Ledger, Reasons
<1> QED BY <1>5, <1>9, <1>10, <1>11, <1>12 DEF Reasons

(* One result is collected.                                                *)
LEMMA CollectKeeps ==
  ASSUME IInv, Ledger, MayLose => MayLose', Collect PROVE Ledger'
<1>1. PICK R : \E moved, back \in BOOLEAN : Collects(R, moved, back)
  BY CollectIs
<1>2. PICK moved \in BOOLEAN : \E back \in BOOLEAN : Collects(R, moved, back)
  BY <1>1
<1>3. PICK back \in BOOLEAN : Collects(R, moved, back)
  BY <1>2
<1>4. Counted' BY CollectCounted
<1>5. Once' BY <1>3, CollectOnce
<1>6. Kept' BY <1>3, CollectKept
<1>7. Attempts' BY <1>3, CollectAttempts
<1>8. Ordered' BY <1>3, CollectOrdered
<1>9. Alone' BY <1>3, <1>4, CollectAlone
<1>10. Reasons' BY CollectReasons
<1>11. Hands' BY DEF Ledger, Hands, Collect, workerVars
<1> QED BY <1>4, <1>5, <1>6, <1>7, <1>8, <1>9, <1>10, <1>11 DEF Ledger

(* At the start the plan is the queue, and nothing is anywhere else.       *)
LEMMA InitKeeps == Init => Ledger
<1> SUFFICES ASSUME Init PROVE Ledger
  OBVIOUS
<1>1. /\ DOMAIN queue = DOMAIN Plan
      /\ \A u \in DOMAIN Plan : queue[u].serial = Plan[u].serial
      /\ \A u \in DOMAIN Plan : DOMAIN queue[u].work = DOMAIN Plan[u].tests
      /\ \A u \in DOMAIN Plan : \A j \in DOMAIN Plan[u].tests :
           queue[u].work[j].test = Plan[u].tests[j] /\ queue[u].work[j].attempt = 1
  BY DEF Init, FirstItem
<1>2. /\ \A w \in Workers : pc[w] = "recv" /\ pending[w] = NoItem /\ item[w] = NoItem /\ out[w] = <<>>
      /\ results = <<>> /\ waiting = <<>> /\ settled = {}
      /\ \A t \in Tests : history[t] = <<>>
      /\ DOMAIN NoItem.work = {} /\ DOMAIN <<>> = {}
      /\ finalCount = 0 /\ failureCount = 0 /\ ~closed /\ ~stopped /\ ~stopSeen
  BY NothingToDo DEF Init
<1>3. ASSUME NEW t \in Tests, NEW s
      PROVE  s \in Copies(t) <=>
               \E u \in DOMAIN Plan : \E j \in DOMAIN Plan[u].tests :
                 s = <<"queue", 0, u, j>> /\ Plan[u].tests[j] = t
  <2>1. /\ s \notin Pending(t) /\ s \notin InHand(t)
        /\ s \notin Unsent(t) /\ s \notin Sent(t) /\ s \notin Waiting(t)
    BY <1>2, PlacesAre
  <2>2. s \in Queued(t) <=>
          \E u \in DOMAIN Plan : \E j \in DOMAIN Plan[u].tests :
            s = <<"queue", 0, u, j>> /\ Plan[u].tests[j] = t
    BY <1>1, PlacesAre
  <2> QED BY <2>1, <2>2 DEF Copies
<1>4. Hands
  BY <1>2, NothingToDo DEF Hands
<1>5. Once
  BY <1>2, <1>3, PlanAssumption DEF Once
<1>6. Kept
  <2> SUFFICES ASSUME NEW t \in Tests PROVE Copies(t) # {}
    BY DEF Kept
  <2>1. PICK u \in DOMAIN Plan : \E j \in DOMAIN Plan[u].tests : Plan[u].tests[j] = t
    BY PlanAssumption
  <2>2. PICK j \in DOMAIN Plan[u].tests : Plan[u].tests[j] = t
    BY <2>1
  <2>3. <<"queue", 0, u, j>> \in Copies(t)
    BY <1>3, <2>2
  <2> QED BY <2>3
<1>7. Counted
  BY <1>2, FS_EmptySet DEF Counted
<1>8. Attempts
  <2>1. ASSUME NEW u \in DOMAIN Plan PROVE Due(history, queue[u].work)
    <3> SUFFICES ASSUME NEW j \in DOMAIN queue[u].work
                 PROVE  /\ queue[u].work[j].attempt = Len(history[queue[u].work[j].test]) + 1
                        /\ queue[u].work[j].attempt <= MaxAttempts[queue[u].work[j].test]
      BY DEF Due
    <3> DEFINE t == Plan[u].tests[j]
    <3>1. queue[u].work[j].test = t /\ queue[u].work[j].attempt = 1
      BY <1>1
    <3>2. t \in Tests
      BY <1>1, PlanIs, ElementOfSeq
    <3>3. history[t] = <<>> /\ Len(<<>>) = 0
      BY <1>2, <3>2
    <3>4. MaxAttempts[t] \in Nat \ {0}
      BY <3>2, RunAssumption
    <3> HIDE DEF t
    <3> QED BY <3>1, <3>3, <3>4
  <2>2. Due(history, NoItem.work)
    BY NothingToDo
  <2> QED BY <1>1, <1>2, <2>1, <2>2 DEF Attempts
<1>9. Ordered
  <2>1. ASSUME NEW u \in DOMAIN Plan, Plan[u].serial PROVE Rest(Behind, queue[u].work)
    <3> DEFINE n == Len(queue[u].work)
               m == Len(Plan[u].tests)
    <3>1. /\ m \in Nat \ {0} /\ DOMAIN Plan[u].tests = 1..m
          /\ queue[u].work = [k \in 1..m |-> [test |-> Plan[u].tests[k], attempt |-> 1]]
      BY PlanIs DEF Init, FirstItem
    <3>2. n = m
      BY <3>1
    <3>3. \A j \in 1..m : queue[u].work[j].test = Plan[u].tests[j]
      BY <1>1, <3>1
    <3> HIDE DEF n, m
    <3>4. n <= m /\ m - n = 0 /\ \A j \in 1..n : 0 + j = j
      BY <3>1, <3>2
    <3>5. \A j \in 1..n : queue[u].work[j].test = Plan[u].tests[(m - n) + j]
      BY <3>2, <3>3, <3>4
    <3>6. \A k \in 1..(m - n) : Plan[u].tests[k] \in Behind
      BY <3>4
    <3> QED BY <2>1, <3>4, <3>5, <3>6 DEF Rest, n, m
  <2>2. \A u \in DOMAIN queue : RestItem(Behind, queue[u])
    BY <1>1, <2>1 DEF RestItem
  <2> QED BY <1>2, <2>2, NothingToDo DEF Ordered
<1>10. Alone
  BY <1>2 DEF Alone
<1>11. Reasons
  BY <1>2 DEF Reasons
<1> QED BY <1>4, <1>5, <1>6, <1>7, <1>8, <1>9, <1>10, <1>11 DEF Ledger

(* Every step of the run keeps the account.                                *)
LEMMA NextKeeps == IInv /\ Ledger /\ [Next]_vars => Ledger'
<1> SUFFICES ASSUME IInv, Ledger, [Next]_vars PROVE Ledger'
  OBVIOUS
<1>0. MayLose => MayLose'
  BY StaysLossy
<1>1. ASSUME NEW w \in Workers, WorkerStep(w) PROVE Ledger'
  <2> USE <1>0, <1>1
  <2>1. CASE Drained(w) BY <2>1, DrainedKeeps
  <2>2. CASE DropItem(w) BY <2>2, DropItemKeeps
  <2>3. CASE HandOver(w) BY <2>3, HandOverKeeps
  <2>4. CASE PickUp(w) BY <2>4, PickUpKeeps
  <2>5. CASE Acquired(w) BY <2>5, AcquiredKeeps
  <2>6. ASSUME NEW end \in Ends, RunTest(w, end) PROVE Ledger'
    BY <2>6, RunTestKeeps
  <2>7. CASE Send(w) BY <2>7, SendKeeps
  <2>8. CASE EndTurn(w) BY <2>8, EndTurnKeeps
  <2>9. CASE CleanUp(w) BY <2>9, CleanUpKeeps
  <2>10. CASE CleanUpFails(w) BY <2>10, CleanUpFailsKeeps
  <2> QED BY <2>1, <2>2, <2>3, <2>4, <2>5, <2>6, <2>7, <2>8, <2>9, <2>10 DEF WorkerStep
<1>2. CASE Collect BY <1>0, <1>2, CollectKeeps
<1>3. CASE RequestStop \/ SeeStop BY <1>0, <1>3, StopKeeps
<1>4. CASE Finish \/ UNCHANGED vars BY <1>0, <1>4, FinishKeeps
<1> QED BY <1>1, <1>2, <1>3, <1>4 DEF Next, Terminated

(* It holds throughout every run.                                          *)
LEMMA Accounted == Spec => [](IInv /\ Ledger)
BY InitInv, NextInv, InitKeeps, NextKeeps, PTL DEF Spec

(* A test is in at most one place, and until its verdict in exactly one.   *)
LEMMA AccountedOnce == IInv /\ Ledger => EachTestOnce
<1> SUFFICES ASSUME IInv, Ledger PROVE EachTestOnce
  OBVIOUS
<1>1. finalCount = Cardinality(settled)
  BY DEF Ledger, Counted
<1>2. ASSUME NEW t \in Tests
      PROVE  Cardinality(Copies(t)) <= IF t \in settled THEN 0 ELSE 1
  <2>1. CASE Copies(t) = {}
    BY <2>1, FS_EmptySet
  <2>2. CASE Copies(t) # {}
    <3>1. t \notin settled
      BY <2>2 DEF Ledger, Once
    <3>2. PICK r \in Copies(t) : TRUE
      BY <2>2
    <3>3. Copies(t) = {r}
      BY <3>2 DEF Ledger, Once
    <3>4. Cardinality(Copies(t)) = 1
      BY <3>3, FS_Singleton
    <3> QED BY <3>1, <3>4
  <2> QED BY <2>1, <2>2
<1>3. \A t \in Tests : MayLose \/ t \in settled \/ Copies(t) # {}
  BY DEF Ledger, Kept
<1> QED BY <1>1, <1>2, <1>3 DEF EachTestOnce

(* No test is in two hands, none comes back after its verdict, and without *)
(* a hard stop or a failed worker none is lost, whatever the plan, the     *)
(* workers and the retries: the count execute_with_summary closes the      *)
(* queue on (runner.rs) adds up.                                           *)
THEOREM OnceEach == Spec => []EachTestOnce
BY Accounted, AccountedOnce, PTL

(* An attempt after the first has results in the history.                  *)
LEMMA AloneInTurn == IInv /\ Ledger => RetriesRunAlone
<1> SUFFICES ASSUME IInv, Ledger, Isolated, NEW v \in Workers, NEW w \in Workers,
                    Running(v), Head(item[v].work).attempt > 1, Running(w)
             PROVE  v = w
  BY DEF RetriesRunAlone
<1>1. ASSUME NEW x \in Workers, Running(x)
      PROVE  /\ 1 \in DOMAIN item[x].work /\ Head(item[x].work) = item[x].work[1]
             /\ item[x].work[1].test \in Tests
             /\ <<"item", x, 0, 1>> \in AtWork(item[x].work[1].test)
  <2>1. item[x].work \in Seq(Assignment) /\ item[x].work # <<>>
    BY <1>1 DEF IInv, TypeOK, Item, NoneEmpty, Running
  <2>2. /\ 1 \in DOMAIN item[x].work /\ Head(item[x].work) = item[x].work[1]
        /\ item[x].work[1] \in Assignment
    BY <2>1
  <2>3. <<"item", x, 0, 1>> \in InHand(item[x].work[1].test)
    BY <2>2, PlacesAre
  <2> QED BY <2>2, <2>3 DEF AtWork, Assignment
<1> DEFINE t == item[v].work[1].test
           u == item[w].work[1].test
<1>2. history[t] # <<>>
  <2>1. item[v].work[1].attempt = Len(history[t]) + 1 /\ item[v].work[1].attempt > 1
    BY <1>1 DEF Ledger, Attempts, Due
  <2>2. Len(<<>>) = 0
    OBVIOUS
  <2> QED BY <2>1, <2>2
<1>3. t \in Tests /\ u \in Tests /\ <<"item", v, 0, 1>> \in AtWork(t) /\ <<"item", w, 0, 1>> \in AtWork(u)
  BY <1>1
<1> HIDE DEF t, u
<1>4. SamePlace(<<"item", v, 0, 1>>, <<"item", w, 0, 1>>)
  BY <1>2, <1>3 DEF Ledger, Alone
<1> QED BY <1>4 DEF SamePlace

(* retryStrategy 'isolated' (runner.rs): the runner moves a retry on only  *)
(* when its count leaves no other work, so a retry never runs next to a    *)
(* test.                                                                   *)
THEOREM AloneInTheirTurn == Spec => []RetriesRunAlone
BY Accounted, AloneInTurn, PTL

(* A sequence is a suffix of another when it is its last elements.         *)
LEMMA SuffixIs ==
  ASSUME NEW S, NEW s \in Seq(S), NEW g \in Seq(S), Len(s) <= Len(g),
         \A j \in 1..Len(s) : s[j] = g[Len(g) - Len(s) + j]
  PROVE  IsSuffix(s, g)
<1> DEFINE n == Len(s)
           m == Len(g)
           a == Reverse(s)
           b == Reverse(g)
<1>1. n \in Nat /\ m \in Nat /\ n <= m
  OBVIOUS
<1>2. /\ a = [i \in 1..n |-> s[(n - i) + 1]] /\ b = [i \in 1..m |-> g[(m - i) + 1]]
      /\ \A j \in 1..n : s[j] = g[(m - n) + j]
      /\ \A j \in 1..n : s[j] \in S
      /\ \A j \in 1..m : g[j] \in S
  BY DEF Reverse
<1>3. IsPrefix(a, b) => IsSuffix(s, g)
  BY DEF IsSuffix
<1> HIDE DEF n, m, a, b
<1>4. /\ \A i \in 1..n : (n - i) + 1 \in 1..n
      /\ \A i \in 1..m : (m - i) + 1 \in 1..m
      /\ \A i \in 1..n : (m - n) + ((n - i) + 1) = (m - i) + 1 /\ i \in 1..m
  BY <1>1
<1>5. \A i \in 1..n : a[i] = b[i]
  <2> TAKE i \in 1..n
  <2>1. a[i] = s[(n - i) + 1] /\ b[i] = g[(m - i) + 1]
    BY <1>2, <1>4
  <2>2. s[(n - i) + 1] = g[(m - n) + ((n - i) + 1)]
    BY <1>2, <1>4
  <2>3. (m - n) + ((n - i) + 1) = (m - i) + 1
    BY <1>4
  <2> QED BY <2>1, <2>2, <2>3
<1>6. \A i \in 1..n : a[i] \in S
  BY <1>2, <1>4
<1>7. \A i \in 1..m : b[i] \in S
  BY <1>2, <1>4
<1>8. a \in Seq(S) /\ Len(a) = n /\ b \in Seq(S) /\ Len(b) = m
  <2>1. /\ \A i \in 1..n : s[(n - i) + 1] \in S
        /\ \A i \in 1..m : g[(m - i) + 1] \in S
    BY <1>2, <1>4
  <2>2. [i \in 1..n |-> s[(n - i) + 1]] \in Seq(S) /\ Len([i \in 1..n |-> s[(n - i) + 1]]) = n
    BY <1>1, <2>1
  <2>3. [i \in 1..m |-> g[(m - i) + 1]] \in Seq(S) /\ Len([i \in 1..m |-> g[(m - i) + 1]]) = m
    BY <1>1, <2>1
  <2> QED BY <1>2, <2>2, <2>3
<1>9. SubSeq(a, 1, n) = SubSeq(b, 1, n)
  <2> DEFINE p == SubSeq(a, 1, n)
             q == SubSeq(b, 1, n)
  <2>1. \A i \in 1..n : a[i] \in S /\ b[i] \in S
    BY <1>1, <1>6, <1>7
  <2>2. p \in Seq(S) /\ Len(p) = n /\ \A i \in 1..n : p[i] = a[i]
    BY <1>1, <2>1
  <2>3. q \in Seq(S) /\ Len(q) = n /\ \A i \in 1..n : q[i] = b[i]
    BY <1>1, <1>8
  <2> HIDE DEF p, q
  <2>4. p = q
    BY <1>5, <2>2, <2>3, SeqEqual
  <2> QED BY <2>4 DEF p, q
<1>10. IsPrefix(a, b)
  BY <1>1, <1>8, <1>9 DEF IsPrefix
<1> QED BY <1>3, <1>10

(* What is left of a group is a suffix of it, behind verdicts.             *)
LEMMA RestInOrder == IInv /\ Ledger => GroupsInOrder
<1> SUFFICES ASSUME IInv, Ledger, NEW i \in ItemsInFlight, i.serial, i.work # <<>>
             PROVE  \E u \in DOMAIN Plan :
                      LET group == Plan[u].tests
                          left  == [k \in DOMAIN i.work |-> i.work[k].test]
                      IN  /\ Plan[u].serial
                          /\ IsSuffix(left, group)
                          /\ \A k \in 1..(Len(group) - Len(left)) :
                               \/ group[k] \in settled
                               \/ \E r \in ResultsInFlight : r.test = group[k] /\ ~r.retry
  BY DEF GroupsInOrder
<1>1. i \in Item /\ RestItem(Behind, i)
  <2>1. CASE \E k \in DOMAIN queue : i = queue[k]
    BY <2>1, WorkTypes DEF IInv, Ledger, Ordered
  <2>2. CASE \E w \in Workers : i \in {pending[w], item[w]}
    BY <2>2, WorkTypes DEF IInv, Ledger, Ordered
  <2> QED BY <2>1, <2>2 DEF ItemsInFlight, Range
<1>2. Rest(Behind, i.work)
  BY <1>1 DEF RestItem
<1> DEFINE left == [k \in DOMAIN i.work |-> i.work[k].test]
           n    == Len(i.work)
<1>3. /\ i.work \in Seq(Assignment) /\ \A j \in DOMAIN i.work : i.work[j].test \in Tests
      /\ n \in Nat /\ DOMAIN i.work = 1..n
  <2>1. i.work \in Seq(Assignment) /\ \A j \in DOMAIN i.work : i.work[j] \in Assignment
    BY <1>1, WorkTypes DEF IInv
  <2> QED BY <2>1, LenProperties DEF Assignment
<1>4. left \in Seq(Tests) /\ Len(left) = n /\ \A j \in 1..n : left[j] = i.work[j].test
  <2> HIDE DEF n
  <2>1. left = [k \in 1..n |-> i.work[k].test] /\ \A j \in 1..n : i.work[j].test \in Tests
    BY <1>3
  <2> QED BY <1>3, <2>1
<1>5. PICK u \in DOMAIN Plan :
        /\ Plan[u].serial
        /\ n <= Len(Plan[u].tests)
        /\ \A j \in 1..n : i.work[j].test = Plan[u].tests[(Len(Plan[u].tests) - n) + j]
        /\ \A k \in 1..(Len(Plan[u].tests) - n) : Plan[u].tests[k] \in Behind
  BY <1>2 DEF Rest
<1>6. Plan[u].tests \in Seq(Tests)
  BY PlanIs
<1> HIDE DEF left, n
<1>7. IsSuffix(left, Plan[u].tests)
  BY <1>4, <1>5, <1>6, SuffixIs
<1>8. \A k \in 1..(Len(Plan[u].tests) - Len(left)) :
        \/ Plan[u].tests[k] \in settled
        \/ \E r \in ResultsInFlight : r.test = Plan[u].tests[k] /\ ~r.retry
  BY <1>4, <1>5 DEF Behind
<1> QED BY <1>5, <1>7, <1>8 DEF left

(* A serial group runs in declaration order through retries and hand-overs *)
(* (Dispatcher::retry_shared, run_serial_batch).                           *)
THEOREM InOrder == Spec => []GroupsInOrder
BY Accounted, RestInOrder, PTL

(* No run starts with its verdict.                                        *)
LEMMA InitJudged == Init => PassedMeansJudged
BY DEF Init, PassedMeansJudged

(* What "Passed" is given for. *)
LEMMA VerdictPassed ==
  ASSUME IInv, Ledger, Finish, exitCode' = "Passed"
  PROVE  /\ \A w \in Workers : pc[w] = "done"
         /\ ~stopRequested /\ ~launchFailed
         /\ \A t \in Tests : history[t] # <<>> => OutcomeKind(history[t], Expected[t]) # "Unexpected"
         /\ settled = Tests /\ finalCount >= Total
<1>1. /\ exitCode' = Verdict /\ \A w \in Workers : pc[w] \in {"done", "failed"}
  BY DEF Finish
<1>2. StatusesSeen \in SUBSET ExitCode /\ StatusesSeen # {}
  BY DEF StatusesSeen, TestsVerdict, ExitCode
<1>3. Verdict \in StatusesSeen /\ \A d \in StatusesSeen : Worst(Verdict, d) = Verdict
  BY <1>2, WorstOfCodes DEF Verdict
<1>4. \A d \in StatusesSeen : d = "Passed"
  BY <1>1, <1>2, <1>3 DEF Worst, ExitRank, ExitCode
<1>5. ~stopRequested
  BY <1>4 DEF StatusesSeen
<1>6. ~launchFailed /\ \A w \in Workers : pc[w] # "failed"
  BY <1>4 DEF StatusesSeen
<1>7. TestsVerdict = "Passed"
  BY <1>4 DEF StatusesSeen
<1>8. \A t \in Tests : history[t] # <<>> => OutcomeKind(history[t], Expected[t]) # "Unexpected"
  BY <1>7 DEF TestsVerdict
<1>9. failureCount = 0
  <2>1. SUFFICES ASSUME failureCount # 0 PROVE FALSE
    OBVIOUS
  <2>2. failureCount > 0
    BY <2>1 DEF IInv, TypeOK
  <2>3. PICK t \in settled : OutcomeKind(history[t], Expected[t]) = "Unexpected"
    BY <2>2 DEF Ledger, Reasons
  <2>4. history[t] # <<>>
    BY <2>3 DEF OutcomeKind
  <2> QED BY <2>3, <2>4, <1>8 DEF IInv, TypeOK
<1>10. ~stopped
  BY <1>5, <1>9 DEF Ledger, Reasons
<1>11. PICK w \in Workers : TRUE
  BY RunAssumption
<1>12. pc[w] = "done" /\ pending[w] = NoItem
  BY <1>1, <1>6 DEF Ledger, Hands
<1>13. closed
  BY <1>10, <1>12 DEF Ledger, Reasons
<1>14. finalCount >= Total
  BY <1>10, <1>13 DEF Ledger, Reasons
<1>15. settled = Tests
  BY <1>14, AllSettled DEF IInv, Ledger
<1> QED BY <1>1, <1>5, <1>6, <1>8, <1>14, <1>15

(* The verdict stands: nothing moves after it.                             *)
LEMMA NextJudged == IInv /\ Ledger /\ PassedMeansJudged /\ [Next]_vars => PassedMeansJudged'
<1> SUFFICES ASSUME IInv, Ledger, PassedMeansJudged, [Next]_vars, exitCode' = "Passed"
             PROVE  /\ finalCount' >= Total
                    /\ \A t \in Tests : OutcomeKind(history'[t], Expected[t]) # "Unexpected"
                    /\ \A w \in Workers : pc'[w] = "done"
                    /\ ~stopRequested' /\ ~launchFailed'
  BY DEF PassedMeansJudged
<1>1. CASE Finish
  <2>1. UNCHANGED <<pc, history, finalCount, stopRequested, launchFailed>>
    BY <1>1 DEF Finish, workerVars
  <2>2. \A t \in Tests : history[t] = <<>> => OutcomeKind(history[t], Expected[t]) # "Unexpected"
    BY DEF OutcomeKind
  <2> QED BY <1>1, <2>1, <2>2, VerdictPassed
<1>2. CASE Terminated \/ UNCHANGED vars
  BY <1>2 DEF PassedMeansJudged, Terminated, vars, workerVars, collectVars
<1>3. CASE Collect \/ RequestStop \/ SeeStop
  <2>1. exitCode = "Running" /\ exitCode' = exitCode
    BY <1>3 DEF Collect, RequestStop, SeeStop, collectVars
  <2> QED BY <2>1
<1>4. ASSUME NEW w \in Workers, WorkerStep(w)
      PROVE  FALSE
  <2>1. exitCode' = exitCode
    BY <1>4 DEF WorkerStep, Drained, DropItem, HandOver, PickUp, Acquired, RunTest, Send, EndTurn,
                CleanUp, CleanUpFails, collectVars
  <2>2. pc[w] = "done"
    BY <2>1 DEF PassedMeansJudged
  <2> QED BY <1>4, <2>2 DEF WorkerStep, Drained, DropItem, HandOver, PickUp, Receive, Acquired,
                            RunTest, Send, EndTurn, CleanUp, CleanUpFails
<1> QED BY <1>1, <1>2, <1>3, <1>4 DEF Next

(* Exit status 0 is a verdict on every test: all counted, none unexpected, *)
(* every worker done, no stop requested (exit.rs, execute_with_summary).   *)
THEOREM Judged == Spec => []PassedMeansJudged
BY Accounted, InitJudged, NextJudged, PTL DEF Spec

(* The run starts as its promise does, ...                                 *)
LEMMA PromiseInit == Init => Promise!Init
BY DEF Init, Promise!Init

(* A collected result is an attempt the promise allows.                    *)
LEMMA CollectPromised ==
  ASSUME IInv, Ledger, Collect
  PROVE  \E t \in Tests, status \in Status : Promise!Attempt(t, status)
<1> DEFINE r0 == results[1]
           t0 == r0.test
<1>1. results \in Seq(Result) /\ results # <<>> /\ exitCode = "Running"
  BY DEF IInv, TypeOK, Collect
<1>2. 1 \in DOMAIN results /\ r0 \in Result /\ Head(results) = r0
  BY <1>1
<1>3. /\ history' = [history EXCEPT ![t0] = Append(@, r0.status)]
      /\ settled' = IF r0.retry THEN settled ELSE settled \cup {t0}
      /\ UNCHANGED exitCode
  BY <1>2 DEF Collect
<1>4. t0 \in Tests /\ r0.status \in Status /\ t0 \notin settled /\ r0.retry \in BOOLEAN
  BY <1>2, CollectedIs
<1>5. /\ Due(history, Carried(r0))
      /\ r0.retry => r0.status = "Failed" \/ ~Matches(r0.status, Expected[t0])
  BY <1>2 DEF Ledger, Attempts, Honest
<1>6. Len(history[t0]) < MaxAttempts[t0]
  <2>1. 1 \in DOMAIN Carried(r0) /\ Carried(r0)[1].test = t0
    BY <1>2, CarriedTypes
  <2>2. Carried(r0)[1].attempt = Len(history[t0]) + 1 /\ Carried(r0)[1].attempt <= MaxAttempts[t0]
    BY <1>5, <2>1 DEF Due
  <2>3. Len(history[t0]) \in Nat /\ MaxAttempts[t0] \in Nat
    <3>1. history[t0] \in Seq(Status)
      BY <1>4 DEF IInv, TypeOK
    <3>2. MaxAttempts[t0] \in Nat
      BY <1>4, RunAssumption
    <3> QED BY <3>1, <3>2
  <2> QED BY <2>2, <2>3
<1>7. t0 \notin settled' => r0.status = "Failed" \/ ~Matches(r0.status, Expected[t0])
  BY <1>3, <1>5
<1>8. settled' \in {settled, settled \cup {t0}}
  BY <1>3
<1> HIDE DEF t0, r0
<1>9. Promise!Attempt(t0, r0.status)
  BY <1>1, <1>3, <1>4, <1>6, <1>7, <1>8 DEF Promise!Attempt, Promise!Matches, Matches
<1> QED BY <1>4, <1>9

(* ... and each of its steps is an attempt, the report or no step of the   *)
(* promise: only Collect and Finish are seen by the caller.                *)
LEMMA PromiseNext ==
  IInv /\ Ledger /\ [Next]_vars => [Promise!Next]_<<history, settled, exitCode>>
<1> SUFFICES ASSUME IInv, Ledger, [Next]_vars, ~UNCHANGED <<history, settled, exitCode>>
             PROVE  Promise!Next
  OBVIOUS
<1>1. CASE Collect
  BY <1>1, CollectPromised DEF Promise!Next, Promise!Status, Status
<1>2. CASE Finish
  <2>1. /\ exitCode = "Running" /\ exitCode' = Verdict /\ UNCHANGED <<history, settled>>
    BY <1>2 DEF Finish
  <2>2. Verdict \in ExitCode
    <3>1. StatusesSeen \in SUBSET ExitCode /\ StatusesSeen # {}
      BY DEF StatusesSeen, TestsVerdict, ExitCode
    <3> QED BY <3>1, WorstOfCodes DEF Verdict
  <2>3. exitCode' = "Passed" =>
          settled = Tests /\ \A t \in Tests : OutcomeKind(history[t], Expected[t]) # "Unexpected"
    <3>1. \A t \in Tests : history[t] = <<>> => OutcomeKind(history[t], Expected[t]) # "Unexpected"
      BY DEF OutcomeKind
    <3> QED BY <1>2, <3>1, VerdictPassed
  <2>4. Promise!Report(Verdict)
    BY <2>1, <2>3 DEF Promise!Report, Promise!OutcomeKind, OutcomeKind, Promise!Matches, Matches
  <2> QED BY <2>2, <2>4 DEF Promise!Next, Promise!ExitCode, ExitCode
<1>3. CASE RequestStop \/ SeeStop \/ Terminated \/ UNCHANGED vars
  BY <1>3 DEF RequestStop, SeeStop, Terminated, vars, collectVars
<1>4. ASSUME NEW w \in Workers, WorkerStep(w) PROVE FALSE
  BY <1>4 DEF WorkerStep, Drained, DropItem, HandOver, PickUp, Acquired, RunTest, Send, EndTurn,
              CleanUp, CleanUpFails, collectVars
<1> QED BY <1>1, <1>2, <1>3, <1>4 DEF Next

(* The run implements RunPromise: no attempt after a verdict or past the   *)
(* retries, and "Passed" only for a run that judged every test and found   *)
(* none unexpected.                                                        *)
THEOREM PromiseKept == Spec => ImplementsPromise
BY Accounted, PromiseInit, PromiseNext, PTL DEF Spec, ImplementsPromise, Promise!Spec

-----------------------------------------------------------------------------
(* What keeps a run going: a stop closes the queue; locks are held only in *)
(* a turn; and while the queue is open, some test without a verdict is not *)
(* among the retries that wait.                                            *)
Moving ==
  /\ stopped => closed
  /\ \A w \in Workers : stage[w] = "holding" => pc[w] \in {"run", "send", "yield"}
  /\ ~Isolated => waiting = <<>>
  /\ ~closed /\ ~MayLose => \E t \in Tests \ settled : Waiting(t) = {}

(* Nobody waits at the start, and there is a test.                         *)
LEMMA InitMoves == Init => Moving
<1> SUFFICES ASSUME Init PROVE Moving
  OBVIOUS
<1>1. waiting = <<>> /\ settled = {} /\ ~stopped
  BY DEF Init
<1>2. \A t : Waiting(t) = {}
  BY <1>1 DEF Waiting
<1>3. \A w \in Workers : stage[w] = "idle"
  BY DEF Init, Lock!Init
<1> QED BY <1>1, <1>2, <1>3, RunAssumption DEF Moving

(* Locks stay in their turn.                                               *)
LEMMA HoldersInTurn ==
  ASSUME IInv, Moving, [Next]_vars
  PROVE  \A w \in Workers : stage'[w] = "holding" => pc'[w] \in {"run", "send", "yield"}
<1> SUFFICES ASSUME NEW v \in Workers, stage'[v] = "holding"
             PROVE  pc'[v] \in {"run", "send", "yield"}
  OBVIOUS
<1>0. /\ pc \in [Workers -> {"recv", "lock", "run", "send", "yield", "cleanup", "done", "failed"}]
      /\ stage \in [Workers -> {"idle", "acquiring", "holding"}]
      /\ stage[v] = "holding" => pc[v] \in {"run", "send", "yield"}
  BY DEF IInv, TypeOK, Moving
<1>1. ASSUME NEW w \in Workers, WorkerStep(w) PROVE pc'[v] \in {"run", "send", "yield"}
  <2>1. CASE Drained(w) \/ DropItem(w) \/ HandOver(w)
    <3>1. stage' = stage /\ pc[w] = "recv" /\ pc' = [pc EXCEPT ![w] = "cleanup"]
      BY <2>1 DEF Drained, DropItem, HandOver, Receive
    <3> QED BY <3>1, <1>0
  <2>2. CASE PickUp(w)
    <3>1. stage' = [stage EXCEPT ![w] = "acquiring"] /\ pc' = [pc EXCEPT ![w] = "lock"]
      BY <2>2 DEF PickUp, Lock!Ask
    <3> QED BY <3>1, <1>0
  <2>3. CASE Acquired(w)
    <3>1. stage' = [stage EXCEPT ![w] = "holding"] /\ pc' = [pc EXCEPT ![w] = "run"]
      BY <2>3 DEF Acquired, Lock!Enter
    <3> QED BY <3>1, <1>0
  <2>4. ASSUME NEW end \in Ends, RunTest(w, end) PROVE pc'[v] \in {"run", "send", "yield"}
    <3>1. stage' = stage /\ \E x \in {"send", "run"} : pc' = [pc EXCEPT ![w] = x]
      BY <2>4 DEF RunTest
    <3> QED BY <3>1, <1>0
  <2>5. CASE Send(w)
    <3>1. stage' = stage /\ \E x \in {"yield", "send"} : pc' = [pc EXCEPT ![w] = x]
      BY <2>5 DEF Send
    <3> QED BY <3>1, <1>0
  <2>6. CASE EndTurn(w)
    <3>1. stage' = [stage EXCEPT ![w] = "idle"] /\ pc' = [pc EXCEPT ![w] = "recv"]
      BY <2>6 DEF EndTurn, Lock!Leave
    <3> QED BY <3>1, <1>0
  <2>7. CASE CleanUp(w) \/ CleanUpFails(w)
    <3>1. stage' = stage /\ pc[w] = "cleanup"
      BY <2>7 DEF CleanUp, CleanUpFails
    <3>2. \/ pc' = [pc EXCEPT ![w] = "done"]
          \/ pc' = [pc EXCEPT ![w] = "recv"]
          \/ pc' = [pc EXCEPT ![w] = "failed"]
      BY <2>7 DEF CleanUp, CleanUpFails
    <3> QED BY <3>1, <3>2, <1>0
  <2> QED BY <1>1, <2>1, <2>2, <2>3, <2>4, <2>5, <2>6, <2>7 DEF WorkerStep
<1>2. CASE Collect \/ RequestStop \/ SeeStop \/ Finish \/ Terminated \/ UNCHANGED vars
  <2>1. stage' = stage /\ pc' = pc
    BY <1>2 DEF Collect, RequestStop, SeeStop, Finish, Terminated, vars, workerVars
  <2> QED BY <2>1, <1>0
<1> QED BY <1>1, <1>2 DEF Next

(* Finitely many results stand for finitely many tests.                    *)
LEMMA HeldFinite ==
  ASSUME NEW rs \in Seq(Result)
  PROVE  IsFiniteSet(HeldPlaces(rs))
<1> DEFINE row == [k \in DOMAIN rs |-> {<<k, j>> : j \in DOMAIN Carried(rs[k])}]
           rows == {{<<k, j>> : j \in DOMAIN Carried(rs[k])} : k \in DOMAIN rs}
<1>1. IsFiniteSet(DOMAIN rs)
  <2>1. DOMAIN rs = 1..Len(rs) /\ Len(rs) \in Nat
    BY LenProperties
  <2> QED BY <2>1, FS_Interval
<1>2. IsFiniteSet(rows)
  <2>1. row \in Surjection(DOMAIN rs, rows)
    BY DEF Surjection
  <2> HIDE DEF row, rows
  <2> QED BY <1>1, <2>1, FS_Surjection
<1>3. \A x \in rows : IsFiniteSet(x)
  <2> SUFFICES ASSUME NEW k \in DOMAIN rs
               PROVE  IsFiniteSet({<<k, j>> : j \in DOMAIN Carried(rs[k])})
    OBVIOUS
  <2> DEFINE D == DOMAIN Carried(rs[k])
             pair == [j \in D |-> <<k, j>>]
             pairs == {<<k, j>> : j \in D}
  <2>1. rs[k] \in Result
    BY ElementOfSeq, LenProperties
  <2>2. IsFiniteSet(D)
    <3>1. Len(rs[k].tail) \in Nat /\ D = 1..(1 + Len(rs[k].tail))
      BY <2>1, CarriedIs
    <3> HIDE DEF D
    <3> QED BY <3>1, FS_Interval
  <2>3. pair \in Surjection(D, pairs)
    BY DEF Surjection
  <2> HIDE DEF D, pair, pairs
  <2>4. IsFiniteSet(pairs)
    BY <2>2, <2>3, FS_Surjection
  <2> QED BY <2>4 DEF pairs, D
<1> HIDE DEF rows
<1>4. IsFiniteSet(UNION rows)
  BY <1>2, <1>3, FS_UNION
<1> QED BY <1>4 DEF HeldPlaces, rows

(* Where n verdicts, on the tests S, and the waiting retries rs together   *)
(* stand for fewer tests than there are, some test has neither.            *)
LEMMA SomebodyElse ==
  ASSUME NEW S \in SUBSET Tests, NEW n \in Nat, n = Cardinality(S),
         NEW rs \in Seq(Result), n + Held(rs) < Total
  PROVE  \E t \in Tests \ S :
           \A k \in DOMAIN rs : \A j \in DOMAIN Carried(rs[k]) : Carried(rs[k])[j].test # t
<1> DEFINE H == HeldPlaces(rs)
           T == Tests \ S
           At(p) == Carried(rs[p[1]])[p[2]].test
           f == [t \in T |-> CHOOSE p \in H : At(p) = t]
<1> SUFFICES ASSUME \A t \in T : \E k \in DOMAIN rs : \E j \in DOMAIN Carried(rs[k]) :
                      Carried(rs[k])[j].test = t
             PROVE  FALSE
  OBVIOUS
<1>1. IsFiniteSet(Tests) /\ IsFiniteSet(H)
  BY RunAssumption, HeldFinite
<1>2. ASSUME NEW t \in T PROVE \E p \in H : At(p) = t
  <2>1. PICK k \in DOMAIN rs : \E j \in DOMAIN Carried(rs[k]) : Carried(rs[k])[j].test = t
    BY <1>2
  <2>2. PICK j \in DOMAIN Carried(rs[k]) : Carried(rs[k])[j].test = t
    BY <2>1
  <2>3. <<k, j>> \in H
    BY DEF HeldPlaces
  <2> QED BY <2>2, <2>3
<1> HIDE DEF H, T, At
<1>3. \A t \in T : f[t] \in H /\ At(f[t]) = t
  BY <1>2
<1>4. f \in [T -> H]
  BY <1>3
<1>5. \A t, u \in T : f[t] = f[u] => t = u
  BY <1>3
<1> HIDE DEF f
<1>6. f \in Injection(T, H)
  BY <1>4, <1>5 DEF Injection, IsInjective
<1>7. /\ IsFiniteSet(T) /\ IsFiniteSet(S)
      /\ Cardinality(T) = Cardinality(Tests) - Cardinality(S)
  <2>1. Tests \cap S = S /\ T = Tests \ S
    BY DEF T
  <2>2. IsFiniteSet(S)
    BY <1>1, FS_Subset
  <2>3. /\ IsFiniteSet(Tests \ S)
        /\ Cardinality(Tests \ S) = Cardinality(Tests) - Cardinality(Tests \cap S)
    BY <1>1, FS_Difference
  <2> QED BY <2>1, <2>2, <2>3
<1>8. Cardinality(T) <= Cardinality(H)
  BY <1>1, <1>6, FS_Injection
<1>9. /\ Cardinality(H) \in Nat /\ Cardinality(T) \in Nat /\ Cardinality(Tests) \in Nat
      /\ Cardinality(S) \in Nat
  BY <1>1, <1>7, FS_CardinalityType
<1>10. n + Cardinality(H) < Cardinality(Tests)
  BY DEF Held, Total, H
<1>11. \A all, left, held \in Nat : left = all - n /\ left <= held => ~(n + held < all)
  OBVIOUS
<1> QED BY <1>7, <1>8, <1>9, <1>10, <1>11

(* No retry stands for no test.                                            *)
LEMMA NoneHeld == Held(<<>>) = 0
<1>1. HeldPlaces(<<>>) = {}
  BY DEF HeldPlaces
<1> QED BY <1>1, FS_EmptySet DEF Held

(* A retry that does not wait for an isolated turn goes back at once.      *)
LEMMA NoneKeptBack ==
  ASSUME IInv, ~Isolated, waiting = <<>>, Collect
  PROVE  waiting' = <<>>
<1> DEFINE r == Head(results)
<1>1. r \in Result /\ r.retry \in BOOLEAN
  <2>1. results \in Seq(Result) /\ results # <<>>
    BY DEF IInv, TypeOK, Collect
  <2>2. r \in Result
    BY <2>1
  <2> QED BY <2>2 DEF Result
<1>2. waiting' = IF r.retry /\ (IF r.retry THEN Append(waiting, r) ELSE waiting) # <<>>
                   THEN Tail(IF r.retry THEN Append(waiting, r) ELSE waiting)
                   ELSE IF r.retry THEN Append(waiting, r) ELSE waiting
  BY DEF Collect
<1> HIDE DEF r
<1>3. CASE r.retry
  <2>1. Append(<<>>, r) = <<r>> /\ <<r>> # <<>> /\ Tail(<<r>>) = <<>>
    BY <1>1
  <2> QED BY <1>2, <1>3, <2>1
<1>4. CASE ~r.retry
  BY <1>2, <1>4
<1> QED BY <1>3, <1>4

(* Collecting a result leaves a test that does not wait: with isolated     *)
(* retries the first goes back once they are all that is left.             *)
LEMMA CollectMoves ==
  ASSUME IInv, Ledger, Moving, Collect, IInv', Ledger', ~closed'
  PROVE  \E t \in Tests \ settled' : Waiting(t)' = {}
<1> DEFINE r       == Head(results)
           R       == IF r.retry THEN Append(waiting, r) ELSE waiting
           tripped == MaxFailures > 0 /\ failureCount' >= MaxFailures
           goes    == IF Isolated THEN IsolatedTurn(finalCount', R) ELSE r.retry
<1>1. /\ waiting' = IF goes /\ R # <<>> THEN Tail(R) ELSE R
      /\ queue' = IF /\ goes /\ R # <<>>
                     /\ ~closed
                     /\ Isolated => ~tripped
                  THEN Append(queue, RetryItem(Head(R)))
                  ELSE queue
      /\ ~closed /\ ~tripped /\ ~LastVerdict(finalCount')
  BY DEF Collect
<1>2. /\ results \in Seq(Result) /\ results # <<>> /\ waiting \in Seq(Result) /\ queue \in Seq(Item)
      /\ finalCount' \in Nat /\ waiting' \in Seq(Result) /\ settled' \in SUBSET Tests
      /\ Total \in Nat
  BY RunAssumption, FS_CardinalityType DEF IInv, TypeOK, Collect, Total
<1>3. r \in Result
  BY <1>2
<1>4. R \in Seq(Result)
  BY <1>2, <1>3
<1>5. finalCount' = Cardinality(settled') /\ finalCount' < Total
  BY <1>1, <1>2 DEF Ledger, Counted, LastVerdict
<1>6. ~Isolated => waiting' = <<>>
  BY NoneKeptBack DEF Moving
<1>7. CASE finalCount' + Held(waiting') < Total
  <2>1. \E t \in Tests \ settled' :
          \A k \in DOMAIN waiting' : \A j \in DOMAIN Carried(waiting'[k]) : Carried(waiting'[k])[j].test # t
    BY <1>2, <1>5, <1>7, SomebodyElse
  <2>2. PICK t \in Tests \ settled' :
          \A k \in DOMAIN waiting' : \A j \in DOMAIN Carried(waiting'[k]) : Carried(waiting'[k])[j].test # t
    BY <2>1
  <2>3. Waiting(t)' = {}
    <3>1. SUFFICES ASSUME NEW s \in Waiting(t)' PROVE FALSE
      OBVIOUS
    <3> QED BY <3>1, <2>2, PlacesAreNext
  <2> QED BY <2>3
<1>8. CASE ~(finalCount' + Held(waiting') < Total)
  <2>1. waiting' # <<>>
    BY <1>2, <1>5, <1>8, NoneHeld
  <2>2. Isolated
    BY <1>6, <2>1
  <2>3. goes /\ R # <<>>
    <3>1. SUFFICES ASSUME ~(goes /\ R # <<>>) PROVE FALSE
      OBVIOUS
    <3>2. waiting' = R
      BY <3>1, <1>1
    <3>3. ~IsolatedTurn(finalCount', R)
      BY <3>1, <3>2, <2>1, <2>2
    <3>4. finalCount' + Held(R) \in Int
      <4>1. IsFiniteSet(HeldPlaces(R))
        BY <1>4, HeldFinite
      <4> QED BY <4>1, <1>2, FS_CardinalityType DEF Held
    <3> HIDE DEF R, goes
    <3> QED BY <3>2, <3>3, <3>4, <1>1, <1>2, <1>8 DEF IsolatedTurn
  <2>4. PICK i \in Item : queue' = Append(queue, i) /\ i = RetryItem(Head(R))
    <3>1. Head(R) \in Result
      BY <1>4, <2>3
    <3> HIDE DEF R, goes
    <3> QED BY <1>1, <2>2, <2>3, <3>1, RetryItemType
  <2>5. 1 \in DOMAIN i.work /\ i.work[1].test \in Tests
    <3>1. PICK h \in Result : h = Head(R)
      BY <1>4, <2>3
    <3> HIDE DEF R, goes
    <3>2. /\ DOMAIN RetryItem(h).work = DOMAIN Carried(h) /\ 1 \in DOMAIN Carried(h)
          /\ RetryItem(h).work[1].test = Carried(h)[1].test /\ Carried(h)[1].test = h.test
      BY <3>1, RetryCarries
    <3>3. h.test \in Tests
      BY <3>1 DEF Result
    <3> QED BY <2>4, <3>1, <3>2, <3>3
  <2> HIDE DEF R, goes
  <2>6. PICK t \in Tests : t = i.work[1].test
    BY <2>5
  <2>7. PICK k \in Nat : k \in DOMAIN queue' /\ queue'[k] = i
    <3> DEFINE n == Len(queue) + 1
    <3>1. n \in Nat /\ queue' \in Seq(Item) /\ Len(queue') = n /\ queue'[n] = i
      BY <2>4, <1>2, AppendProperties, LenProperties
    <3>2. DOMAIN queue' = 1..n /\ n \in 1..n
      BY <3>1, <1>2, LenProperties
    <3> QED BY <3>1, <3>2
  <2> DEFINE place == <<"queue", 0, k, 1>>
  <2>8. \E kk, j : /\ kk \in DOMAIN queue' /\ j \in DOMAIN queue'[kk].work
                   /\ place = <<"queue", 0, kk, j>> /\ queue'[kk].work[j].test = t
    BY <2>5, <2>6, <2>7
  <2>9. place \in Copies(t)'
    <3>1. place \in Queued(t)'
      BY <2>8, PlacesAreNext
    <3> QED BY <3>1 DEF Copies
  <2>10. Once'
    BY DEF Ledger
  <2>11. t \notin settled' /\ \A s \in Copies(t)' : s = place
    BY <2>6, <2>9, <2>10 DEF Once
  <2>12. Waiting(t)' = {}
    <3>1. SUFFICES ASSUME NEW s \in Waiting(t)' PROVE FALSE
      OBVIOUS
    <3>2. s = place
      BY <3>1, <2>11 DEF Copies
    <3>3. s[1] = "waiting"
      BY <3>1, PlacesAreNext
    <3> QED BY <3>2, <3>3
  <2> QED BY <2>6, <2>11, <2>12
<1> QED BY <1>7, <1>8

(* Every step keeps what keeps the run going.                              *)
LEMMA NextMoves == IInv /\ Ledger /\ Moving /\ [Next]_vars /\ IInv' /\ Ledger' => Moving'
<1> SUFFICES ASSUME IInv, Ledger, Moving, [Next]_vars, IInv', Ledger' PROVE Moving'
  OBVIOUS
<1>1. \A w \in Workers : stage'[w] = "holding" => pc'[w] \in {"run", "send", "yield"}
  BY HoldersInTurn
<1>2. MayLose => MayLose'
  BY StaysLossy
<1>3. CASE Collect
  <2>1. stopped' => closed'
    BY <1>3 DEF Collect, Moving
  <2>2. ~Isolated => waiting' = <<>>
    BY <1>3, NoneKeptBack DEF Moving
  <2>3. ~closed' => \E t \in Tests \ settled' : Waiting(t)' = {}
    BY <1>3, CollectMoves
  <2> QED BY <1>1, <2>1, <2>2, <2>3 DEF Moving
<1>4. ASSUME NEW w \in Workers, WorkerStep(w)
      PROVE  UNCHANGED <<waiting, settled, stopped, closed>>
  <2>1. CASE Drained(w) \/ DropItem(w) \/ HandOver(w)
    BY <2>1 DEF Drained, DropItem, HandOver, collectVars, dispatcherVars
  <2>2. CASE PickUp(w) \/ Acquired(w)
    BY <2>2 DEF PickUp, Acquired, collectVars, dispatcherVars
  <2>3. ASSUME NEW end \in Ends, RunTest(w, end)
        PROVE  UNCHANGED <<waiting, settled, stopped, closed>>
    BY <2>3 DEF RunTest, collectVars, dispatcherVars
  <2>4. CASE Send(w) \/ EndTurn(w) \/ CleanUp(w) \/ CleanUpFails(w)
    BY <2>4 DEF Send, EndTurn, CleanUp, CleanUpFails, collectVars, dispatcherVars
  <2> QED BY <1>4, <2>1, <2>2, <2>3, <2>4 DEF WorkerStep
<1>5. ASSUME RequestStop \/ SeeStop \/ Finish \/ Terminated \/ UNCHANGED vars
      PROVE  UNCHANGED <<waiting, settled>> /\ (UNCHANGED <<stopped, closed>> \/ (stopped' /\ closed'))
  <2>1. UNCHANGED <<waiting, settled>>
    BY <1>5 DEF RequestStop, SeeStop, Finish, Terminated, vars, collectVars
  <2>2. UNCHANGED <<stopped, closed>> \/ (stopped' /\ closed')
    BY <1>5 DEF RequestStop, SeeStop, Finish, Terminated, vars, dispatcherVars
  <2> QED BY <2>1, <2>2
<1>6. CASE UNCHANGED <<waiting, settled>> /\ (UNCHANGED <<stopped, closed>> \/ (stopped' /\ closed'))
  <2>1. \A t : Waiting(t)' = Waiting(t)
    BY <1>6 DEF Waiting
  <2>2. ~closed' => ~closed
    BY <1>6
  <2>3. stopped' => closed'
    BY <1>6 DEF Moving
  <2>4. ~Isolated => waiting' = <<>>
    BY <1>6 DEF Moving
  <2>5. ~closed' /\ ~MayLose' => \E t \in Tests \ settled' : Waiting(t)' = {}
    BY <1>2, <1>6, <2>1, <2>2 DEF Moving
  <2> QED BY <1>1, <2>3, <2>4, <2>5 DEF Moving
<1> QED
  <2>1. \/ Collect
        \/ \E w \in Workers : WorkerStep(w)
        \/ RequestStop \/ SeeStop \/ Finish \/ Terminated \/ UNCHANGED vars
    BY DEF Next
  <2> QED BY <2>1, <1>3, <1>4, <1>5, <1>6

(* The account, and what keeps the run going, leave no way to be stuck.    *)
LEMMA MovingGoesOn == IInv /\ Ledger /\ Moving => NeverStuck
<1> SUFFICES ASSUME IInv, Ledger, Moving,
                    closed \/ \A w \in Workers : pc[w] # "failed",
                    results = <<>>, \A w \in Workers : ~CanGoOn(w),
                    NEW v \in Workers, pc[v] \notin {"done", "failed"}
             PROVE  FALSE
  BY DEF NeverStuck
<1>1. \A w \in Workers : pc[w] \notin {"run", "yield", "cleanup", "send"}
  <2>1. Len(results) = 0 /\ 0 < ResultCap
    BY RunAssumption
  <2> QED BY <2>1 DEF CanGoOn
<1>2. \A w \in Workers : stage[w] # "holding"
  BY <1>1 DEF Moving
<1>3. \A w \in Workers : pc[w] # "lock"
  BY <1>2 DEF CanGoOn
<1>4. \A w \in Workers : pc[w] \in {"recv", "done", "failed"}
  BY <1>1, <1>3 DEF IInv, TypeOK
<1>5. pc[v] = "recv" /\ ~closed /\ queue = <<>>
  BY <1>4 DEF CanGoOn
<1>6. ~MayLose
  BY <1>5 DEF Moving, MayLose
<1>7. ASSUME NEW w \in Workers PROVE pc[w] = "recv" /\ pending[w] = NoItem
  <2>1. CASE pc[w] = "done"
    <3>1. pending[w] = NoItem
      BY <2>1 DEF Ledger, Hands
    <3> QED BY <2>1, <3>1, <1>5, <1>6 DEF Ledger, Reasons, MayLose
  <2>2. pc[w] # "failed"
    BY <1>5
  <2>3. pc[w] = "recv"
    BY <2>1, <2>2, <1>4, <1>5, <1>6 DEF Ledger, Reasons, Hands, MayLose
  <2> QED BY <2>3 DEF CanGoOn
<1>8. PICK t \in Tests \ settled : Waiting(t) = {}
  BY <1>5, <1>6 DEF Moving
<1>9. PICK s \in Copies(t) : TRUE
  BY <1>6, <1>8 DEF Ledger, Kept
<1>10. \A w \in Workers : item[w].work = <<>> /\ out[w] = <<>> /\ pending[w].work = <<>>
  BY <1>7 DEF Ledger, Hands, NoItem
<1>11. s \notin Queued(t) /\ s \notin Sent(t)
  BY <1>5, PlacesAre
<1>12. s \notin Pending(t) /\ s \notin InHand(t) /\ s \notin Unsent(t)
  BY <1>10, PlacesAre
<1> QED BY <1>8, <1>9, <1>11, <1>12 DEF Copies

(* A run whose queue is closed, or that no worker's crash has robbed of an *)
(* item, is never stuck: no circle of locks, of a full result channel and  *)
(* of retries kept back for their isolated turn (execute_with_summary,     *)
(* Worker::run), whatever the plan, the locks and the channel's capacity.  *)
THEOREM NoHang == Spec => []NeverStuck
<1>1. Spec => [](IInv /\ Ledger)
  BY Accounted
<1>2. Init => Moving
  BY InitMoves
<1>3. IInv /\ Ledger /\ Moving /\ [Next]_vars /\ IInv' /\ Ledger' => Moving'
  BY NextMoves
<1>4. IInv /\ Ledger /\ Moving => NeverStuck
  BY MovingGoesOn
<1> QED BY <1>1, <1>2, <1>3, <1>4, PTL DEF Spec
=============================================================================
