-------------------------- MODULE WorkerBrowserProofs --------------------------
(***************************************************************************)
(* Proofs about a worker's browser, for any numbers of callers, launches,  *)
(* contexts and tests and any depth of the pool.                           *)
(*                                                                         *)
(* BrowserHandle: the types, one browser per handle, nothing left out by   *)
(* close(), no failed launch kept from the run.  ContextPool: the counters *)
(* are exact, drain() leaves nothing, a test gets a fresh context of its   *)
(* own options.                                                            *)
(***************************************************************************)
EXTENDS BrowserHandle, ContextPool, FiniteSetTheorems, TLAPS

(* The launch that is going on, or that succeeded, is the pending one and  *)
(* its browser is the cell's: a second launch would need pending = None.   *)
LaunchIsPending ==
  /\ \A l \in Launches : launch[l] \in {"running", "ok"} => pending = l
  /\ \A l \in Launches : launch[l] = "ok" <=> cell = l
  /\ \A l \in Launches : browser[l] = "open" => launch[l] = "ok"
  /\ \A l \in Launches : pending = l => launch[l] # "unused"

(* close() waits for whatever can still bring up a browser, and then       *)
(* leaves none open; one that would not close is an error.                 *)
CloseHoldsLaunch ==
  /\ closed <=> close # "idle"
  /\ closed => \A l \in Launches :
       /\ launch[l] = "running" => close = "waiting"
       /\ close = "waiting" /\ launch[l] \in {"running", "ok"} => closeAwaits = l
       /\ close # "waiting" => browser[l] # "open"
  /\ \A l \in Launches : browser[l] = "kept" => close = "err"

(* A failed launch stays pending until somebody has raised the flag; once  *)
(* closed, it is what close() waited for. Whoever makes room for the next  *)
(* attempt heard of a failure and has raised the flag.                     *)
FailureInSight ==
  /\ ~launchFailed => \A l \in Launches : launch[l] = "err" =>
       /\ pending = l
       /\ closed => closeAwaits = l /\ close \in {"waiting", "err"}
  /\ \A c \in Callers : get[c] = "failing" =>
       launchFailed /\ launch[awaits[c]] = "err"

HandleInv == TypeOK /\ LaunchIsPending /\ CloseHoldsLaunch /\ FailureInSight

(* A handle nobody has used satisfies the inductive invariant.             *)
LEMMA HandleInitInv == Init => HandleInv
<1> SUFFICES ASSUME Init PROVE HandleInv
  OBVIOUS
<1>0. \A l \in Launches : l # None
  BY DEF Launches, None
<1>1. TypeOK BY DEF Init, TypeOK
<1>2. LaunchIsPending BY <1>0 DEF Init, LaunchIsPending
<1>3. CloseHoldsLaunch /\ FailureInSight
  BY DEF Init, CloseHoldsLaunch, FailureInSight
<1> QED BY <1>1, <1>2, <1>3 DEF HandleInv

(* Each step keeps it. A caller is answered at once, joins the pending     *)
(* launch, is served by it, or is dropped.                                 *)
LEMMA GetInv ==
  ASSUME HandleInv, NEW c \in Callers,
         GetAtOnce(c) \/ GetJoins(c) \/ GetServed(c) \/ Cancel(c)
  PROVE  HandleInv'
<1> USE DEF HandleInv, GetAtOnce, GetJoins, GetServed, Cancel
<1>1. TypeOK' BY DEF TypeOK
<1>2. LaunchIsPending' BY DEF LaunchIsPending
<1>3. CloseHoldsLaunch' BY DEF CloseHoldsLaunch
<1>4. FailureInSight' BY DEF FailureInSight, TypeOK
<1> QED BY <1>1, <1>2, <1>3, <1>4

(* A caller launches: nothing is pending, so nothing is live.              *)
LEMMA GetLaunchesInv ==
  ASSUME HandleInv, NEW c \in Callers, NEW l \in Launches, GetLaunches(c, l)
  PROVE  HandleInv'
<1> USE DEF HandleInv, GetLaunches
<1>0. \A k \in Launches : k # None BY DEF Launches, None
<1>1. TypeOK' BY <1>0 DEF TypeOK
<1>2. LaunchIsPending' BY <1>0 DEF LaunchIsPending, TypeOK
<1>3. CloseHoldsLaunch' BY DEF CloseHoldsLaunch, TypeOK
<1>4. FailureInSight' BY <1>0 DEF FailureInSight, TypeOK
<1> QED BY <1>1, <1>2, <1>3, <1>4

(* A caller hears of the failure and raises the flag.                      *)
LEMMA GetFailsInv ==
  ASSUME HandleInv, NEW c \in Callers, GetFails(c)
  PROVE  HandleInv'
<1> USE DEF HandleInv, GetFails
<1>1. TypeOK' BY DEF TypeOK
<1>2. LaunchIsPending' BY DEF LaunchIsPending
<1>3. CloseHoldsLaunch' BY DEF CloseHoldsLaunch
<1>4. FailureInSight' BY DEF FailureInSight, TypeOK
<1> QED BY <1>1, <1>2, <1>3, <1>4

(* What it then forgets as pending has failed.                             *)
LEMMA GetForgetsInv ==
  ASSUME HandleInv, NEW c \in Callers, GetForgets(c)
  PROVE  HandleInv'
<1> USE DEF HandleInv, GetForgets
<1>0. awaits[c] \in Launches /\ launch[awaits[c]] = "err" /\ launchFailed
  BY DEF TypeOK, FailureInSight
<1>1. TypeOK' BY DEF TypeOK
<1>2. LaunchIsPending' BY <1>0 DEF LaunchIsPending, TypeOK, Launches, None
<1>3. CloseHoldsLaunch' BY DEF CloseHoldsLaunch
<1>4. FailureInSight' BY <1>0 DEF FailureInSight, TypeOK
<1> QED BY <1>1, <1>2, <1>3, <1>4

(* The pending launch succeeds, and the cell was empty.                    *)
LEMMA LaunchSucceedsInv ==
  ASSUME HandleInv, NEW l \in Launches, LaunchSucceeds(l)
  PROVE  HandleInv'
<1> USE DEF HandleInv, LaunchSucceeds
<1>0. cell = None /\ pending = l
  <2>1. \A k \in Launches : cell # k
    BY DEF LaunchIsPending
  <2> QED BY <2>1 DEF TypeOK, LaunchIsPending
<1>1. TypeOK' BY DEF TypeOK
<1>2. LaunchIsPending' BY <1>0 DEF LaunchIsPending, TypeOK, Launches, None
<1>3. CloseHoldsLaunch' BY DEF CloseHoldsLaunch, TypeOK
<1>4. FailureInSight' BY DEF FailureInSight, TypeOK
<1> QED BY <1>1, <1>2, <1>3, <1>4

(* A launch fails: it is pending, and close() awaits it if it has begun.   *)
LEMMA LaunchFailsInv ==
  ASSUME HandleInv, NEW l \in Launches, LaunchFails(l)
  PROVE  HandleInv'
<1> USE DEF HandleInv, LaunchFails
<1>1. TypeOK' BY DEF TypeOK
<1>2. LaunchIsPending' BY DEF LaunchIsPending, TypeOK
<1>3. CloseHoldsLaunch' BY DEF CloseHoldsLaunch, TypeOK
<1>4. FailureInSight' BY DEF FailureInSight, TypeOK, LaunchIsPending, CloseHoldsLaunch
<1> QED BY <1>1, <1>2, <1>3, <1>4

(* close() takes hold of what is pending.                                  *)
LEMMA CloseInv == ASSUME HandleInv, Close PROVE HandleInv'
<1> USE DEF HandleInv, Close, BrowserCloses
<1>1. TypeOK' BY DEF TypeOK
<1>2. LaunchIsPending' BY DEF LaunchIsPending, TypeOK
<1>0. cell # None => pending = cell
  BY DEF LaunchIsPending, TypeOK
<1>3. CloseHoldsLaunch'
  <2>1. CASE pending # None
    BY <2>1, <1>0 DEF CloseHoldsLaunch, LaunchIsPending, TypeOK, Launches, None
  <2>2. CASE pending = None
    <3>1. cell = None /\ close' = "ok" /\ browser' = browser
      BY <2>2, <1>0
    <3>2. \A l \in Launches : l # None
      BY DEF Launches, None
    <3> QED BY <2>2, <3>1, <3>2 DEF CloseHoldsLaunch, LaunchIsPending, TypeOK
  <2> QED BY <2>1, <2>2
<1>4. FailureInSight'
  BY DEF FailureInSight, TypeOK, Launches, None
<1> QED BY <1>1, <1>2, <1>3, <1>4

(* The launch that close() awaited has ended.                              *)
LEMMA CloseServedInv == ASSUME HandleInv, CloseServed PROVE HandleInv'
<1> USE DEF HandleInv, CloseServed, BrowserCloses
<1>0. closeAwaits \in Launches BY DEF TypeOK
<1>1. TypeOK' BY DEF TypeOK
<1>2. LaunchIsPending' BY DEF LaunchIsPending, TypeOK
<1>3. CloseHoldsLaunch'
  BY <1>0 DEF CloseHoldsLaunch, LaunchIsPending, TypeOK
<1>4. FailureInSight'
  BY <1>0 DEF FailureInSight, CloseHoldsLaunch, TypeOK
<1> QED BY <1>1, <1>2, <1>3, <1>4

(* Every step of the handle keeps the inductive invariant.                 *)
LEMMA HandleNextInv == HandleInv /\ [Next]_vars => HandleInv'
<1> SUFFICES ASSUME HandleInv, [Next]_vars PROVE HandleInv'
  OBVIOUS
<1>1. ASSUME NEW c \in Callers,
             \/ GetAtOnce(c) \/ GetJoins(c) \/ GetServed(c) \/ GetFails(c) \/ GetForgets(c)
             \/ Cancel(c)
             \/ \E l \in Launches : GetLaunches(c, l)
      PROVE  HandleInv'
  BY <1>1, GetInv, GetFailsInv, GetForgetsInv, GetLaunchesInv
<1>2. ASSUME NEW l \in Launches, LaunchSucceeds(l) \/ LaunchFails(l) PROVE HandleInv'
  BY <1>2, LaunchSucceedsInv, LaunchFailsInv
<1>3. CASE Close \/ CloseServed
  BY <1>3, CloseInv, CloseServedInv
<1>4. CASE UNCHANGED vars
  BY <1>4 DEF vars, HandleInv, TypeOK, LaunchIsPending, CloseHoldsLaunch, FailureInSight
<1> QED BY <1>1, <1>2, <1>3, <1>4 DEF Next

(* It holds in every behaviour.                                            *)
LEMMA HandleInvariance == Spec => []HandleInv
BY HandleInitInv, HandleNextInv, PTL DEF Spec

(* The handle's state has its type. *)
THEOREM TypeCorrect == Spec => []TypeOK
<1>1. HandleInv => TypeOK BY DEF HandleInv
<1> QED BY <1>1, HandleInvariance, PTL

(* However callers interleave, join, fail and are cancelled, the handle    *)
(* has at most one launch going on or succeeded.                           *)
THEOREM One == Spec => []OneBrowser
<1>1. HandleInv => OneBrowser
  <2> SUFFICES ASSUME HandleInv PROVE OneBrowser
    OBVIOUS
  <2> DEFINE live == {l \in Launches : launch[l] \in {"running", "ok"}}
  <2>1. live \subseteq {pending}
    BY DEF HandleInv, LaunchIsPending
  <2>2. IsFiniteSet({pending}) /\ Cardinality({pending}) = 1
    BY FS_Singleton
  <2>3. Cardinality(live) <= Cardinality({pending})
    BY <2>1, <2>2, FS_Subset
  <2> QED BY <2>2, <2>3 DEF OneBrowser
<1> QED BY <1>1, HandleInvariance, PTL

(* After close() has returned, no launch is going on, no browser was left  *)
(* out, and one that would not close made it an error.                     *)
THEOREM NoneSurvives == Spec => []NoBrowserSurvivesClose
<1>1. HandleInv => NoBrowserSurvivesClose
  BY DEF HandleInv, CloseHoldsLaunch, NoBrowserSurvivesClose
<1> QED BY <1>1, HandleInvariance, PTL

(* A failed launch has raised the flag by the time close() has returned,   *)
(* or close() returned that failure.                                       *)
THEOREM FailureReported == Spec => []LaunchFailureReported
<1>1. HandleInv => LaunchFailureReported
  BY DEF HandleInv, CloseHoldsLaunch, FailureInSight, LaunchFailureReported, Launches, None
<1> QED BY <1>1, HandleInvariance, PTL

--------------------------------------------------------------------------------
(* The counts are cardinalities throughout.                                *)
USE DEF Count, Running

(* What each context is doing. What the pool holds, or a delivery brings,  *)
(* exists and no test has had it; a context being warmed is not taken, a   *)
(* number being created is nobody's yet; inline creation is one at a time, *)
(* of the options asked for; and whatever is open was given to a test, is  *)
(* held by the pool, or is out being warmed.                               *)
Whereabouts ==
  /\ \A c \in Landed(arrivals) : task[c] = "none" /\ c \in open /\ c \notin used
  /\ \A c \in Contexts :
       /\ task[c] = "warming" => c \in open /\ c \notin used
       /\ task[c] \in {"creating", "inline"} => c \notin open \cup used
       /\ task[c] = "inline" => pc = "inline" /\ key[c] = want
  /\ \A c, d \in Contexts : task[c] = "inline" /\ task[d] = "inline" => c = d
  /\ held # NoContext => held \in used /\ pc = "idle"
  /\ open \subseteq used \cup Landed(arrivals) \cup Tasks("warming")
  /\ pc = "drained" => Landed(arrivals) = {} /\ \A c \in Contexts : task[c] = "none"

PoolInv == CountersExact /\ Whereabouts

(* Every set of contexts is finite.                                        *)
LEMMA Finite ==
  /\ IsFiniteSet(Contexts)
  /\ \A set \in SUBSET Contexts : IsFiniteSet(set) /\ Cardinality(set) \in Nat
<1>1. IsFiniteSet(Contexts)
  BY PoolAssumption, FS_Interval DEF Contexts
<1> QED BY <1>1, FS_Subset, FS_CardinalityType

(* So are the deliveries of a batch.                                       *)
LEMMA DeliveredFinite ==
  ASSUME NEW batch \in Seq(Delivery), NEW kind \in {"creation", "promotion"}
  PROVE  IsFiniteSet(Delivered(batch, kind)) /\ Count(batch, kind) \in Nat
<1>1. DOMAIN batch = 1..Len(batch) /\ Len(batch) \in Nat
  OBVIOUS
<1>2. IsFiniteSet(1..Len(batch))
  BY <1>1, FS_Interval
<1>3. Delivered(batch, kind) \subseteq 1..Len(batch)
  BY <1>1 DEF Delivered
<1> QED BY <1>2, <1>3, FS_Subset, FS_CardinalityType

(* A delivery sent counts once, and lands if it is a success.              *)
LEMMA Sent ==
  ASSUME NEW batch \in Seq(Delivery), NEW d \in Delivery, NEW kind \in {"creation", "promotion"}
  PROVE  /\ Append(batch, d) \in Seq(Delivery)
         /\ Count(Append(batch, d), kind) =
              Count(batch, kind) + IF d.kind = kind THEN 1 ELSE 0
         /\ Landed(Append(batch, d)) = Landed(batch) \cup IF d.ok THEN {d.context} ELSE {}
<1> DEFINE longer == Append(batch, d)
           old == Delivered(batch, kind)
<1>1. /\ longer \in Seq(Delivery) /\ Len(batch) \in Nat
      /\ DOMAIN batch = 1..Len(batch) /\ DOMAIN longer = 1..(Len(batch) + 1)
      /\ longer[Len(batch) + 1] = d /\ \A i \in 1..Len(batch) : longer[i] = batch[i]
  OBVIOUS
<1>2. IsFiniteSet(old) /\ Cardinality(old) \in Nat /\ Len(batch) + 1 \notin old
  <2>1. IsFiniteSet(old) /\ Cardinality(old) \in Nat
    BY DeliveredFinite
  <2>2. old \subseteq 1..Len(batch)
    BY <1>1 DEF Delivered
  <2> QED BY <1>1, <2>1, <2>2
<1>3. \A i : i \in 1..(Len(batch) + 1) <=> i \in 1..Len(batch) \/ i = Len(batch) + 1
  BY <1>1
<1>4. Delivered(longer, kind) = old \cup IF d.kind = kind THEN {Len(batch) + 1} ELSE {}
  <2> HIDE DEF longer
  <2> QED BY <1>1, <1>3 DEF Delivered
<1>5. Range(longer) = Range(batch) \cup {d}
  <2> HIDE DEF longer
  <2> QED BY <1>1, <1>3 DEF Range
<1>6. Landed(longer) = Landed(batch) \cup IF d.ok THEN {d.context} ELSE {}
  BY <1>5 DEF Landed
<1>7. Count(longer, kind) = Cardinality(old) + IF d.kind = kind THEN 1 ELSE 0
  <2>1. /\ IsFiniteSet(old)
        /\ Cardinality(old \cup {Len(batch) + 1}) = Cardinality(old) + 1
    BY <1>2, FS_AddElement
  <2> HIDE DEF old, longer
  <2>2. CASE d.kind = kind
    BY <2>1, <2>2, <1>4
  <2>3. CASE d.kind # kind
    <3>1. Delivered(longer, kind) = old
      BY <2>3, <1>4
    <3> QED BY <3>1, <2>3, <1>2
  <2> QED BY <2>2, <2>3
<1> HIDE DEF longer
<1> QED BY <1>1, <1>6, <1>7 DEF longer

(* The head of the channel and the rest account for the whole.             *)
LEMMA Received ==
  ASSUME NEW batch \in Seq(Delivery), batch # <<>>, NEW kind \in {"creation", "promotion"}
  PROVE  /\ Head(batch) \in Delivery /\ Tail(batch) \in Seq(Delivery)
         /\ <<Head(batch)>> \in Seq(Delivery)
         /\ Count(batch, kind) =
              Count(Tail(batch), kind)
                + Count(<<Head(batch)>>, kind)
         /\ Landed(batch) =
              Landed(<<Head(batch)>>) \cup {d.context : d \in {e \in Range(Tail(batch)) : e.ok}}
<1> DEFINE d == Head(batch)
           rest == Tail(batch)
           later == Delivered(rest, kind)
           moved == {i + 1 : i \in later}
           one == Delivered(<<d>>, kind)
<1>1. /\ d \in Delivery /\ rest \in Seq(Delivery) /\ <<d>> \in Seq(Delivery)
      /\ Len(batch) \in Nat \ {0}
      /\ DOMAIN batch = 1..Len(batch) /\ DOMAIN rest = 1..(Len(batch) - 1)
      /\ batch[1] = d /\ \A i \in 1..(Len(batch) - 1) : rest[i] = batch[i + 1]
  OBVIOUS
<1>2. DOMAIN <<d>> = {1} /\ <<d>>[1] = d
  OBVIOUS
<1>3. IsFiniteSet(later) /\ IsFiniteSet(one)
  BY <1>1, DeliveredFinite
<1>4. /\ \A i \in later : i \in Nat \ {0} /\ i + 1 \in 1..Len(batch) /\ batch[i + 1].kind = kind
      /\ one \subseteq {1} /\ (1 \in one <=> d.kind = kind)
  <2> HIDE DEF d, rest
  <2> QED BY <1>1, <1>2 DEF Delivered
<1>5. Delivered(batch, kind) = moved \cup one
  <2>1. \A i \in 1..Len(batch) : i # 1 => i - 1 \in 1..(Len(batch) - 1) /\ (i - 1) + 1 = i
    BY <1>1
  <2>2. \A i \in Delivered(batch, kind) : i # 1 => i - 1 \in later /\ (i - 1) + 1 = i
    <3> HIDE DEF d, rest
    <3> QED BY <1>1, <2>1 DEF Delivered
  <2>3. 1 \in Delivered(batch, kind) <=> d.kind = kind
    <3> HIDE DEF d, rest
    <3> QED BY <1>1 DEF Delivered
  <2>4. \A i \in moved : i \in Delivered(batch, kind)
    <3> HIDE DEF d, rest, later
    <3> QED BY <1>1, <1>4 DEF Delivered
  <2> HIDE DEF later, one, d, rest
  <2>5. \A i \in Delivered(batch, kind) : i \in moved \cup one
    <3>1. SUFFICES ASSUME NEW i \in Delivered(batch, kind) PROVE i \in moved \cup one
      OBVIOUS
    <3>2. CASE i = 1 BY <3>2, <2>3, <1>4
    <3>3. CASE i # 1 BY <3>3, <2>2
    <3> QED BY <3>2, <3>3
  <2>6. \A i \in one : i \in Delivered(batch, kind)
    BY <1>4, <2>3
  <2> QED BY <2>4, <2>5, <2>6
<1> HIDE DEF later, one
<1>6. IsFiniteSet(moved) /\ Cardinality(moved) = Cardinality(later)
  <2> DEFINE f == [i \in later |-> i + 1]
  <2>1. \A i, j \in later : i + 1 = j + 1 => i = j
    BY <1>4
  <2>2. f \in Bijection(later, moved)
    BY <2>1 DEF Bijection, Injection, Surjection, IsInjective
  <2>3. ExistsBijection(later, moved)
    BY <2>2 DEF ExistsBijection
  <2> HIDE DEF moved, f
  <2> QED BY <2>3, <1>3, FS_Bijection
<1>7. moved \cap one = {}
  BY <1>4
<1>8. Count(batch, kind) = Cardinality(later) + Cardinality(one)
  <2>1. Cardinality(moved \cup one) =
          Cardinality(moved) + Cardinality(one) - Cardinality(moved \cap one)
    BY <1>3, <1>6, FS_Union
  <2>2. Cardinality(moved \cap one) = 0
    BY <1>7, FS_EmptySet
  <2>3. Cardinality(moved) \in Nat /\ Cardinality(one) \in Nat
    BY <1>3, <1>6, FS_CardinalityType
  <2> QED BY <1>5, <1>6, <2>1, <2>2, <2>3
<1>9. Range(batch) = Range(<<d>>) \cup Range(rest)
  <2>1. \A i \in 1..Len(batch) : i = 1 \/ (i - 1 \in 1..(Len(batch) - 1) /\ (i - 1) + 1 = i)
    BY <1>1
  <2>2. \A i \in 1..(Len(batch) - 1) : i + 1 \in 1..Len(batch)
    BY <1>1
  <2> HIDE DEF d, rest
  <2>3. \A i \in DOMAIN batch : batch[i] = d \/ \E j \in DOMAIN rest : batch[i] = rest[j]
    BY <1>1, <2>1
  <2>4. /\ \A j \in DOMAIN rest : \E i \in DOMAIN batch : batch[i] = rest[j]
        /\ \E i \in DOMAIN batch : batch[i] = d
    BY <1>1, <2>2
  <2> QED BY <1>2, <2>3, <2>4 DEF Range
<1>10. Landed(batch) = Landed(<<d>>) \cup {e.context : e \in {a \in Range(rest) : a.ok}}
  BY <1>9 DEF Landed
<1> QED BY <1>1, <1>8, <1>10 DEF later, one

(* As many unborn numbers as are needed are found, when there are as many: *)
(* the first ones of a numbering of them.                                  *)
LEMMA FreshIs ==
  ASSUME NEW n \in Nat, Cardinality(Unborn) >= n
  PROVE  /\ Fresh(n) \in SUBSET Unborn
         /\ IsFiniteSet(Fresh(n)) /\ Cardinality(Fresh(n)) = n
<1> DEFINE total == Cardinality(Unborn)
<1>1. Unborn \subseteq Contexts
  BY DEF Unborn
<1>2. IsFiniteSet(Unborn) /\ total \in Nat
  BY <1>1, Finite
<1>3. PICK f : f \in Bijection(1..total, Unborn)
  BY <1>2, FS_CardinalityType DEF ExistsBijection
<1> DEFINE first == {f[i] : i \in 1..n}
           g == [i \in 1..n |-> f[i]]
<1>4. \A i \in 1..n : i \in 1..total
  BY <1>2
<1>5. /\ \A i \in 1..total : f[i] \in Unborn
      /\ \A i, j \in 1..total : f[i] = f[j] => i = j
  BY <1>3 DEF Bijection, Injection, IsInjective
<1>6. g \in Bijection(1..n, first)
  BY <1>4, <1>5 DEF Bijection, Injection, Surjection, IsInjective
<1>7. Cardinality(first) = n
  <2>1. ExistsBijection(1..n, first)
    BY <1>6 DEF ExistsBijection
  <2> HIDE DEF first, g
  <2> QED BY <2>1, FS_CountingElements
<1>8. first \in SUBSET Unborn
  BY <1>4, <1>5
<1> HIDE DEF first
<1>9. Fresh(n) \in SUBSET Unborn /\ Cardinality(Fresh(n)) = n
  BY <1>7, <1>8 DEF Fresh
<1>10. IsFiniteSet(Fresh(n))
  BY <1>9, <1>2, FS_Subset
<1> QED BY <1>9, <1>10

(* Nothing is delivered by an empty channel.                               *)
LEMMA EmptyBatch ==
  /\ \A kind \in {"creation", "promotion"} : Count(<<>>, kind) = 0
  /\ Landed(<<>>) = ready
<1>1. \A kind \in {"creation", "promotion"} : Delivered(<<>>, kind) = {}
  BY DEF Delivered
<1>2. Range(<<>>) = {}
  BY DEF Range
<1>3. Landed(<<>>) = ready
  BY <1>2 DEF Landed
<1> QED BY <1>1, <1>3, FS_EmptySet

(* An empty pool satisfies the invariant.                                  *)
LEMMA PoolInitInv == PoolInit => PoolInv
<1> SUFFICES ASSUME PoolInit PROVE PoolInv
  OBVIOUS
<1>1. want \in Keys
  BY PoolAssumption DEF PoolInit
<1>2. \A c \in Contexts : task[c] = "none"
  BY DEF PoolInit
<1>3. PoolTypeOK
  <2>1. arrivals \in Seq(Delivery) /\ tests \in 0..MaxTests /\ failures \in 0..MaxFailures
    BY PoolAssumption DEF PoolInit
  <2>2. /\ task \in [Contexts -> {"none", "creating", "warming", "inline"}]
        /\ key \in [Contexts -> Keys]
    BY <1>1 DEF PoolInit
  <2> QED BY <1>1, <2>1, <2>2 DEF PoolInit, PoolTypeOK
<1>4. Landed(arrivals) = {}
  BY EmptyBatch DEF PoolInit
<1>5. Tasks("creating") = {} /\ Tasks("warming") = {}
  BY <1>2 DEF Tasks
<1>6. CountersExact
  <2>1. Running("creating") = 0 /\ Running("warming") = 0
    BY <1>5, FS_EmptySet
  <2>2. arrivals = <<>> /\ inFlight = 0 /\ promoting = 0
    BY DEF PoolInit
  <2>3. /\ Count(arrivals, "creation") = 0
        /\ Count(arrivals, "promotion") = 0
    BY <2>2, EmptyBatch
  <2> QED BY <1>3, <2>1, <2>2, <2>3 DEF CountersExact
<1>7. Whereabouts
  BY <1>2, <1>4 DEF PoolInit, Whereabouts
<1> QED BY <1>6, <1>7 DEF PoolInv

(* The counts are numbers.                                                 *)
LEMMA Counts ==
  ASSUME PoolTypeOK
  PROVE  /\ Running("creating") \in Nat /\ Running("warming") \in Nat
         /\ Count(arrivals, "creation") \in Nat
         /\ Count(arrivals, "promotion") \in Nat
         /\ Landed(arrivals) \subseteq Contexts
<1>1. Tasks("creating") \subseteq Contexts /\ Tasks("warming") \subseteq Contexts
  BY DEF Tasks
<1>2. arrivals \in Seq(Delivery) /\ ready \subseteq Contexts
  BY DEF PoolTypeOK
<1>3. \A d \in Range(arrivals) : d.context \in Contexts
  <2>1. \A i \in DOMAIN arrivals : arrivals[i] \in Delivery
    BY <1>2
  <2>2. \A d \in Delivery : d.context \in Contexts
    BY DEF Delivery
  <2> QED BY <2>1, <2>2 DEF Range
<1> QED BY <1>1, <1>2, <1>3, Finite, DeliveredFinite DEF Landed

(* A task that ends is one less of its kind.                               *)
LEMMA TaskEnds ==
  ASSUME PoolTypeOK, NEW c \in Contexts, task' = [task EXCEPT ![c] = "none"],
         NEW state \in {"creating", "warming"}
  PROVE  /\ task' \in [Contexts -> {"none", "creating", "warming", "inline"}]
         /\ task'[c] = "none" /\ \A d \in Contexts \ {c} : task'[d] = task[d]
         /\ Tasks(state)' = Tasks(state) \ {c}
         /\ Running(state) \in Nat /\ Running(state)' \in Nat
         /\ Running(state) = Running(state)' + IF task[c] = state THEN 1 ELSE 0
<1>1. task \in [Contexts -> {"none", "creating", "warming", "inline"}]
  BY DEF PoolTypeOK
<1>2. /\ task' \in [Contexts -> {"none", "creating", "warming", "inline"}]
      /\ task'[c] = "none" /\ \A d \in Contexts \ {c} : task'[d] = task[d]
  BY <1>1
<1>3. Tasks(state)' = Tasks(state) \ {c}
  BY <1>2 DEF Tasks
<1>4. Tasks(state) \subseteq Contexts /\ (c \in Tasks(state) <=> task[c] = state)
  BY DEF Tasks
<1>5. IsFiniteSet(Tasks(state)) /\ Running(state) \in Nat
  BY <1>4, Finite
<1>6. Cardinality(Tasks(state) \ {c}) =
        IF c \in Tasks(state) THEN Running(state) - 1 ELSE Running(state)
  BY <1>5, FS_RemoveElement
<1>7. Cardinality(Tasks(state) \ {c}) \in Nat
  BY <1>4, Finite
<1> QED BY <1>2, <1>3, <1>4, <1>5, <1>6, <1>7

(* A refill ends: one task less, one delivery more.                        *)
LEMMA CreateInv == ASSUME PoolInv, NEW c \in Contexts, Create(c) PROVE PoolInv'
<1>1. PoolTypeOK /\ CountersExact /\ Whereabouts
  BY DEF PoolInv, CountersExact
<1>2. PICK ok \in BOOLEAN :
        /\ arrivals' = Append(arrivals, [kind |-> "creation", ok |-> ok, context |-> c])
        /\ open' = IF ok THEN open \cup {c} ELSE open
        /\ IF ok THEN ~dead ELSE dead \/ failures < MaxFailures
        /\ failures' = IF ok \/ dead THEN failures ELSE failures + 1
  BY DEF Create
<1> DEFINE d == [kind |-> "creation", ok |-> ok, context |-> c]
<1>3. /\ task[c] = "creating" /\ task' = [task EXCEPT ![c] = "none"]
      /\ UNCHANGED <<ready, inFlight, promoting, disabled, key, warm, used, held, want, pc,
                     tests, dead>>
  BY DEF Create, inbox
<1>4. d \in Delivery /\ d.kind = "creation" /\ d.ok = ok /\ d.context = c
  BY DEF Delivery
<1> HIDE DEF d
<1>5. arrivals \in Seq(Delivery)
  BY <1>1 DEF PoolTypeOK
<1>6. /\ arrivals' \in Seq(Delivery)
      /\ Count(arrivals, "creation")' = Count(arrivals, "creation") + 1
      /\ Count(arrivals, "promotion")' = Count(arrivals, "promotion")
      /\ Landed(arrivals)' = Landed(arrivals) \cup IF ok THEN {c} ELSE {}
  <2>1. arrivals' = Append(arrivals, d)
    BY <1>2 DEF d
  <2>2. /\ Delivered(arrivals, "creation")' = Delivered(Append(arrivals, d), "creation")
        /\ Delivered(arrivals, "promotion")' = Delivered(Append(arrivals, d), "promotion")
        /\ Landed(arrivals)' = Landed(Append(arrivals, d))
    BY <2>1, <1>3 DEF Delivered, Landed
  <2>3. /\ Append(arrivals, d) \in Seq(Delivery)
        /\ Landed(Append(arrivals, d)) = Landed(arrivals) \cup IF ok THEN {c} ELSE {}
        /\ Count(Append(arrivals, d), "creation") = Count(arrivals, "creation") + 1
    BY <1>4, <1>5, Sent
  <2>4. Count(Append(arrivals, d), "promotion") = Count(arrivals, "promotion") + 0
    BY <1>4, <1>5, Sent
  <2> QED BY <1>1, <2>1, <2>2, <2>3, <2>4, Counts
<1>7. /\ task' \in [Contexts -> {"none", "creating", "warming", "inline"}]
      /\ task'[c] = "none" /\ \A e \in Contexts \ {c} : task'[e] = task[e]
      /\ Tasks("warming")' = Tasks("warming") \ {c}
      /\ Running("creating")' \in Nat
      /\ Running("creating") = Running("creating")' + 1
      /\ Running("warming") = Running("warming")' + 0
  BY <1>1, <1>3, TaskEnds
<1>8. PoolTypeOK'
  BY <1>1, <1>2, <1>3, <1>6, <1>7, PoolAssumption DEF PoolTypeOK
<1>9. CountersExact'
  <2>1. /\ inFlight' = Running("creating")' + Count(arrivals, "creation")'
        /\ promoting' = Running("warming")' + Count(arrivals, "promotion")'
    <3>1. Running("warming")' \in Nat
      BY <1>1, <1>3, TaskEnds
    <3> QED BY <1>1, <1>3, <1>6, <1>7, <3>1, Counts DEF CountersExact
  <2> QED BY <1>8, <2>1 DEF CountersExact
<1>10. Whereabouts'
  <2>1. /\ \A e \in Landed(arrivals)' : task'[e] = "none" /\ e \in open' /\ e \notin used'
        /\ \A e \in Contexts :
             /\ task'[e] = "warming" => e \in open' /\ e \notin used'
             /\ task'[e] \in {"creating", "inline"} => e \notin open' \cup used'
             /\ task'[e] = "inline" => pc' = "inline" /\ key'[e] = want'
    BY <1>1, <1>2, <1>3, <1>6, <1>7, Counts DEF Whereabouts
  <2>2. open' \subseteq used' \cup Landed(arrivals)' \cup Tasks("warming")'
    BY <1>1, <1>2, <1>3, <1>6, <1>7 DEF Whereabouts, Tasks
  <2>3. pc' # "drained" /\ (held' # NoContext => held' \in used' /\ pc' = "idle")
    BY <1>1, <1>3 DEF Whereabouts
  <2>4. \A e, f \in Contexts : task'[e] = "inline" /\ task'[f] = "inline" => e = f
    BY <1>1, <1>3, <1>7 DEF Whereabouts
  <2> QED BY <2>1, <2>2, <2>3, <2>4 DEF Whereabouts
<1> QED BY <1>9, <1>10 DEF PoolInv

(* A warm-up ends likewise.                                                *)
LEMMA WarmInv == ASSUME PoolInv, NEW c \in Contexts, Warm(c) PROVE PoolInv'
<1>1. PoolTypeOK /\ CountersExact /\ Whereabouts
  BY DEF PoolInv, CountersExact
<1> DEFINE d == [kind |-> "promotion", ok |-> TRUE, context |-> c]
<1>3. /\ task[c] = "warming" /\ task' = [task EXCEPT ![c] = "none"] /\ warm' = warm \cup {c}
      /\ arrivals' = Append(arrivals, d)
      /\ UNCHANGED <<ready, inFlight, promoting, disabled, key, open, used, held, want, pc, tests,
                     failures, dead>>
  BY DEF Warm, inbox, bounds
<1>4. d \in Delivery /\ d.kind = "promotion" /\ d.ok = TRUE /\ d.context = c
  BY DEF Delivery
<1> HIDE DEF d
<1>5. arrivals \in Seq(Delivery)
  BY <1>1 DEF PoolTypeOK
<1>6. /\ arrivals' \in Seq(Delivery)
      /\ Count(arrivals, "promotion")' = Count(arrivals, "promotion") + 1
      /\ Count(arrivals, "creation")' = Count(arrivals, "creation")
      /\ Landed(arrivals)' = Landed(arrivals) \cup {c}
  <2>2. /\ Delivered(arrivals, "creation")' = Delivered(Append(arrivals, d), "creation")
        /\ Delivered(arrivals, "promotion")' = Delivered(Append(arrivals, d), "promotion")
        /\ Landed(arrivals)' = Landed(Append(arrivals, d))
    BY <1>3 DEF Delivered, Landed
  <2>3. /\ Append(arrivals, d) \in Seq(Delivery)
        /\ Landed(Append(arrivals, d)) = Landed(arrivals) \cup {c}
        /\ Count(Append(arrivals, d), "promotion") = Count(arrivals, "promotion") + 1
    BY <1>4, <1>5, Sent
  <2>4. Count(Append(arrivals, d), "creation") = Count(arrivals, "creation") + 0
    BY <1>4, <1>5, Sent
  <2> QED BY <1>1, <1>3, <2>2, <2>3, <2>4, Counts
<1>7. /\ task' \in [Contexts -> {"none", "creating", "warming", "inline"}]
      /\ task'[c] = "none" /\ \A e \in Contexts \ {c} : task'[e] = task[e]
      /\ Tasks("warming")' = Tasks("warming") \ {c}
      /\ Running("warming")' \in Nat
      /\ Running("warming") = Running("warming")' + 1
      /\ Running("creating") = Running("creating")' + 0
  BY <1>1, <1>3, TaskEnds
<1>8. PoolTypeOK'
  BY <1>1, <1>3, <1>6, <1>7 DEF PoolTypeOK
<1>9. CountersExact'
  <2>1. /\ inFlight' = Running("creating")' + Count(arrivals, "creation")'
        /\ promoting' = Running("warming")' + Count(arrivals, "promotion")'
    <3>1. Running("creating")' \in Nat
      BY <1>1, <1>3, TaskEnds
    <3> QED BY <1>1, <1>3, <1>6, <1>7, <3>1, Counts DEF CountersExact
  <2> QED BY <1>8, <2>1 DEF CountersExact
<1>10. Whereabouts'
  <2>1. /\ \A e \in Landed(arrivals)' : task'[e] = "none" /\ e \in open' /\ e \notin used'
        /\ \A e \in Contexts :
             /\ task'[e] = "warming" => e \in open' /\ e \notin used'
             /\ task'[e] \in {"creating", "inline"} => e \notin open' \cup used'
             /\ task'[e] = "inline" => pc' = "inline" /\ key'[e] = want'
    BY <1>1, <1>3, <1>6, <1>7, Counts DEF Whereabouts
  <2>2. open' \subseteq used' \cup Landed(arrivals)' \cup Tasks("warming")'
    BY <1>1, <1>3, <1>6, <1>7 DEF Whereabouts, Tasks
  <2>3. pc' # "drained" /\ (held' # NoContext => held' \in used' /\ pc' = "idle")
    BY <1>1, <1>3 DEF Whereabouts
  <2>4. \A e, f \in Contexts : task'[e] = "inline" /\ task'[f] = "inline" => e = f
    BY <1>1, <1>3, <1>7 DEF Whereabouts
  <2> QED BY <2>1, <2>2, <2>3, <2>4 DEF Whereabouts
<1> QED BY <1>9, <1>10 DEF PoolInv

(* Saturating subtraction is exact when there is enough.                   *)
LEMMA Taken ==
  ASSUME NEW a \in Nat, NEW b \in Nat PROVE Monus(a + b, b) = a
BY DEF Monus

(* Once all deliveries are in, the counters count the tasks.               *)
LEMMA BatchIn ==
  ASSUME CountersExact
  PROVE  /\ InFlightAfter(arrivals) = Running("creating")
         /\ PromotingAfter(arrivals) = Running("warming")
<1>1. PoolTypeOK
  BY DEF CountersExact
<1> QED BY <1>1, Counts, Taken DEF CountersExact, InFlightAfter, PromotingAfter

(* The sets of tasks depend on the tasks alone.                            *)
LEMMA SameTasks ==
  ASSUME PoolTypeOK, UNCHANGED task
  PROVE  Tasks("creating")' = Tasks("creating") /\ Tasks("warming")' = Tasks("warming")
BY DEF Tasks

(* An empty channel leaves only what is in the queue.                      *)
LEMMA EmptyChannel ==
  ASSUME arrivals' = <<>>
  PROVE  /\ Count(arrivals, "creation")' = 0
         /\ Count(arrivals, "promotion")' = 0
         /\ Landed(arrivals)' = ready'
<1>1. Delivered(arrivals, "creation")' = {} /\ Delivered(arrivals, "promotion")' = {}
  BY DEF Delivered
<1>2. Range(arrivals)' = {}
  BY DEF Range
<1>3. Landed(arrivals)' = ready'
  BY <1>2 DEF Landed
<1> QED BY <1>1, <1>3, FS_EmptySet

(* A hit takes a context out of the pool: it is used from now on.          *)
LEMMA HitInv == ASSUME PoolInv, Hit PROVE PoolInv'
<1>1. PoolTypeOK /\ CountersExact /\ Whereabouts
  BY DEF PoolInv, CountersExact
<1>2. PICK c \in Takeable(Landed(arrivals), want) :
        ready' = Landed(arrivals) \ {c} /\ held' = c /\ used' = used \cup {c}
  BY DEF Hit
<1>3. /\ inFlight' = InFlightAfter(arrivals) /\ promoting' = PromotingAfter(arrivals)
      /\ arrivals' = <<>> /\ pc' = "idle"
      /\ UNCHANGED <<disabled, task, key, warm, open, want, tests, failures, dead>>
  BY DEF Hit, bounds
<1>4. c \in Landed(arrivals) /\ Landed(arrivals) \subseteq Contexts
  BY <1>1, <1>2, Counts DEF Takeable, Matches
<1>5. /\ Tasks("creating")' = Tasks("creating") /\ Tasks("warming")' = Tasks("warming")
      /\ Running("creating") \in Nat /\ Running("warming") \in Nat
      /\ Count(arrivals, "creation")' = 0
      /\ Count(arrivals, "promotion")' = 0
      /\ Landed(arrivals)' = Landed(arrivals) \ {c}
      /\ inFlight' = Running("creating") /\ promoting' = Running("warming")
  BY <1>1, <1>2, <1>3, SameTasks, Counts, EmptyChannel, BatchIn
<1>6. PoolTypeOK'
  BY <1>1, <1>2, <1>3, <1>4, <1>5 DEF PoolTypeOK
<1>7. CountersExact'
  BY <1>5, <1>6 DEF CountersExact
<1>8. Whereabouts'
  <2>1. /\ \A e \in Landed(arrivals)' : task'[e] = "none" /\ e \in open' /\ e \notin used'
        /\ \A e \in Contexts :
             /\ task'[e] = "warming" => e \in open' /\ e \notin used'
             /\ task'[e] \in {"creating", "inline"} => e \notin open' \cup used'
             /\ task'[e] = "inline" => pc' = "inline" /\ key'[e] = want'
    BY <1>1, <1>2, <1>3, <1>4, <1>5 DEF Whereabouts, Hit
  <2>2. open' \subseteq used' \cup Landed(arrivals)' \cup Tasks("warming")'
    BY <1>1, <1>2, <1>3, <1>5 DEF Whereabouts
  <2>3. pc' # "drained" /\ (held' # NoContext => held' \in used' /\ pc' = "idle")
    BY <1>2, <1>3
  <2>4. \A e, f \in Contexts : task'[e] = "inline" /\ task'[f] = "inline" => e = f
    BY <1>1, <1>3 DEF Whereabouts
  <2> QED BY <2>1, <2>2, <2>3, <2>4 DEF Whereabouts
<1> QED BY <1>7, <1>8 DEF PoolInv

(* One delivery taken off the channel and off its counter.                 *)
LEMMA ReceiveKeeps ==
  ASSUME CountersExact, Receive, UNCHANGED task
  PROVE  /\ ready' \subseteq Contexts /\ arrivals' \in Seq(Delivery)
         /\ inFlight' \in Nat /\ promoting' \in Nat
         /\ inFlight' = Running("creating")' + Count(arrivals, "creation")'
         /\ promoting' = Running("warming")' + Count(arrivals, "promotion")'
         /\ Landed(arrivals)' = Landed(arrivals)
         /\ Tasks("warming")' = Tasks("warming")
<1> DEFINE one == <<Head(arrivals)>>
<1>1. PoolTypeOK /\ arrivals \in Seq(Delivery) /\ arrivals # <<>>
  BY DEF CountersExact, PoolTypeOK, Receive
<1>2. /\ ready' = Landed(one) /\ arrivals' = Tail(arrivals)
      /\ inFlight' = Monus(inFlight, Count(one, "creation"))
      /\ promoting' = Monus(promoting, Count(one, "promotion"))
  BY DEF Receive, InFlightAfter, PromotingAfter
<1>3. /\ Head(arrivals) \in Delivery /\ Tail(arrivals) \in Seq(Delivery) /\ one \in Seq(Delivery)
      /\ Landed(arrivals) =
           Landed(one) \cup {d.context : d \in {e \in Range(Tail(arrivals)) : e.ok}}
      /\ Count(arrivals, "creation") =
           Count(Tail(arrivals), "creation") + Count(one, "creation")
      /\ Count(arrivals, "promotion") =
           Count(Tail(arrivals), "promotion") + Count(one, "promotion")
  BY <1>1, Received
<1> HIDE DEF one
<1>4. /\ Count(one, "creation") \in Nat /\ Count(one, "promotion") \in Nat
      /\ Count(Tail(arrivals), "creation") \in Nat
      /\ Count(Tail(arrivals), "promotion") \in Nat
  BY <1>3, DeliveredFinite
<1>5. /\ Delivered(arrivals, "creation")' = Delivered(Tail(arrivals), "creation")
      /\ Delivered(arrivals, "promotion")' = Delivered(Tail(arrivals), "promotion")
      /\ Landed(arrivals)' = ready' \cup {d.context : d \in {e \in Range(Tail(arrivals)) : e.ok}}
  BY <1>2 DEF Delivered, Landed
<1>6. Tasks("creating")' = Tasks("creating") /\ Tasks("warming")' = Tasks("warming")
  BY <1>1, SameTasks
<1>7. Running("creating") \in Nat /\ Running("warming") \in Nat
      /\ Landed(arrivals) \subseteq Contexts
  BY <1>1, Counts
<1>8. /\ inFlight = (Running("creating") + Count(Tail(arrivals), "creation"))
                      + Count(one, "creation")
      /\ promoting = (Running("warming") + Count(Tail(arrivals), "promotion"))
                      + Count(one, "promotion")
  BY <1>3, <1>4, <1>7 DEF CountersExact
<1>9. /\ inFlight' = Running("creating") + Count(Tail(arrivals), "creation")
      /\ promoting' = Running("warming") + Count(Tail(arrivals), "promotion")
  <2>1. /\ Running("creating") + Count(Tail(arrivals), "creation") \in Nat
        /\ Running("warming") + Count(Tail(arrivals), "promotion") \in Nat
    BY <1>4, <1>7
  <2> QED BY <1>2, <1>4, <1>8, <2>1, Taken
<1>10. Landed(arrivals)' = Landed(arrivals)
  BY <1>2, <1>3, <1>5
<1>11. inFlight' \in Nat /\ promoting' \in Nat
  BY <1>4, <1>7, <1>9
<1> QED BY <1>2, <1>3, <1>5, <1>6, <1>7, <1>9, <1>10, <1>11

(* acquire() and drain() wait for one delivery.                            *)
LEMMA AwaitInv == ASSUME PoolInv, AwaitOne \/ DrainOne PROVE PoolInv'
<1>1. PoolTypeOK /\ CountersExact /\ Whereabouts
  BY DEF PoolInv, CountersExact
<1>2. /\ Receive
      /\ UNCHANGED <<disabled, task, key, warm, open, used, held, want, tests, failures, dead>>
      /\ pc' \in {"looking", "draining"} /\ pc \in {"waiting", "draining"}
  BY DEF AwaitOne, DrainOne, bounds
<1>3. PoolTypeOK'
  BY <1>1, <1>2, ReceiveKeeps DEF PoolTypeOK
<1>4. CountersExact'
  BY <1>1, <1>2, <1>3, ReceiveKeeps DEF CountersExact
<1>5. Landed(arrivals)' = Landed(arrivals) /\ Tasks("warming")' = Tasks("warming")
  BY <1>1, <1>2, ReceiveKeeps
<1>6. Whereabouts'
  BY <1>1, <1>2, <1>5 DEF Whereabouts
<1> QED BY <1>4, <1>6 DEF PoolInv

(* Whatever leaves the tasks, the channel and the counters alone. *)
LEMMA PoolQuiet ==
  ASSUME PoolInv, UNCHANGED <<ready, inFlight, promoting, arrivals, task, key>>, PoolTypeOK',
         pc = "inline" => UNCHANGED <<pc, want>>, open' \subseteq open,
         open \ open' \subseteq {held},
         used' = used,
         held' = NoContext \/ (held' = held /\ UNCHANGED pc), pc' = "drained" => pc = "drained"
  PROVE  PoolInv'
<1>1. PoolTypeOK /\ CountersExact /\ Whereabouts
  BY DEF PoolInv, CountersExact
<1>2. /\ Tasks("creating")' = Tasks("creating") /\ Tasks("warming")' = Tasks("warming")
      /\ Landed(arrivals)' = Landed(arrivals)
      /\ Delivered(arrivals, "creation")' = Delivered(arrivals, "creation")
      /\ Delivered(arrivals, "promotion")' = Delivered(arrivals, "promotion")
  BY DEF Tasks, Landed, Delivered
<1>3. CountersExact'
  BY <1>1, <1>2 DEF CountersExact
<1>4. held \notin Contexts \/ held \in used
  <2>1. NoContext \notin Contexts
    BY DEF NoContext, Contexts
  <2> QED BY <2>1, <1>1 DEF Whereabouts
<1>5. Landed(arrivals) \subseteq Contexts
  BY <1>1, Counts
<1>6. Whereabouts'
  <2>1. /\ \A c \in Landed(arrivals)' : task'[c] = "none" /\ c \in open' /\ c \notin used'
        /\ \A c \in Contexts :
             /\ task'[c] = "warming" => c \in open' /\ c \notin used'
             /\ task'[c] \in {"creating", "inline"} => c \notin open' \cup used'
             /\ task'[c] = "inline" => pc' = "inline" /\ key'[c] = want'
    BY <1>1, <1>2, <1>4, <1>5 DEF Whereabouts
  <2>2. open' \subseteq used' \cup Landed(arrivals)' \cup Tasks("warming")'
    BY <1>1, <1>2 DEF Whereabouts
  <2>3. (pc' = "drained" => Landed(arrivals)' = {} /\ \A c \in Contexts : task'[c] = "none")
        /\ (held' # NoContext => held' \in used' /\ pc' = "idle")
    BY <1>1, <1>2 DEF Whereabouts
  <2>4. \A e, f \in Contexts : task'[e] = "inline" /\ task'[f] = "inline" => e = f
    BY <1>1 DEF Whereabouts
  <2> QED BY <2>1, <2>2, <2>3, <2>4 DEF Whereabouts
<1> QED BY <1>3, <1>6 DEF PoolInv

(* A test begins or ends, drain() begins, the browser dies, or nothing     *)
(* happens.                                                                *)
LEMMA QuietInv ==
  ASSUME PoolInv, (\E k \in Keys : Begin(k)) \/ Drain \/ Finish \/ Die \/ UNCHANGED poolVars
  PROVE  PoolInv'
<1>1. PoolTypeOK
  BY DEF PoolInv, CountersExact
<1>2. CASE \E k \in Keys : Begin(k)
  <2>1. PICK k \in Keys : Begin(k)
    BY <1>2
  <2>2. PoolTypeOK'
    BY <1>1, <2>1, PoolAssumption DEF PoolTypeOK, Begin, inbox
  <2> QED BY <2>1, <2>2, PoolQuiet DEF Begin, inbox
<1>3. CASE Drain
  <2>1. PoolTypeOK'
    BY <1>1, <1>3 DEF PoolTypeOK, Drain, inbox, bounds
  <2> QED BY <1>3, <2>1, PoolQuiet DEF Drain, inbox
<1>4. CASE Finish
  <2>1. PoolTypeOK'
    BY <1>1, <1>4 DEF PoolTypeOK, Finish, inbox, bounds
  <2> QED BY <1>4, <2>1, PoolQuiet DEF Finish, inbox
<1>5. CASE Die
  <2>1. PoolTypeOK'
    BY <1>1, <1>5 DEF PoolTypeOK, Die, inbox, bounds
  <2> QED BY <1>5, <2>1, PoolQuiet DEF Die, inbox
<1>6. CASE UNCHANGED poolVars
  <2>1. PoolTypeOK'
    BY <1>1, <1>6 DEF PoolTypeOK, poolVars
  <2> QED BY <1>6, <2>1, PoolQuiet DEF poolVars
<1> QED BY <1>2, <1>3, <1>4, <1>5, <1>6

(* An inline creation ends: its number was nobody's.                       *)
LEMMA InlineInv == ASSUME PoolInv, NEW c \in Contexts, InlineDone(c) PROVE PoolInv'
<1>1. PoolTypeOK /\ CountersExact /\ Whereabouts
  BY DEF PoolInv, CountersExact
<1>2. /\ pc = "inline" /\ task[c] = "inline" /\ task' = [task EXCEPT ![c] = "none"]
      /\ pc' = "idle"
      /\ UNCHANGED <<ready, inFlight, promoting, arrivals, disabled, key, warm, want, tests, dead>>
  BY DEF InlineDone, inbox
<1>3. \/ open' = open \cup {c} /\ held' = c /\ used' = used \cup {c} /\ failures' = failures
      \/ /\ UNCHANGED <<open, held, used>>
         /\ dead \/ failures < MaxFailures
         /\ failures' = IF dead THEN failures ELSE failures + 1
  BY DEF InlineDone
<1>4. /\ task' \in [Contexts -> {"none", "creating", "warming", "inline"}]
      /\ task'[c] = "none" /\ \A e \in Contexts \ {c} : task'[e] = task[e]
  BY <1>1, <1>2, TaskEnds
<1>5. Tasks("warming")' = Tasks("warming") /\ Tasks("creating")' = Tasks("creating")
  BY <1>2, <1>4 DEF Tasks
<1>6. /\ Landed(arrivals)' = Landed(arrivals) /\ Landed(arrivals) \subseteq Contexts
      /\ Delivered(arrivals, "creation")' = Delivered(arrivals, "creation")
      /\ Delivered(arrivals, "promotion")' = Delivered(arrivals, "promotion")
  BY <1>1, <1>2, Counts DEF Landed, Delivered
<1>7. PoolTypeOK'
  <2>1. failures' \in 0..MaxFailures
    BY <1>1, <1>3, PoolAssumption DEF PoolTypeOK
  <2> QED BY <1>1, <1>2, <1>3, <1>4, <2>1 DEF PoolTypeOK
<1>8. CountersExact'
  BY <1>1, <1>2, <1>5, <1>6, <1>7 DEF CountersExact
<1>9. Whereabouts'
  <2>1. c \notin Landed(arrivals) /\ c \notin open \cup used
    BY <1>1, <1>2 DEF Whereabouts
  <2>2. /\ \A e \in Landed(arrivals)' : task'[e] = "none" /\ e \in open' /\ e \notin used'
        /\ \A e \in Contexts :
             /\ task'[e] = "warming" => e \in open' /\ e \notin used'
             /\ task'[e] \in {"creating", "inline"} => e \notin open' \cup used'
    BY <1>1, <1>2, <1>3, <1>4, <1>6, <2>1 DEF Whereabouts
  <2>3. \A e \in Contexts : task'[e] # "inline"
    BY <1>1, <1>2, <1>4 DEF Whereabouts
  <2>4. open' \subseteq used' \cup Landed(arrivals)' \cup Tasks("warming")'
    BY <1>1, <1>3, <1>5, <1>6 DEF Whereabouts
  <2>5. pc' # "drained" /\ (held' # NoContext => held' \in used' /\ pc' = "idle")
    BY <1>1, <1>2, <1>3 DEF Whereabouts
  <2> QED BY <2>2, <2>3, <2>4, <2>5 DEF Whereabouts
<1> QED BY <1>8, <1>9 DEF PoolInv

(* A timeout drops acquire(): refills and warm-ups go on.                  *)
LEMMA TimeOutInv == ASSUME PoolInv, TimeOut PROVE PoolInv'
<1> DEFINE dropped == {c \in Contexts : task[c] = "inline"}
<1>1. PoolTypeOK /\ CountersExact /\ Whereabouts
  BY DEF PoolInv, CountersExact
<1>2. /\ pc \in {"waiting", "inline"} /\ pc' = "idle"
      /\ task' = [c \in Contexts |-> IF c \in dropped THEN "none" ELSE task[c]]
      /\ UNCHANGED <<ready, inFlight, promoting, arrivals, disabled, key, warm, held, want, tests,
                     failures, dead>>
  BY DEF TimeOut, inbox, bounds
<1>3. \/ UNCHANGED <<open, used>>
      \/ open' = open \cup dropped /\ used' = used \cup dropped
  BY DEF TimeOut
<1>4. /\ task' \in [Contexts -> {"none", "creating", "warming", "inline"}]
      /\ \A e \in Contexts : /\ task'[e] # "inline"
                             /\ task[e] = "inline" => task'[e] = "none"
                             /\ task[e] # "inline" => task'[e] = task[e]
  BY <1>1, <1>2 DEF PoolTypeOK
<1>5. Tasks("warming")' = Tasks("warming") /\ Tasks("creating")' = Tasks("creating")
  BY <1>4 DEF Tasks
<1>6. /\ Landed(arrivals)' = Landed(arrivals) /\ Landed(arrivals) \subseteq Contexts
      /\ Delivered(arrivals, "creation")' = Delivered(arrivals, "creation")
      /\ Delivered(arrivals, "promotion")' = Delivered(arrivals, "promotion")
  BY <1>1, <1>2, Counts DEF Landed, Delivered
<1>7. PoolTypeOK'
  BY <1>1, <1>2, <1>3, <1>4 DEF PoolTypeOK
<1>8. CountersExact'
  BY <1>1, <1>2, <1>5, <1>6, <1>7 DEF CountersExact
<1>9. Whereabouts'
  <2>1. \A c \in dropped : c \notin Landed(arrivals) /\ c \notin open \cup used
    BY <1>1 DEF Whereabouts
  <2>2. /\ \A e \in Landed(arrivals)' : task'[e] = "none" /\ e \in open' /\ e \notin used'
        /\ \A e \in Contexts :
             /\ task'[e] = "warming" => e \in open' /\ e \notin used'
             /\ task'[e] \in {"creating", "inline"} => e \notin open' \cup used'
    BY <1>1, <1>3, <1>4, <1>6, <2>1 DEF Whereabouts
  <2>3. open' \subseteq used' \cup Landed(arrivals)' \cup Tasks("warming")'
    BY <1>1, <1>3, <1>5, <1>6 DEF Whereabouts
  <2>4. pc' # "drained" /\ (held' # NoContext => held' \in used' /\ pc' = "idle")
    BY <1>1, <1>2, <1>3 DEF Whereabouts
  <2> QED BY <1>4, <2>2, <2>3, <2>4 DEF Whereabouts
<1> QED BY <1>8, <1>9 DEF PoolInv

(* With both counters at 0 no task runs and nothing is under way, so what  *)
(* the pool holds is all there is to close.                                *)
LEMMA DrainAllInv == ASSUME PoolInv, DrainAll PROVE PoolInv'
<1>1. PoolTypeOK /\ CountersExact /\ Whereabouts
  BY DEF PoolInv, CountersExact
<1>2. /\ pc = "draining" /\ pc' = "drained" /\ inFlight + promoting <= 0
      /\ open' = open \ ready /\ ready' = {}
      /\ UNCHANGED <<inFlight, promoting, arrivals, disabled, task, key, warm, used, held, want,
                     tests, failures, dead>>
  <2>1. inFlight \in Nat /\ promoting \in Nat
    BY <1>1 DEF PoolTypeOK
  <2> QED BY <2>1 DEF DrainAll, Outstanding, bounds
<1>3. /\ Running("creating") = 0 /\ Running("warming") = 0
      /\ Count(arrivals, "creation") = 0
      /\ Count(arrivals, "promotion") = 0
  BY <1>1, <1>2, Counts DEF CountersExact
<1>4. Tasks("creating") = {} /\ Tasks("warming") = {}
  <2>1. IsFiniteSet(Tasks("creating")) /\ IsFiniteSet(Tasks("warming"))
    BY Finite DEF Tasks
  <2> QED BY <2>1, <1>3, FS_EmptySet
<1>5. Range(arrivals) = {}
  <2>1. arrivals \in Seq(Delivery)
    BY <1>1 DEF PoolTypeOK
  <2>2. /\ IsFiniteSet(Delivered(arrivals, "creation"))
        /\ IsFiniteSet(Delivered(arrivals, "promotion"))
    BY <2>1, DeliveredFinite
  <2>3. Delivered(arrivals, "creation") = {} /\ Delivered(arrivals, "promotion") = {}
    BY <2>2, <1>3, FS_EmptySet
  <2>4. \A i \in DOMAIN arrivals : arrivals[i].kind \in {"creation", "promotion"}
    <3>1. \A i \in DOMAIN arrivals : arrivals[i] \in Delivery
      BY <2>1
    <3> QED BY <3>1 DEF Delivery
  <2> QED BY <2>3, <2>4 DEF Delivered, Range
<1>6. Landed(arrivals) = ready /\ Landed(arrivals)' = {}
  BY <1>2, <1>5 DEF Landed
<1>7. /\ Tasks("creating")' = Tasks("creating") /\ Tasks("warming")' = Tasks("warming")
      /\ Delivered(arrivals, "creation")' = Delivered(arrivals, "creation")
      /\ Delivered(arrivals, "promotion")' = Delivered(arrivals, "promotion")
  BY <1>2 DEF Tasks, Delivered
<1>8. PoolTypeOK'
  BY <1>1, <1>2 DEF PoolTypeOK
<1>9. CountersExact'
  BY <1>1, <1>2, <1>7, <1>8 DEF CountersExact
<1>10. \A c \in Contexts : task[c] = "none"
  <2>1. \A c \in Contexts : task[c] # "creating" /\ task[c] # "warming"
    BY <1>4 DEF Tasks
  <2>2. \A c \in Contexts : task[c] # "inline"
    BY <1>1, <1>2 DEF Whereabouts
  <2> QED BY <1>1, <2>1, <2>2 DEF PoolTypeOK
<1>11. Whereabouts'
  BY <1>1, <1>2, <1>4, <1>6, <1>7, <1>10 DEF Whereabouts
<1> QED BY <1>9, <1>11 DEF PoolInv

(* A refill: the promoted contexts leave the queue, the new numbers were   *)
(* nobody's, and each counter grows by the tasks it counts.                *)
LEMMA RefillInv == ASSUME PoolInv, Refill PROVE PoolInv'
<1> DEFINE queue  == Landed(arrivals)
           flying == InFlightAfter(arrivals)
           want1  == Want(queue, flying)
           inline == IF MustInline(queue, flying + want1) THEN 1 ELSE 0
           n      == want1 + inline
           born   == Fresh(n)
<1>1. PoolTypeOK /\ CountersExact /\ Whereabouts
  BY DEF PoolInv, CountersExact
<1>2. PICK out \in Spare(queue) :
        /\ ready' = queue \ out
        /\ promoting' = PromotingAfter(arrivals) + Cardinality(out)
        /\ task' = [c \in Contexts |-> IF c \in out THEN "warming"
                                       ELSE IF c \notin born THEN task[c]
                                       ELSE IF inline = 1 THEN "inline" ELSE "creating"]
  BY DEF Refill, Left
<1>3. /\ pc = "looking" /\ Cardinality(Unborn) >= n
      /\ inFlight' = flying + want1 /\ arrivals' = <<>>
      /\ key' = [c \in Contexts |-> IF c \in born THEN want ELSE key[c]]
      /\ pc' = IF inline = 1 THEN "inline" ELSE "waiting"
      /\ UNCHANGED <<disabled, warm, open, used, held, want, tests, failures, dead>>
  BY DEF Refill, bounds
<1>4. /\ queue \subseteq Contexts /\ IsFiniteSet(queue) /\ Cardinality(queue) \in Nat
      /\ flying = Running("creating") /\ flying \in Nat
      /\ PromotingAfter(arrivals) = Running("warming")
      /\ PromotingAfter(arrivals) \in Nat
  BY <1>1, Counts, BatchIn, Finite
<1>5. want1 \in Nat
  <2> HIDE DEF flying, queue
  <2> QED BY <1>4, PoolAssumption DEF Want, Monus
<1>6. inline \in {0, 1} /\ (inline = 1 => want1 = 0) /\ n \in Nat
  <2>1. inline \in {0, 1} /\ (inline = 1 => flying + want1 = 0)
    BY DEF MustInline
  <2> HIDE DEF inline, want1, flying
  <2> QED BY <2>1, <1>4, <1>5
<1> HIDE DEF want1, inline, flying
<1>7. /\ born \subseteq Unborn /\ IsFiniteSet(born) /\ Cardinality(born) = n
  BY <1>3, <1>6, FreshIs
<1> HIDE DEF born
<1>8. /\ out \subseteq queue /\ IsFiniteSet(out)
      /\ Cardinality(out) \in Nat /\ out \subseteq Contexts
  <2>1. out \subseteq queue
    BY <1>2 DEF Spare
  <2> QED BY <2>1, <1>4, Finite
<1>9. /\ \A c \in born : /\ c \in Contexts /\ task[c] = "none"
                       /\ c \notin open /\ c \notin used /\ c \notin out
      /\ \A c \in out : task[c] = "none" /\ c \in open /\ c \notin used
  BY <1>1, <1>7, <1>8 DEF Unborn, Whereabouts
<1>10. /\ task' \in [Contexts -> {"none", "creating", "warming", "inline"}]
       /\ \A c \in Contexts :
            /\ c \in out => task'[c] = "warming"
            /\ c \in born => task'[c] = IF inline = 1 THEN "inline" ELSE "creating"
            /\ c \notin out \cup born => task'[c] = task[c]
  <2> HIDE DEF n
  <2> QED BY <1>1, <1>2, <1>6, <1>9 DEF PoolTypeOK
<1>11. Tasks("warming")' = Tasks("warming") \cup out
  BY <1>8, <1>9, <1>10 DEF Tasks
<1>12. Running("warming")' = Running("warming") + Cardinality(out)
  <2>1. IsFiniteSet(Tasks("warming")) /\ Running("warming") \in Nat
    BY Finite DEF Tasks
  <2>2. Tasks("warming") \cap out = {}
    BY <1>9 DEF Tasks
  <2>3. Cardinality(Tasks("warming") \cup out) =
          Running("warming") + Cardinality(out) - Cardinality(Tasks("warming") \cap out)
    BY <2>1, <1>8, FS_Union
  <2>4. Cardinality(Tasks("warming") \cap out) = 0
    BY <2>2, FS_EmptySet
  <2>5. Cardinality(Tasks("warming") \cup out) = Running("warming") + Cardinality(out)
    BY <1>8, <2>1, <2>3, <2>4
  <2> QED BY <1>11, <2>5
<1>13. Running("creating")' = Running("creating") + want1
  <2>1. IsFiniteSet(Tasks("creating")) /\ Running("creating") \in Nat
    BY Finite DEF Tasks
  <2>2. CASE inline = 1
    <3>1. Tasks("creating")' = Tasks("creating")
      BY <2>2, <1>9, <1>10 DEF Tasks
    <3> QED BY <3>1, <2>1, <2>2, <1>6
  <2>3. CASE inline = 0
    <3>1. Tasks("creating")' = Tasks("creating") \cup born
      BY <2>3, <1>9, <1>10 DEF Tasks
    <3>2. Tasks("creating") \cap born = {}
      BY <1>9 DEF Tasks
    <3>3. Cardinality(Tasks("creating") \cup born) =
            Running("creating") + Cardinality(born) - Cardinality(Tasks("creating") \cap born)
      BY <2>1, <1>7, FS_Union
    <3>4. Cardinality(born) = want1
      BY <2>3, <1>5, <1>7
    <3>5. Cardinality(Tasks("creating") \cap born) = 0
      BY <3>2, FS_EmptySet
    <3>6. Cardinality(Tasks("creating") \cup born) = Running("creating") + want1
      BY <3>3, <3>4, <3>5, <2>1, <1>5
    <3> QED BY <3>1, <3>6
  <2> QED BY <2>2, <2>3, <1>6
<1>14. /\ Count(arrivals, "creation")' = 0
       /\ Count(arrivals, "promotion")' = 0
       /\ Landed(arrivals)' = queue \ out
  BY <1>2, <1>3, EmptyChannel
<1> HIDE DEF queue, n
<1>15. PoolTypeOK'
  <2>1. key' \in [Contexts -> Keys]
    BY <1>1, <1>3 DEF PoolTypeOK
  <2>2. inFlight' \in Nat /\ promoting' \in Nat
    BY <1>2, <1>3, <1>4, <1>5, <1>8
  <2>3. arrivals' \in Seq(Delivery) /\ ready' \subseteq Contexts
    BY <1>2, <1>3, <1>4
  <2> QED BY <1>1, <1>3, <1>10, <2>1, <2>2, <2>3 DEF PoolTypeOK
<1>16. CountersExact'
  <2>1. /\ inFlight' = Running("creating")' + 0
        /\ promoting' = Running("warming")' + 0
    BY <1>2, <1>3, <1>4, <1>5, <1>8, <1>12, <1>13
  <2> QED BY <2>1, <1>14, <1>15 DEF CountersExact
<1>17. Whereabouts'
  <2>1. \A c \in queue : task[c] = "none" /\ c \in open /\ c \notin used
    BY <1>1 DEF Whereabouts, queue
  <2>2. \A c \in Landed(arrivals)' : task'[c] = "none" /\ c \in open' /\ c \notin used'
    BY <2>1, <1>3, <1>4, <1>9, <1>10, <1>14
  <2>3. \A c \in Contexts : task[c] # "inline"
    BY <1>1, <1>3 DEF Whereabouts
  <2>4. \A c \in Contexts :
          /\ task'[c] = "warming" => c \in open' /\ c \notin used'
          /\ task'[c] \in {"creating", "inline"} => c \notin open' \cup used'
    BY <1>1, <1>3, <1>9, <1>10 DEF Whereabouts
  <2>5. \A c \in Contexts : task'[c] = "inline" => c \in born /\ inline = 1
    BY <2>3, <1>6, <1>10
  <2>6. \A c \in Contexts : task'[c] = "inline" => pc' = "inline" /\ key'[c] = want'
    BY <2>5, <1>3
  <2>7. \A c, d \in Contexts : task'[c] = "inline" /\ task'[d] = "inline" => c = d
    <3> SUFFICES ASSUME NEW c \in born, NEW d \in born, inline = 1 PROVE c = d
      BY <2>5
    <3>1. Cardinality(born) = 1
      BY <1>5, <1>6, <1>7 DEF n
    <3>2. PICK x : born = {x}
      BY <3>1, <1>7, FS_Singleton
    <3> QED BY <3>2
  <2>8. open' \subseteq used' \cup Landed(arrivals)' \cup Tasks("warming")'
    BY <1>1, <1>3, <1>11, <1>14 DEF Whereabouts, queue
  <2>9. pc' # "drained" /\ (held' # NoContext => held' \in used' /\ pc' = "idle")
    BY <1>1, <1>3 DEF Whereabouts
  <2> QED BY <2>2, <2>4, <2>6, <2>7, <2>8, <2>9 DEF Whereabouts
<1> QED BY <1>16, <1>17 DEF PoolInv

(* Every step of the pool keeps the invariant.                             *)
LEMMA PoolNextInv == PoolInv /\ [PoolNext]_poolVars => PoolInv'
<1> SUFFICES ASSUME PoolInv, [PoolNext]_poolVars PROVE PoolInv'
  OBVIOUS
<1>1. CASE (\E k \in Keys : Begin(k)) \/ Finish \/ Drain \/ Die \/ Done \/ UNCHANGED poolVars
  BY <1>1, QuietInv DEF Done
<1>2. CASE Hit \/ Refill \/ AwaitOne \/ TimeOut \/ DrainOne \/ DrainAll
  BY <1>2, HitInv, RefillInv, AwaitInv, TimeOutInv, DrainAllInv
<1>3. ASSUME NEW c \in Contexts, InlineDone(c) \/ Create(c) \/ Warm(c) PROVE PoolInv'
  BY <1>3, InlineInv, CreateInv, WarmInv
<1> QED BY <1>1, <1>2, <1>3 DEF PoolNext

(* It holds in every behaviour.                                            *)
LEMMA PoolInvariance == PoolSpec => []PoolInv
BY PoolInitInv, PoolNextInv, PTL DEF PoolSpec

(* in_flight and promoting count exactly the spawned tasks and the         *)
(* deliveries not received, through failures, promotions and cancelled     *)
(* acquires.                                                               *)
THEOREM Counted == PoolSpec => []CountersExact
<1>1. PoolInv => CountersExact BY DEF PoolInv
<1> QED BY <1>1, PoolInvariance, PTL

(* After drain() no task of the pool runs and no context is open that was  *)
(* not given to a test.                                                    *)
THEOREM Drained == PoolSpec => []DrainLeavesNothing
<1>1. PoolInv => DrainLeavesNothing
  <2> SUFFICES ASSUME PoolInv, pc = "drained"
               PROVE  (\A c \in Contexts : task[c] = "none") /\ open \subseteq used
    BY DEF DrainLeavesNothing
  <2>1. Landed(arrivals) = {} /\ \A c \in Contexts : task[c] = "none"
    BY DEF PoolInv, Whereabouts
  <2>2. Tasks("warming") = {}
    BY <2>1 DEF Tasks
  <2> QED BY <2>1, <2>2 DEF PoolInv, Whereabouts
<1> QED BY <1>1, PoolInvariance, PTL

(* A context is handed out by a hit or by an inline creation.              *)
LEMMA HandedOut ==
  ASSUME PoolInv, [PoolNext]_poolVars, held' \notin {NoContext, held}
  PROVE  /\ held' \notin used /\ held' \in open' /\ key[held'] = want
         /\ task'[held'] = "none" /\ held' \notin ready'
<1>1. PoolTypeOK /\ Whereabouts
  BY DEF PoolInv, CountersExact
<1>2. Landed(arrivals) \subseteq Contexts /\ ready \subseteq Landed(arrivals)
  BY <1>1, Counts DEF Landed
<1>3. Hit \/ \E c \in Contexts : InlineDone(c)
  <2>1. CASE UNCHANGED poolVars
    BY <2>1 DEF poolVars
  <2> QED BY <2>1 DEF PoolNext, Done, poolVars, Begin, Refill, AwaitOne, TimeOut, Finish, Create,
                      Warm, Drain, DrainOne, DrainAll, Die
<1>4. CASE Hit
  <2>1. PICK c \in Takeable(Landed(arrivals), want) : ready' = Landed(arrivals) \ {c} /\ held' = c
    BY <1>4 DEF Hit
  <2>2. c \in Landed(arrivals) /\ key[c] = want
    BY <2>1 DEF Takeable, Matches
  <2> QED BY <1>1, <1>4, <2>1, <2>2 DEF Whereabouts, Hit
<1>5. ASSUME NEW c \in Contexts, InlineDone(c)
      PROVE  /\ held' \notin used /\ held' \in open' /\ key[held'] = want
             /\ task'[held'] = "none" /\ held' \notin ready'
  <2>1. /\ task[c] = "inline" /\ held' = c /\ open' = open \cup {c} /\ ready' = ready
        /\ task' = [task EXCEPT ![c] = "none"]
    BY <1>5 DEF InlineDone, inbox
  <2>2. c \notin used /\ key[c] = want /\ c \notin Landed(arrivals)
    BY <1>1, <2>1 DEF Whereabouts
  <2>3. task'[c] = "none"
    BY <1>1, <2>1 DEF PoolTypeOK
  <2> QED BY <1>2, <2>1, <2>2, <2>3
<1> QED BY <1>3, <1>4, <1>5

(* A test gets a context no other test has had, with its own options, that *)
(* exists, is not being warmed and has left the pool.                      *)
THEOREM HandedOutFresh == PoolSpec => HandsOutFresh
<1>1. PoolInv /\ [PoolNext]_poolVars =>
        [held' \notin {NoContext, held} =>
           /\ held' \notin used
           /\ held' \in open'
           /\ key[held'] = want
           /\ task'[held'] = "none"
           /\ held' \notin ready']_poolVars
  BY HandedOut
<1> QED BY <1>1, PoolInvariance, PTL DEF PoolSpec, HandsOutFresh
================================================================================
