--------------------------- MODULE TestLocksProofs ---------------------------
(***************************************************************************)
(* Proofs about TestLocks for any set of holders and any set of names: the *)
(* type invariant, mutual exclusion, the absence of crossed waits and of   *)
(* deadlock, and the implementation of LockSections.                       *)
(***************************************************************************)
EXTENDS TestLocks, FiniteSetTheorems, WellFoundedInduction, TLAPS

(* A queue position is what a call still wants next: the caller holds only *)
(* smaller names, waits in one queue and stands in it once.                *)
Queued(h, n) ==
  \A i \in 1..Len(waiters[n]) : waiters[n][i] = h =>
    /\ phase[h] = "acquiring"
    /\ IsNext(h, n)

StandsOnce(n) ==
  \A i, j \in 1..Len(waiters[n]) : waiters[n][i] = waiters[n][j] => i = j

HeldBelowWanted(h) ==
  \A n \in held[h], m \in wanted[h] : n < m

IInv ==
  /\ TypeOK
  /\ MutualExclusion
  /\ \A h \in Holders : HeldBelowWanted(h)
  /\ \A h \in Holders, n \in Names : Queued(h, n)
  /\ \A n \in Names : StandsOnce(n)

(* The inductive invariant holds initially. *)
LEMMA InitInv == Init => IInv
  BY DEF Init, IInv, TypeOK, MutualExclusion, HeldBelowWanted, Queued, StandsOnce

(* Each action keeps it: one lemma per action.                             *)
LEMMA BeginInv ==
  ASSUME NEW h \in Holders, NEW names \in SUBSET Names, IInv, Begin(h, names)
  PROVE  IInv'
<1> USE NamesAssumption DEF IInv, Begin
<1>1. TypeOK'
  BY DEF TypeOK
<1>2. MutualExclusion'
  BY DEF MutualExclusion
<1>3. \A g \in Holders : HeldBelowWanted(g)'
  BY DEF HeldBelowWanted, TypeOK
<1>4. \A g \in Holders, n \in Names : Queued(g, n)'
  <2> SUFFICES ASSUME NEW g \in Holders, NEW n \in Names PROVE Queued(g, n)'
    OBVIOUS
  <2>1. Queued(g, n)
    OBVIOUS
  <2> QED BY <2>1 DEF Queued, TypeOK, IsNext
<1>5. \A n \in Names : StandsOnce(n)'
  BY DEF StandsOnce
<1> QED BY <1>1, <1>2, <1>3, <1>4, <1>5

LEMMA LockInv ==
  ASSUME NEW h \in Holders, NEW n \in Names, IInv, Lock(h, n)
  PROVE  IInv'
<1> USE NamesAssumption DEF IInv, Lock, Own
<1>1. TypeOK'
  BY DEF TypeOK, IsNext
<1>2. MutualExclusion'
  BY DEF MutualExclusion, Free, TypeOK
<1>3. \A g \in Holders : HeldBelowWanted(g)'
  BY DEF HeldBelowWanted, TypeOK, IsNext
<1>4. \A g \in Holders, m \in Names : Queued(g, m)'
  <2> SUFFICES ASSUME NEW g \in Holders, NEW m \in Names PROVE Queued(g, m)'
    OBVIOUS
  <2>1. Queued(g, m)
    OBVIOUS
  <2>2. CASE g # h
    BY <2>1, <2>2 DEF Queued, TypeOK, IsNext
  <2>3. CASE g = h
    BY <2>1, <2>3 DEF Queued, TypeOK, IsNext
  <2> QED BY <2>2, <2>3
<1>5. \A m \in Names : StandsOnce(m)'
  BY DEF StandsOnce
<1> QED BY <1>1, <1>2, <1>3, <1>4, <1>5

LEMMA ParkInv ==
  ASSUME NEW h \in Holders, NEW n \in Names, IInv, Park(h, n)
  PROVE  IInv'
<1> USE NamesAssumption DEF IInv, Park
<1>1. TypeOK'
  BY DEF TypeOK
<1>2. MutualExclusion'
  BY DEF MutualExclusion
<1>3. \A g \in Holders : HeldBelowWanted(g)'
  BY DEF HeldBelowWanted
<1>4. \A g \in Holders, m \in Names : Queued(g, m)'
  <2> SUFFICES ASSUME NEW g \in Holders, NEW m \in Names PROVE Queued(g, m)'
    OBVIOUS
  <2>1. Queued(g, m)
    OBVIOUS
  <2> QED BY <2>1 DEF Queued, TypeOK, IsNext
<1>5. \A m \in Names : StandsOnce(m)'
  <2> SUFFICES ASSUME NEW m \in Names PROVE StandsOnce(m)'
    OBVIOUS
  <2>1. StandsOnce(m) /\ ~Parked(h, n)
    BY DEF IsNext
  <2> QED BY <2>1 DEF StandsOnce, Parked, TypeOK
<1> QED BY <1>1, <1>2, <1>3, <1>4, <1>5

LEMMA GrantInv ==
  ASSUME NEW n \in Names, IInv, Grant(n)
  PROVE  IInv'
<1> DEFINE h == Head(waiters[n])
<1> USE NamesAssumption DEF IInv, Grant
<1>1. /\ waiters[n] \in Seq(Holders)
      /\ h = waiters[n][1]
      /\ 1 \in 1..Len(waiters[n])
      /\ h \in Holders
  BY DEF TypeOK
<1>2. phase[h] = "acquiring" /\ IsNext(h, n)
  BY <1>1 DEF Queued
<1>3. /\ held' = [held EXCEPT ![h] = @ \cup {n}]
      /\ wanted' = [wanted EXCEPT ![h] = @ \ {n}]
  BY DEF Own
<1>4. \A m \in Names : /\ m # n => waiters'[m] = waiters[m]
                       /\ m = n => waiters'[m] = Tail(waiters[n])
  BY DEF TypeOK
<1>5. TypeOK'
  BY <1>1, <1>2, <1>3 DEF TypeOK, IsNext
<1>6. MutualExclusion'
  BY <1>1, <1>3 DEF MutualExclusion, Free, TypeOK
<1>7. \A g \in Holders : HeldBelowWanted(g)'
  BY <1>1, <1>2, <1>3 DEF HeldBelowWanted, TypeOK, IsNext
<1>8. \A g \in Holders, m \in Names : Queued(g, m)'
  <2> SUFFICES ASSUME NEW g \in Holders, NEW m \in Names,
                      NEW i \in 1..Len(waiters'[m]), waiters'[m][i] = g
               PROVE  phase'[g] = "acquiring" /\ IsNext(g, m)'
    BY DEF Queued
  <2>1. CASE m # n
    <3>1. i \in 1..Len(waiters[m]) /\ waiters[m][i] = g
      BY <1>4, <2>1
    <3>2. phase[g] = "acquiring" /\ IsNext(g, m)
      BY <3>1 DEF Queued
    <3>3. g # h
      BY <3>2, <1>2, <2>1 DEF IsNext
    <3> QED BY <3>2, <3>3, <1>3 DEF IsNext, TypeOK
  <2>2. CASE m = n
    <3>1. i + 1 \in 1..Len(waiters[n]) /\ waiters[n][i + 1] = g
      <4>1. i \in 1..Len(Tail(waiters[n])) /\ Tail(waiters[n])[i] = g
        BY <1>4, <2>2
      <4> QED BY <1>1, <4>1
    <3>2. phase[g] = "acquiring" /\ IsNext(g, n)
      BY <3>1 DEF Queued
    <3>3. g # h
      BY <3>1, <1>1 DEF StandsOnce
    <3> QED BY <3>2, <3>3, <1>3, <2>2 DEF IsNext, TypeOK
  <2> QED BY <2>1, <2>2
<1>9. \A m \in Names : StandsOnce(m)'
  <2> SUFFICES ASSUME NEW m \in Names PROVE StandsOnce(m)'
    OBVIOUS
  <2>1. CASE m # n
    BY <1>4, <2>1 DEF StandsOnce
  <2>2. CASE m = n
    BY <1>1, <1>4, <2>2 DEF StandsOnce
  <2> QED BY <2>1, <2>2
<1> QED BY <1>5, <1>6, <1>7, <1>8, <1>9

LEMMA ReturnInv ==
  ASSUME NEW h \in Holders, IInv, Return(h)
  PROVE  IInv'
<1> USE DEF IInv, Return
<1>1. TypeOK'
  BY DEF TypeOK
<1>2. MutualExclusion' /\ \A g \in Holders : HeldBelowWanted(g)'
  BY DEF MutualExclusion, HeldBelowWanted
<1>3. \A g \in Holders, m \in Names : Queued(g, m)'
  BY DEF Queued, TypeOK, IsNext
<1>4. \A m \in Names : StandsOnce(m)'
  BY DEF StandsOnce
<1> QED BY <1>1, <1>2, <1>3, <1>4

LEMMA ReleaseInv ==
  ASSUME NEW h \in Holders, IInv, Release(h)
  PROVE  IInv'
<1> USE DEF IInv, Release
<1>1. TypeOK'
  BY DEF TypeOK
<1>2. MutualExclusion' /\ \A g \in Holders : HeldBelowWanted(g)'
  BY DEF MutualExclusion, HeldBelowWanted, TypeOK
<1>3. \A g \in Holders, m \in Names : Queued(g, m)'
  BY DEF Queued, TypeOK, IsNext
<1>4. \A m \in Names : StandsOnce(m)'
  BY DEF StandsOnce
<1> QED BY <1>1, <1>2, <1>3, <1>4

(* Every step keeps the inductive invariant. *)
LEMMA NextInv == IInv /\ [Next]_lockVars => IInv'
<1> SUFFICES ASSUME IInv, [Next]_lockVars PROVE IInv'
  OBVIOUS
<1>1. CASE UNCHANGED lockVars
  BY <1>1 DEF lockVars, IInv, TypeOK, MutualExclusion, HeldBelowWanted, Queued, StandsOnce, IsNext
<1>2. CASE Next
  BY <1>2, BeginInv, LockInv, ParkInv, GrantInv, ReturnInv, ReleaseInv DEF Next
<1> QED BY <1>1, <1>2

(* The strengthening carries AscendingWaits: a parked holder wants the     *)
(* name it is parked for, and holds only smaller ones.                     *)
LEMMA InvAscends == IInv => AscendingWaits
<1> SUFFICES ASSUME IInv,
                    NEW g \in Holders, NEW h \in Holders, NEW n \in Names, NEW m \in Names,
                    Parked(g, n), n \in held[h], Parked(h, m)
             PROVE  n < m
  BY DEF AscendingWaits
<1>1. m \in wanted[h]
  BY DEF IInv, Queued, Parked, IsNext
<1> QED BY <1>1 DEF IInv, HeldBelowWanted

(* acquire() keeps its state well typed, and a holder that is not inside   *)
(* acquire() or a Held value owns no guard.                                *)
THEOREM TypeCorrect == Spec => []TypeOK
<1>1. IInv => TypeOK
  BY DEF IInv
<1> QED BY InitInv, NextInv, <1>1, PTL DEF Spec

(* No two holders own the guard of one name, for any number of workers and *)
(* any set of lock names.                                                  *)
THEOREM Exclusive == Spec => []MutualExclusion
<1>1. IInv => MutualExclusion
  BY DEF IInv
<1> QED BY InitInv, NextInv, <1>1, PTL DEF Spec

(* The sorted acquisition order admits no crossed waits.                   *)
THEOREM WaitsAscend == Spec => []AscendingWaits
BY InitInv, NextInv, InvAscends, PTL DEF Spec

(* A set of natural numbers has a least one.                               *)
LEMMA LeastNat ==
  ASSUME NEW S \in SUBSET Nat, S # {}
  PROVE  \E x \in S : \A y \in S : ~(y < x)
<1>1. PICK x \in S : \A y \in S : <<y, x>> \notin OpToRel(<, Nat)
  BY NatLessThanWellFounded, WFMin
<1> QED BY <1>1 DEF OpToRel

(* If finitely many holders were all stuck, each parked one would wait for *)
(* one that is parked on a later name, and so has fewer parked beyond it;  *)
(* but some holder has the fewest.                                         *)
LEMMA NoneStuck ==
  ASSUME IInv, IsFiniteSet(Holders)
  PROVE  NoCircleOfWaits
<1> SUFFICES ASSUME NEW a \in Holders, phase[a] = "acquiring",
                    \A h \in Holders : phase[h] # "holding" /\ ~Unparked(h),
                    \A n \in Names : waiters[n] = <<>> \/ ~Free(n)
             PROVE  FALSE
  BY DEF NoCircleOfWaits
<1> DEFINE stuck == {h \in Holders : \E n \in Names : Parked(h, n)}
           beyond(h) == {g \in Holders : \E n, m \in Names : Parked(h, n) /\ Parked(g, m) /\ n < m}
           counts == {Cardinality(beyond(h)) : h \in stuck}
<1>1. a \in stuck
  BY DEF Unparked
<1>2. ASSUME NEW h \in stuck PROVE \E k \in stuck : beyond(k) # beyond(h) /\ beyond(k) \subseteq beyond(h)
  <2>1. PICK n \in Names : Parked(h, n)
    OBVIOUS
  <2>2. PICK k \in Holders : n \in held[k]
    <3>1. waiters[n] # <<>>
      BY <2>1 DEF Parked
    <3> QED BY <3>1 DEF Free
  <2>3. phase[k] = "acquiring"
    BY <2>2 DEF IInv, TypeOK
  <2>4. k \in stuck
    BY <2>3 DEF Unparked
  <2>5. \A m \in Names : Parked(k, m) => n < m
    BY <2>1, <2>2, InvAscends DEF AscendingWaits
  <2>6. \A g \in Holders : \A m, l \in Names : Parked(g, m) /\ Parked(g, l) => m = l
    BY NamesAssumption DEF IInv, Queued, Parked, IsNext
  <2>7. k \in beyond(h)
    BY <2>1, <2>4, <2>5
  <2>8. k \notin beyond(k)
    BY <2>6, NamesAssumption
  <2>9. beyond(k) \subseteq beyond(h)
    <3> SUFFICES ASSUME NEW g \in Holders, NEW m \in Names, NEW l \in Names,
                        Parked(k, m), Parked(g, l), m < l
                 PROVE  n < l
      BY <2>1
    <3> QED BY <2>5, NamesAssumption
  <2> QED BY <2>4, <2>7, <2>8, <2>9
<1>3. ASSUME NEW h \in Holders PROVE IsFiniteSet(beyond(h)) /\ Cardinality(beyond(h)) \in Nat
  <2>1. beyond(h) \in SUBSET Holders
    OBVIOUS
  <2> QED BY <2>1, FS_Subset, FS_CardinalityType
<1>4. PICK h \in stuck : \A k \in stuck : ~(Cardinality(beyond(k)) < Cardinality(beyond(h)))
  <2>1. counts \in SUBSET Nat /\ counts # {}
    BY <1>1, <1>3
  <2>2. PICK c \in counts : \A d \in counts : ~(d < c)
    <3> HIDE DEF counts
    <3> QED BY <2>1, LeastNat
  <2> QED BY <2>2
<1>5. PICK k \in stuck : beyond(k) # beyond(h) /\ beyond(k) \subseteq beyond(h)
  BY <1>2
<1>6. Cardinality(beyond(k)) < Cardinality(beyond(h))
  <2>1. h \in Holders /\ k \in Holders
    OBVIOUS
  <2> HIDE DEF beyond, stuck
  <2>2. beyond(k) \in SUBSET beyond(h)
    BY <1>5
  <2>3. /\ Cardinality(beyond(k)) <= Cardinality(beyond(h))
        /\ Cardinality(beyond(k)) # Cardinality(beyond(h))
    BY <1>3, <1>5, <2>1, <2>2, FS_Subset
  <2>4. Cardinality(beyond(k)) \in Nat /\ Cardinality(beyond(h)) \in Nat
    BY <1>3, <2>1
  <2> QED BY <2>3, <2>4
<1> QED BY <1>4, <1>6

(* Finitely many holders never wait for each other in a circle, or for     *)
(* somebody who went away.                                                 *)
THEOREM NoDeadlock ==
  ASSUME IsFiniteSet(Holders) PROVE Spec => []NoCircleOfWaits
<1>1. Spec => []IInv
  BY InitInv, NextInv, PTL DEF Spec
<1>2. IInv => NoCircleOfWaits
  BY NoneStuck
<1> QED BY <1>1, <1>2, PTL

-----------------------------------------------------------------------------
(* The initial state of the locks is an initial state of the promise. *)
LEMMA InitImplements == Init => Sections!Init
  BY DEF Init, Sections!Init

(* Every step of the locks is a step of the promise, or changes nothing of *)
(* it: only Begin, Return and Release show.                                *)
LEMMA StepImplements ==
  IInv /\ [Next]_lockVars => [Sections!Next]_<<phase, [h \in Holders |-> wanted[h] \cup held[h]]>>
<1> DEFINE asked == [h \in Holders |-> wanted[h] \cup held[h]]
<1> SUFFICES ASSUME IInv, [Next]_lockVars
             PROVE  [Sections!Next]_<<phase, asked>>
  OBVIOUS
<1> USE DEF IInv, TypeOK
<1>1. ASSUME NEW h \in Holders, NEW names \in SUBSET Names, Begin(h, names)
      PROVE  Sections!Ask(h, names)
  BY <1>1 DEF Begin, Sections!Ask
<1>2. ASSUME NEW h \in Holders, NEW n \in Names, Lock(h, n)
      PROVE  UNCHANGED <<phase, asked>>
  BY <1>2 DEF Lock, Own, IsNext
<1>3. ASSUME NEW h \in Holders, NEW n \in Names, Park(h, n)
      PROVE  UNCHANGED <<phase, asked>>
  BY <1>3 DEF Park
<1>4. ASSUME NEW n \in Names, Grant(n)
      PROVE  UNCHANGED <<phase, asked>>
  <2> DEFINE h == Head(waiters[n])
  <2>1. h \in Holders /\ n \in wanted[h]
    <3>1. 1 \in 1..Len(waiters[n]) /\ h = waiters[n][1] /\ h \in Holders
      BY <1>4 DEF Grant
    <3> QED BY <3>1 DEF Queued, IsNext
  <2>2. \A g \in Holders : wanted'[g] \cup held'[g] = wanted[g] \cup held[g]
    BY <1>4, <2>1 DEF Grant, Own
  <2> QED BY <1>4, <2>2 DEF Grant
<1>5. ASSUME NEW h \in Holders, Return(h)
      PROVE  Sections!Enter(h)
  <2>1. \A g \in Holders : phase[g] = "holding" => asked[g] \cap asked[h] = {}
    BY <1>5 DEF Return, MutualExclusion
  <2> QED BY <1>5, <2>1 DEF Return, Sections!Enter
<1>6. ASSUME NEW h \in Holders, Release(h)
      PROVE  Sections!Leave(h)
  BY <1>6 DEF Release, Sections!Leave
<1>7. CASE UNCHANGED lockVars
  BY <1>7 DEF lockVars
<1>8. CASE Next
  BY <1>8, <1>1, <1>2, <1>3, <1>4, <1>5, <1>6 DEF Next, Sections!Next
<1> QED BY <1>7, <1>8

(* Taking the names one at a time, in order, implements entering with all  *)
(* of them at once.                                                        *)
THEOREM Implements == Spec => ImplementsSections
BY InitInv, NextInv, InitImplements, StepImplements, PTL DEF Spec, ImplementsSections, Sections!Spec
=============================================================================
