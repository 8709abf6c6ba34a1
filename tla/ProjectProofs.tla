---------------------------- MODULE ProjectProofs ----------------------------
(***************************************************************************)
(* Proofs about ProjectScheduler for any number of projects, any           *)
(* configuration, any worker count and any cap: the types, the worker      *)
(* budget, dependencies before their dependents, teardowns after the       *)
(* project that declares them, what exit status 0 says and that, when the  *)
(* scheduler is done, nobody is left out.                                  *)
(*                                                                         *)
(* The parts, in order: filters and sorted lists; the topological sort;    *)
(* types and budget; what was launched; what exit status 0 accounts for.   *)
(***************************************************************************)
EXTENDS ProjectScheduler, SequenceTheorems, FiniteSetTheorems, TLAPS

(* An element of a finite set of integers for every rank: counting the     *)
(* elements below maps the set one to one into the ranks, hence onto them. *)
LEMMA Ranked ==
  ASSUME NEW set, set \subseteq Int, IsFiniteSet(set), NEW i \in 1..Cardinality(set)
  PROVE  \E x \in set : Cardinality({y \in set : y < x}) = i - 1
<1> DEFINE Below(x) == {y \in set : y < x}
           f == [x \in set |-> Cardinality(Below(x)) + 1]
           n == Cardinality(set)
<1>1. n \in Nat
  BY FS_CardinalityType
<1>2. ASSUME NEW x \in set PROVE IsFiniteSet(Below(x)) /\ Cardinality(Below(x)) \in 0..(n - 1)
  <2>1. IsFiniteSet(set \ {x}) /\ Cardinality(set \ {x}) = n - 1
    BY FS_RemoveElement
  <2>2. Below(x) \subseteq set \ {x}
    BY <1>2
  <2>3. IsFiniteSet(Below(x)) /\ Cardinality(Below(x)) <= n - 1
    BY <2>1, <2>2, FS_Subset
  <2> QED BY <2>3, <1>1, FS_CardinalityType
<1>3. ASSUME NEW x \in set, NEW z \in set, x < z PROVE f[x] < f[z]
  <2>1. IsFiniteSet(Below(x) \cup {x}) /\ Cardinality(Below(x) \cup {x}) = Cardinality(Below(x)) + 1
    <3>1. x \notin Below(x)
      OBVIOUS
    <3> QED BY <3>1, <1>2, FS_AddElement
  <2>2. Below(x) \cup {x} \subseteq Below(z)
    <3> SUFFICES ASSUME NEW y \in set, y < x \/ y = x PROVE y < z
      OBVIOUS
    <3> QED BY <1>3
  <2>3. Cardinality(Below(x)) + 1 <= Cardinality(Below(z))
    BY <2>1, <2>2, <1>2, FS_Subset
  <2>4. Cardinality(Below(x)) \in Nat /\ Cardinality(Below(z)) \in Nat
    BY <1>1, <1>2
  <2> HIDE DEF Below
  <2> QED BY <2>3, <2>4
<1>4. f \in Injection(set, 1..n)
  <2>1. f \in [set -> 1..n]
    BY <1>1, <1>2
  <2>2. \A x, z \in set : f[x] = f[z] => x = z
    <3> SUFFICES ASSUME NEW x \in set, NEW z \in set, x # z PROVE f[x] # f[z]
      OBVIOUS
    <3>1. f[x] \in Nat /\ f[z] \in Nat /\ x \in Int /\ z \in Int
      BY <2>1, <1>1
    <3>2. CASE x < z BY <3>2, <3>1, <1>3
    <3>3. CASE z < x BY <3>3, <3>1, <1>3
    <3> QED BY <3>1, <3>2, <3>3
  <2> HIDE DEF f
  <2> QED BY <2>1, <2>2 DEF Injection, IsInjective
<1>5. IsFiniteSet(1..n) /\ Cardinality(1..n) = n
  BY <1>1, FS_Interval
<1>6. f \in Surjection(set, 1..n)
  BY <1>4, <1>5, FS_Injection
<1>7. PICK x \in set : f[x] = i
  BY <1>6 DEF Surjection
<1>8. Cardinality(Below(x)) \in Nat
  BY <1>1, <1>2
<1>9. Cardinality(Below(x)) + 1 = i
  BY <1>7
<1>10. Cardinality(Below(x)) = i - 1
  <2> HIDE DEF Below
  <2> QED BY <1>8, <1>9
<1> QED BY <1>10

(* InOrder lists each element of the set once.                             *)
LEMMA InOrderIs ==
  ASSUME NEW T, NEW set \in SUBSET T, set \subseteq Int, IsFiniteSet(set)
  PROVE  /\ InOrder(set) \in Seq(T) /\ DOMAIN InOrder(set) = 1..Cardinality(set)
         /\ Range(InOrder(set)) = set
         /\ \A i, j \in DOMAIN InOrder(set) : InOrder(set)[i] = InOrder(set)[j] => i = j
<1> DEFINE s == InOrder(set)
           n == Cardinality(set)
           Below(x) == {y \in set : y < x}
<1>1. n \in Nat /\ IsFiniteSet(1..n) /\ Cardinality(1..n) = n
  BY FS_CardinalityType, FS_Interval
<1>2. DOMAIN s = 1..n /\ \A i \in 1..n : s[i] = CHOOSE x \in set : Cardinality(Below(x)) = i - 1
  BY DEF InOrder
<1>3. \A i \in 1..n : s[i] \in set /\ Cardinality(Below(s[i])) = i - 1
  <2> SUFFICES ASSUME NEW i \in 1..n PROVE s[i] \in set /\ Cardinality(Below(s[i])) = i - 1
    OBVIOUS
  <2>1. \E x \in set : Cardinality(Below(x)) = i - 1
    BY Ranked
  <2> HIDE DEF Below
  <2> QED BY <2>1, <1>2
<1>4. \A i, j \in 1..n : s[i] = s[j] => i = j
  <2> HIDE DEF Below
  <2> QED BY <1>3, <1>1
<1>5. s \in [1..n -> set]
  <2>1. s = [i \in 1..n |-> s[i]]
    <3>1. s = [i \in 1..n |-> CHOOSE x \in set : Cardinality(Below(x)) = i - 1]
      BY DEF InOrder
    <3> HIDE DEF s, Below
    <3> QED BY <3>1
  <2> HIDE DEF s
  <2> QED BY <2>1, <1>3
<1>6. s \in Seq(T)
  <2> HIDE DEF s
  <2>1. s \in [1..n -> T]
    BY <1>5
  <2> QED BY <1>1, <2>1
<1>7. s \in Injection(1..n, set)
  <2> HIDE DEF s, n
  <2> QED BY <1>4, <1>5 DEF Injection, IsInjective
<1>8. s \in Surjection(1..n, set)
  BY <1>1, <1>7, FS_Injection
<1>9. Range(s) = set
  BY <1>2, <1>8, <1>5 DEF Range, Surjection
<1> QED BY <1>2, <1>4, <1>6, <1>9

(* A filter keeps what is in the set and nothing else.                     *)
LEMMA OnlyIs ==
  ASSUME NEW T, NEW s \in Seq(T), NEW set
  PROVE  Only(s, set) \in Seq(T) /\ Range(Only(s, set)) = Range(s) \cap set
<1> DEFINE at == {i \in DOMAIN s : s[i] \in set}
           kept == InOrder(at)
<1>1. DOMAIN s = 1..Len(s) /\ Len(s) \in Nat
  OBVIOUS
<1>2. at \subseteq Int /\ IsFiniteSet(at)
  <2>1. IsFiniteSet(1..Len(s))
    BY <1>1, FS_Interval
  <2>2. at \in SUBSET (1..Len(s))
    BY <1>1
  <2> QED BY <2>1, <2>2, FS_Subset
<1>3. kept \in Seq(at) /\ Range(kept) = at
  BY <1>2, InOrderIs
<1>4. Only(s, set) = [i \in DOMAIN kept |-> s[kept[i]]]
  BY DEF Only
<1>5. DOMAIN kept = 1..Len(kept) /\ Len(kept) \in Nat /\ \A i \in DOMAIN kept : kept[i] \in at
  <2> HIDE DEF kept, at
  <2> QED BY <1>3
<1>6. \A i \in DOMAIN kept : s[kept[i]] \in T
  <2> HIDE DEF kept
  <2> QED BY <1>5
<1>7. Only(s, set) \in Seq(T)
  <2> HIDE DEF kept, at
  <2> QED BY <1>4, <1>5, <1>6
<1>8. Range(Only(s, set)) = Range(s) \cap set
  <2> HIDE DEF kept
  <2>1. \A x : x \in Range(Only(s, set)) <=> \E i \in DOMAIN kept : x = s[kept[i]]
    BY <1>4 DEF Range
  <2>2. \A i \in at : \E j \in DOMAIN kept : i = kept[j]
    BY <1>3 DEF Range
  <2>3. \A i \in DOMAIN kept : kept[i] \in DOMAIN s /\ s[kept[i]] \in set
    BY <1>5
  <2>4. Range(s) = {s[i] : i \in DOMAIN s}
    BY DEF Range
  <2>5. Range(Only(s, set)) \subseteq Range(s) \cap set
    BY <2>1, <2>3, <2>4
  <2>6. Range(s) \cap set \subseteq Range(Only(s, set))
    <3> SUFFICES ASSUME NEW i \in DOMAIN s, s[i] \in set PROVE s[i] \in Range(Only(s, set))
      BY <2>4
    <3>1. i \in at
      OBVIOUS
    <3> QED BY <3>1, <2>1, <2>2
  <2> QED BY <2>5, <2>6
<1> QED BY <1>7, <1>8

(* A finite set of integers has a least element: the one of rank 0.        *)
LEMMA HasLeast ==
  ASSUME NEW set, set \subseteq Int, IsFiniteSet(set), set # {}
  PROVE  \E x \in set : \A y \in set : ~(y < x)
<1>1. 1 \in 1..Cardinality(set)
  BY FS_CardinalityType, FS_EmptySet
<1>2. PICK x \in set : Cardinality({y \in set : y < x}) = 1 - 1
  BY <1>1, Ranked
<1>3. {y \in set : y < x} \in SUBSET set
  OBVIOUS
<1>4. {y \in set : y < x} = {}
  <2> DEFINE below == {y \in set : y < x}
  <2>1. IsFiniteSet(below)
    BY <1>3, FS_Subset
  <2>2. Cardinality(below) = 0
    BY <1>2
  <2> HIDE DEF below
  <2>3. below = {}
    BY <2>1, <2>2, FS_EmptySet
  <2> QED BY <2>3 DEF below
<1> QED BY <1>4

(* A share rounded up is at least one and at most the whole.               *)
LEMMA Budgeted ==
  ASSUME NEW a \in Nat, a > 0, NEW b \in Nat, b > 0
  PROVE  DivCeil(a, b) \in 1..a
<1> DEFINE q == (a + b - 1) \div b
<1>1. q \in Int /\ b * q <= a + b - 1 /\ a + b - 1 < b * (q + 1)
  OBVIOUS
<1> HIDE DEF q
<1>2. q <= a
  <2> SUFFICES ASSUME q >= a + 1 PROVE FALSE
    BY <1>1
  <2>1. b * q >= b * (a + 1)
    BY <1>1
  <2>2. b * (a + 1) = b * a + b /\ b * a >= a
    OBVIOUS
  <2> QED BY <2>1, <2>2, <1>1
<1>3. q >= 1
  <2> SUFFICES ASSUME q + 1 <= 1 PROVE FALSE
    BY <1>1
  <2>1. b * (q + 1) <= b
    BY <1>1
  <2> QED BY <2>1, <1>1
<1> QED BY <1>1, <1>2, <1>3 DEF DivCeil, q

-----------------------------------------------------------------------------
(* A new element appended keeps a list free of repetitions.                *)
LEMMA Appended ==
  ASSUME NEW T, NEW s \in Seq(T), NEW x \in T, IsInjective(s), x \notin Range(s)
  PROVE  /\ IsInjective(Append(s, x))
         /\ Range(Append(s, x)) = Range(s) \cup {x}
<1>1. /\ Append(s, x) \in Seq(T) /\ DOMAIN Append(s, x) = 1..(Len(s) + 1) /\ Len(s) \in Nat
      /\ DOMAIN s = 1..Len(s) /\ Append(s, x)[Len(s) + 1] = x
      /\ \A i \in 1..Len(s) : Append(s, x)[i] = s[i]
  OBVIOUS
<1>2. IsInjective(Append(s, x))
  BY <1>1 DEF IsInjective, Range
<1>3. Range(Append(s, x)) = Range(s) \cup {x}
  BY <1>1 DEF Range
<1> QED BY <1>2, <1>3

(* Taking the head off a list free of repetitions takes it out.            *)
LEMMA Tailed ==
  ASSUME NEW T, NEW s \in Seq(T), s # <<>>, IsInjective(s)
  PROVE  /\ IsInjective(Tail(s)) /\ Head(s) \in Range(s)
         /\ Range(Tail(s)) = Range(s) \ {Head(s)}
<1>1. /\ Len(s) \in Nat \ {0} /\ DOMAIN s = 1..Len(s) /\ Head(s) = s[1]
      /\ Tail(s) \in Seq(T) /\ DOMAIN Tail(s) = 1..(Len(s) - 1)
      /\ \A i \in 1..(Len(s) - 1) : Tail(s)[i] = s[i + 1]
  BY HeadTailProperties, EmptySeq
<1>2. IsInjective(Tail(s))
  BY <1>1 DEF IsInjective
<1>3. \A i \in DOMAIN s : i # 1 => i - 1 \in DOMAIN Tail(s) /\ Tail(s)[i - 1] = s[i]
  <2> SUFFICES ASSUME NEW i \in DOMAIN s, i # 1
               PROVE  i - 1 \in DOMAIN Tail(s) /\ Tail(s)[i - 1] = s[i]
    OBVIOUS
  <2>1. i - 1 \in 1..(Len(s) - 1) /\ (i - 1) + 1 = i
    BY <1>1
  <2>2. Tail(s)[i - 1] = s[(i - 1) + 1]
    BY <2>1, <1>1
  <2> QED BY <2>1, <2>2, <1>1
<1>4. Range(s) \ {Head(s)} \subseteq Range(Tail(s))
  <2> SUFFICES ASSUME NEW i \in DOMAIN s, s[i] # s[1] PROVE s[i] \in Range(Tail(s))
    BY <1>1 DEF Range
  <2>1. i - 1 \in DOMAIN Tail(s) /\ Tail(s)[i - 1] = s[i]
    BY <1>3
  <2> QED BY <2>1 DEF Range
<1>5. Range(Tail(s)) \subseteq Range(s) \ {Head(s)}
  BY <1>1 DEF Range, IsInjective
<1>6. 1 \in DOMAIN s /\ Head(s) \in Range(s)
  BY <1>1 DEF Range
<1> QED BY <1>2, <1>4, <1>5, <1>6

(* Two lists without common elements joined.                               *)
LEMMA Joined ==
  ASSUME NEW T, NEW s \in Seq(T), NEW r \in Seq(T)
  PROVE  /\ Range(s \o r) = Range(s) \cup Range(r)
         /\ IsInjective(s) /\ IsInjective(r) /\ Range(s) \cap Range(r) = {} => IsInjective(s \o r)
<1>1. /\ DOMAIN s = 1..Len(s) /\ DOMAIN r = 1..Len(r) /\ Len(s) \in Nat /\ Len(r) \in Nat
      /\ DOMAIN (s \o r) = 1..(Len(s) + Len(r))
      /\ \A i \in 1..Len(s) : i \in DOMAIN (s \o r) /\ (s \o r)[i] = s[i]
      /\ \A i \in 1..Len(r) : Len(s) + i \in DOMAIN (s \o r) /\ (s \o r)[Len(s) + i] = r[i]
      /\ \A i \in DOMAIN (s \o r) :
           i \notin 1..Len(s) => i - Len(s) \in 1..Len(r) /\ (s \o r)[i] = r[i - Len(s)]
  <2>1. /\ DOMAIN s = 1..Len(s) /\ DOMAIN r = 1..Len(r) /\ Len(s) \in Nat /\ Len(r) \in Nat
        /\ s \o r \in Seq(T) /\ Len(s \o r) = Len(s) + Len(r)
        /\ \A i \in 1..(Len(s) + Len(r)) :
             (s \o r)[i] = IF i <= Len(s) THEN s[i] ELSE r[i - Len(s)]
    BY ConcatProperties
  <2>2. DOMAIN (s \o r) = 1..(Len(s) + Len(r))
    BY <2>1
  <2>3. \A i \in 1..Len(s) : i \in DOMAIN (s \o r) /\ (s \o r)[i] = s[i]
    BY <2>1, <2>2
  <2>4. ASSUME NEW i \in 1..Len(r)
        PROVE Len(s) + i \in DOMAIN (s \o r) /\ (s \o r)[Len(s) + i] = r[i]
    <3>1. /\ Len(s) + i \in 1..(Len(s) + Len(r))
          /\ ~(Len(s) + i <= Len(s))
          /\ (Len(s) + i) - Len(s) = i
      BY <2>1
    <3> QED BY <3>1, <2>1, <2>2
  <2>5. \A i \in DOMAIN (s \o r) :
          i \notin 1..Len(s) => i - Len(s) \in 1..Len(r) /\ (s \o r)[i] = r[i - Len(s)]
    BY <2>1, <2>2
  <2> QED BY <2>1, <2>2, <2>3, <2>4, <2>5
<1>2. Range(s \o r) \subseteq Range(s) \cup Range(r)
  BY <1>1 DEF Range
<1>3. Range(s) \cup Range(r) \subseteq Range(s \o r)
  BY <1>1 DEF Range
<1>4. ASSUME IsInjective(s), IsInjective(r), Range(s) \cap Range(r) = {} PROVE IsInjective(s \o r)
  <2> DEFINE q == s \o r
  <2> SUFFICES ASSUME NEW i \in DOMAIN q, NEW j \in DOMAIN q, q[i] = q[j] PROVE i = j
    BY DEF IsInjective
  <2>1. CASE i \in 1..Len(s) /\ j \in 1..Len(s)
    BY <2>1, <1>1, <1>4 DEF IsInjective
  <2>2. CASE i \notin 1..Len(s) /\ j \notin 1..Len(s)
    <3>1. i - Len(s) = j - Len(s)
      BY <2>2, <1>1, <1>4 DEF IsInjective
    <3> QED BY <3>1, <1>1
  <2>3. ASSUME NEW k \in DOMAIN q, NEW l \in DOMAIN q, k \in 1..Len(s), l \notin 1..Len(s)
        PROVE q[k] # q[l]
    <3>1. q[k] \in Range(s) /\ q[l] \in Range(r)
      BY <2>3, <1>1 DEF Range
    <3> QED BY <3>1, <1>4
  <2> QED BY <2>1, <2>2, <2>3
<1> QED BY <1>2, <1>3, <1>4

(* Every set of projects is finite.                                        *)
LEMMA Finite ==
  /\ Projects \subseteq Int /\ IsFiniteSet(Projects)
  /\ \A set \in SUBSET Projects : IsFiniteSet(set) /\ set \subseteq Int
<1>1. Projects \subseteq Int /\ IsFiniteSet(Projects)
  BY ProjectsAssumption, FS_Interval DEF Projects
<1> QED BY <1>1, FS_Subset

(* What is known of the sort: a project's degree counts its dependencies   *)
(* that are not in the order; order and queue hold, once each, the         *)
(* projects whose degree is 0; an ordered project has its dependencies     *)
(* before it.                                                              *)
Sorting ==
  /\ \A p \in Projects : sort.degree[p] = Cardinality(graph.deps[p] \ Range(sort.order))
  /\ \A p \in Range(sort.order) \cup Range(sort.ready) : sort.degree[p] = 0
  /\ \A p \in Projects : sort.degree[p] = 0 => p \in Range(sort.order) \cup Range(sort.ready)
  /\ IsInjective(sort.order) /\ IsInjective(sort.ready)
  /\ Range(sort.order) \cap Range(sort.ready) = {}
  /\ \A i \in DOMAIN sort.order :
        graph.deps[sort.order[i]] \subseteq {sort.order[j] : j \in 1..(i - 1)}

(* The sort starts with the projects that have no dependency.              *)
LEMMA StartSorts ==
  ASSUME Init
  PROVE  /\ sort \in [degree : [Projects -> Nat], ready : Seq(Projects), order : Seq(Projects)]
                    /\ Sorting
<1> DEFINE free == {p \in Projects : graph.deps[p] = {}}
<1>1. graph \in Graph /\ graph.deps \in [Projects -> SUBSET Projects]
  BY SchedulerAssumption DEF Init, Graph
<1>2. sort = [degree |-> [p \in Projects |-> Cardinality(graph.deps[p])],
              ready |-> InOrder(free), order |-> <<>>]
  BY DEF Init, KahnStart
<1>3. \A p \in Projects : IsFiniteSet(graph.deps[p]) /\ Cardinality(graph.deps[p]) \in Nat
  BY <1>1, Finite, FS_CardinalityType
<1>4. InOrder(free) \in Seq(Projects) /\ Range(InOrder(free)) = free /\ IsInjective(InOrder(free))
  BY Finite, InOrderIs DEF IsInjective
<1>6. sort.order = <<>> /\ Range(sort.order) = {} /\ sort.ready = InOrder(free)
  BY <1>2 DEF Range
<1>7. \A p \in Projects : sort.degree[p] = Cardinality(graph.deps[p])
  BY <1>2
<1>8. \A p \in free : sort.degree[p] = 0
  BY <1>7, FS_EmptySet
<1>9. sort \in [degree : [Projects -> Nat], ready : Seq(Projects), order : Seq(Projects)]
  <2> HIDE DEF free
  <2> QED BY <1>2, <1>3, <1>4
<1>10. \A p \in Projects : sort.degree[p] = Cardinality(graph.deps[p] \ Range(sort.order))
  <2>1. \A p \in Projects : graph.deps[p] \ Range(sort.order) = graph.deps[p]
    BY <1>6
  <2> QED BY <1>7, <2>1
<1>11. IsInjective(sort.order) /\ DOMAIN sort.order = {}
  BY <1>6 DEF IsInjective
<1>12. \A p \in Projects : sort.degree[p] = 0 => p \in free
  BY <1>3, <1>7, FS_EmptySet
<1> HIDE DEF free
<1> QED BY <1>4, <1>6, <1>8, <1>9, <1>10, <1>11, <1>12 DEF Sorting

(* The head of the queue goes into the order: its dependencies are there   *)
(* already, and the projects it frees were in neither list.                *)
LEMMA NodeSorts ==
  ASSUME TypeOK, Sorting, SortNode
  PROVE  /\ sort' \in [degree : [Projects -> Nat], ready : Seq(Projects), order : Seq(Projects)]
         /\ Sorting'
<1> DEFINE node == Head(sort.ready)
           degree == [p \in Projects |-> sort.degree[p] - (IF node \in graph.deps[p] THEN 1 ELSE 0)]
           freed == {p \in Projects : node \in graph.deps[p] /\ degree[p] = 0}
           left == Tail(sort.ready)
           fresh == InOrder(freed)
           before == Range(sort.order)
<1>1. /\ graph.deps \in [Projects -> SUBSET Projects] /\ graph' = graph
      /\ sort.degree \in [Projects -> Nat]
      /\ sort.ready \in Seq(Projects) /\ sort.order \in Seq(Projects)
      /\ sort.ready # <<>>
  BY DEF TypeOK, Graph, SortNode
<1>2. sort' = [degree |-> degree, ready |-> left \o fresh, order |-> Append(sort.order, node)]
  BY DEF SortNode, KahnStep
<1>3. /\ left \in Seq(Projects) /\ node \in Projects /\ node \in Range(sort.ready)
      /\ Range(left) = Range(sort.ready) \ {node} /\ IsInjective(left)
  BY <1>1, Tailed, HeadTailProperties DEF Sorting
<1>4. \A p \in Projects : /\ IsFiniteSet(graph.deps[p] \ before)
                          /\ Cardinality(graph.deps[p] \ before) \in Nat
  <2>1. \A p \in Projects : graph.deps[p] \ before \in SUBSET Projects
    BY <1>1
  <2> QED BY <2>1, Finite, FS_CardinalityType
<1>5. node \notin before /\ sort.degree[node] = 0 /\ graph.deps[node] \subseteq before
  <2>1. node \notin before /\ sort.degree[node] = 0
    BY <1>3 DEF Sorting
  <2>2. Cardinality(graph.deps[node] \ before) = 0
    BY <2>1, <1>3 DEF Sorting
  <2>3. graph.deps[node] \ before = {}
    BY <2>2, <1>3, <1>4, FS_EmptySet
  <2> QED BY <2>1, <2>3
<1>6. Range(sort'.order) = before \cup {node} /\ IsInjective(sort'.order)
  BY <1>1, <1>2, <1>3, <1>5, Appended DEF Sorting
<1>7. \A p \in Projects : /\ degree[p] = Cardinality(graph.deps[p] \ (before \cup {node}))
                          /\ degree[p] \in Nat
  <2> SUFFICES ASSUME NEW p \in Projects
               PROVE  /\ degree[p] = Cardinality(graph.deps[p] \ (before \cup {node}))
                      /\ degree[p] \in Nat
    OBVIOUS
  <2>1. sort.degree[p] = Cardinality(graph.deps[p] \ before)
    BY DEF Sorting
  <2>2. graph.deps[p] \ (before \cup {node}) = (graph.deps[p] \ before) \ {node}
    OBVIOUS
  <2>3. /\ IsFiniteSet((graph.deps[p] \ before) \ {node})
        /\ Cardinality((graph.deps[p] \ before) \ {node}) =
             IF node \in graph.deps[p] \ before THEN Cardinality(graph.deps[p] \ before) - 1
             ELSE Cardinality(graph.deps[p] \ before)
    BY <1>4, FS_RemoveElement
  <2>4. Cardinality((graph.deps[p] \ before) \ {node}) \in Nat
    BY <2>3, FS_CardinalityType
  <2>5. degree[p] = Cardinality((graph.deps[p] \ before) \ {node})
    BY <2>1, <2>3, <1>4, <1>5
  <2> QED BY <2>2, <2>4, <2>5
<1>8. \A p \in Projects : node \in graph.deps[p] => sort.degree[p] # 0
  <2> SUFFICES ASSUME NEW p \in Projects, node \in graph.deps[p], sort.degree[p] = 0 PROVE FALSE
    OBVIOUS
  <2>1. Cardinality(graph.deps[p] \ before) = 0
    BY DEF Sorting
  <2>2. graph.deps[p] \ before = {}
    BY <2>1, <1>4, FS_EmptySet
  <2> QED BY <2>2, <1>5
<1>9. freed \cap (before \cup Range(sort.ready)) = {}
  BY <1>8 DEF Sorting
<1>10. fresh \in Seq(Projects) /\ Range(fresh) = freed /\ IsInjective(fresh)
  <2>1. freed \in SUBSET Projects /\ freed \subseteq Int /\ IsFiniteSet(freed)
    BY Finite
  <2> HIDE DEF freed
  <2> QED BY <2>1, InOrderIs DEF IsInjective
<1>11. Range(sort'.ready) = Range(left) \cup freed /\ IsInjective(sort'.ready)
  <2>1. Range(left) \cap Range(fresh) = {}
    BY <1>3, <1>9, <1>10
  <2> HIDE DEF left, fresh, freed
  <2> QED BY <2>1, <1>2, <1>3, <1>10, Joined
<1>12. sort' \in [degree : [Projects -> Nat], ready : Seq(Projects), order : Seq(Projects)]
  <2>1. left \o fresh \in Seq(Projects) /\ Append(sort.order, node) \in Seq(Projects)
    <3> HIDE DEF left, fresh, node
    <3> QED BY <1>1, <1>3, <1>10
  <2>2. degree \in [Projects -> Nat]
    BY <1>7
  <2> HIDE DEF left, fresh, node, degree
  <2> QED BY <2>1, <2>2, <1>2
<1>13. \A p \in Range(sort'.order) \cup Range(sort'.ready) : sort'.degree[p] = 0
  <2>1. \A p \in freed : degree[p] = 0
    OBVIOUS
  <2>2. \A p \in before \cup Range(sort.ready) : p \in Projects
    BY <1>1, RangeOfSeq
  <2>3. \A p \in before \cup Range(sort.ready) : degree[p] = 0
    <3>1. \A p \in before \cup Range(sort.ready) : sort.degree[p] = 0
      BY DEF Sorting
    <3> QED BY <3>1, <2>2, <1>8
  <2> QED BY <2>1, <2>3, <1>2, <1>3, <1>6, <1>11
<1>14. \A i \in DOMAIN sort'.order :
           graph.deps[sort'.order[i]] \subseteq {sort'.order[j] : j \in 1..(i - 1)}
  <2>1. /\ sort'.order = Append(sort.order, node)
        /\ DOMAIN sort'.order = 1..(Len(sort.order) + 1) /\ Len(sort.order) \in Nat
        /\ DOMAIN sort.order = 1..Len(sort.order) /\ sort'.order[Len(sort.order) + 1] = node
        /\ \A i \in 1..Len(sort.order) : sort'.order[i] = sort.order[i]
    <3> HIDE DEF node
    <3> QED BY <1>1, <1>2, <1>3
  <2> SUFFICES ASSUME NEW i \in DOMAIN sort'.order
               PROVE  graph.deps[sort'.order[i]] \subseteq {sort'.order[j] : j \in 1..(i - 1)}
    OBVIOUS
  <2>2. CASE i = Len(sort.order) + 1
    <3>1. \A x \in before : \E j \in 1..Len(sort.order) : x = sort.order[j]
      BY <2>1 DEF Range
    <3>2. \A x \in before : \E j \in 1..(i - 1) : x = sort'.order[j]
      BY <3>1, <2>1, <2>2
    <3> QED BY <3>2, <2>1, <2>2, <1>5
  <2>3. CASE i # Len(sort.order) + 1
    <3>1. i \in DOMAIN sort.order /\ sort'.order[i] = sort.order[i]
      BY <2>1, <2>3
    <3>2. graph.deps[sort.order[i]] \subseteq {sort.order[j] : j \in 1..(i - 1)}
      BY <3>1 DEF Sorting
    <3>3. \A j \in 1..(i - 1) : sort'.order[j] = sort.order[j]
      BY <2>1, <3>1
    <3> QED BY <3>1, <3>2, <3>3
  <2> QED BY <2>2, <2>3
<1>15. Range(sort'.order) \cap Range(sort'.ready) = {}
  BY <1>3, <1>6, <1>9, <1>11 DEF Sorting
<1>16. \A p \in Projects : sort'.degree[p] = Cardinality(graph'.deps[p] \ Range(sort'.order))
  BY <1>1, <1>2, <1>6, <1>7
<1>17. \A p \in Projects : sort'.degree[p] = 0 => p \in Range(sort'.order) \cup Range(sort'.ready)
  <2> SUFFICES ASSUME NEW p \in Projects, degree[p] = 0, p \notin freed
               PROVE  p \in before \cup Range(sort.ready)
    BY <1>2, <1>3, <1>6, <1>11
  <2>1. sort.degree[p] = 0
    BY <1>1
  <2> QED BY <2>1 DEF Sorting
<1> HIDE DEF node, degree, freed, left, fresh, before
<1> QED BY <1>1, <1>6, <1>11, <1>12, <1>13, <1>14, <1>15, <1>16, <1>17 DEF Sorting

(* A sort that ordered every project shows that no set of projects is      *)
(* closed under waiting for a dependency: its first member in the order    *)
(* has its dependencies before it.                                         *)
LEMMA SortedIsOrderly ==
  ASSUME TypeOK, Sorting, Len(sort.order) = N
  PROVE  ~HasCircle(graph.deps)
<1> DEFINE order == sort.order
<1>1. order \in Seq(Projects) /\ DOMAIN order = 1..N /\ order \in [1..N -> Projects]
  BY DEF TypeOK
<1>2. IsFiniteSet(1..N) /\ Cardinality(1..N) = N /\ Projects = 1..N
  BY ProjectsAssumption, FS_Interval DEF Projects
<1>3. order \in Injection(1..N, Projects)
  BY <1>1 DEF Sorting, Injection
<1>4. order \in Surjection(1..N, Projects)
  <2> HIDE DEF order
  <2> QED BY <1>2, <1>3, FS_Injection
<1> SUFFICES ASSUME HasCircle(graph.deps) PROVE FALSE
  OBVIOUS
<1>5. PICK set \in SUBSET Projects : set # {} /\ \A p \in set : graph.deps[p] \cap set # {}
  BY DEF HasCircle
<1> DEFINE at == {i \in 1..N : order[i] \in set}
<1>6. at # {} /\ at \in SUBSET (1..N) /\ at \subseteq Int
  <2>1. PICK p \in set : TRUE
    BY <1>5
  <2>2. PICK i \in 1..N : order[i] = p
    BY <1>4, <1>5, <2>1 DEF Surjection
  <2> QED BY <2>1, <2>2
<1>7. IsFiniteSet(at)
  BY <1>2, <1>6, FS_Subset
<1>8. PICK i \in at : \A j \in at : ~(j < i)
  <2> HIDE DEF at
  <2> QED BY <1>6, <1>7, HasLeast
<1>9. PICK q \in set : q \in graph.deps[order[i]]
  BY <1>5
<1>10. PICK j \in 1..(i - 1) : q = order[j]
  BY <1>1, <1>9 DEF Sorting
<1>11. j \in at /\ j < i
  BY <1>10, <1>9
<1> QED BY <1>8, <1>11

(* A sort that stops short leaves out projects each of which depends on    *)
(* another one it left out.                                                *)
LEMMA LeftOutIsCircle ==
  ASSUME TypeOK, Sorting, sort.ready = <<>>, Len(sort.order) # N
  PROVE  HasCircle(graph.deps)
<1> DEFINE order == sort.order
           out == Projects \ Range(order)
<1>1. /\ order \in Seq(Projects) /\ Len(order) \in Nat /\ order \in [1..Len(order) -> Projects]
      /\ graph.deps \in [Projects -> SUBSET Projects] /\ Range(sort.ready) = {}
  BY DEF TypeOK, Graph, Range
<1>2. out # {}
  <2> SUFFICES ASSUME out = {} PROVE FALSE
    OBVIOUS
  <2>1. order \in Surjection(1..Len(order), Projects)
    BY <1>1 DEF Range, Surjection
  <2>2. order \in Injection(1..Len(order), Projects)
    BY <1>1 DEF Sorting, Injection
  <2>4. IsFiniteSet(1..Len(order)) /\ Cardinality(1..Len(order)) = Len(order)
    BY <1>1, FS_Interval
  <2>5. Cardinality(Projects) = N
    BY ProjectsAssumption, FS_Interval DEF Projects
  <2> HIDE DEF order
  <2>6. Cardinality(1..Len(order)) = Cardinality(Projects)
    BY <2>1, <2>2, <2>4, FS_Surjection
  <2> QED BY <2>4, <2>5, <2>6 DEF order
<1>3. ASSUME NEW p \in out PROVE graph.deps[p] \cap out # {}
  <2>1. Cardinality(graph.deps[p] \ Range(order)) # 0
    BY <1>1, <1>3 DEF Sorting
  <2>2. graph.deps[p] \ Range(order) # {}
    BY <2>1, FS_EmptySet
  <2> QED BY <2>2, <1>1, <1>3
<1> HIDE DEF out
<1>4. out \in SUBSET Projects
  BY DEF out
<1> QED BY <1>2, <1>3, <1>4 DEF HasCircle

-----------------------------------------------------------------------------
(* Only running projects hold slots, between one and as many as they have  *)
(* tests, and together no more than there are.                             *)
Budget ==
  /\ \A p \in Projects : lease[p] # 0 => p \in running
  /\ \A p \in running : lease[p] \in 1..graph.tests[p]
  /\ Cardinality(LentSlots) <= Slots
  /\ pc = "sort" => running = {}

Typed == TypeOK /\ Sorting /\ Budget

(* Numbered slots, or tests, of finitely many projects are finitely many.  *)
LEMMA PairsFinite ==
  ASSUME NEW S, IsFiniteSet(S), NEW f, \A p \in S : f[p] \in Nat
  PROVE  /\ IsFiniteSet(UNION {{p} \X (1..f[p]) : p \in S})
         /\ Cardinality(UNION {{p} \X (1..f[p]) : p \in S}) \in Nat
<1> DEFINE part == [p \in S |-> {p} \X (1..f[p])]
           parts == {{p} \X (1..f[p]) : p \in S}
<1>1. part \in Surjection(S, parts)
  BY DEF Surjection
<1>2. IsFiniteSet(parts)
  <2> HIDE DEF part, parts
  <2> QED BY <1>1, FS_Surjection
<1>3. \A x \in parts : IsFiniteSet(x)
  <2> SUFFICES ASSUME NEW p \in S PROVE IsFiniteSet({p} \X (1..f[p]))
    OBVIOUS
  <2>1. IsFiniteSet({p})
    BY FS_Singleton
  <2>2. IsFiniteSet(1..f[p])
    <3>1. 1 \in Int /\ f[p] \in Int
      OBVIOUS
    <3> QED BY <3>1, FS_Interval
  <2> QED BY <2>1, <2>2, FS_Product
<1>4. IsFiniteSet(UNION parts)
  <2> HIDE DEF parts
  <2> QED BY <1>2, <1>3, FS_UNION
<1> QED BY <1>4, FS_CardinalityType

(* The budget is a positive number, and what is lent of it a number.       *)
LEMMA SlotsAre ==
  ASSUME TypeOK
  PROVE  /\ Slots \in Nat \ {0}
         /\ IsFiniteSet(LentSlots) /\ Cardinality(LentSlots) \in Nat
         /\ Available \in Int
<1>1. \A p \in Projects : lease[p] \in Nat /\ graph.tests[p] \in Nat
  BY DEF TypeOK, Graph
<1>2. Range(scheduled) \subseteq Projects /\ IsFiniteSet(Range(scheduled))
  <2>1. Range(scheduled) \subseteq Projects
    BY RangeOfSeq DEF TypeOK
  <2> QED BY <2>1, Finite
<1>3. Cardinality(AllTests) \in Nat
  BY <1>1, <1>2, PairsFinite DEF AllTests
<1>4. IsFiniteSet(LentSlots) /\ Cardinality(LentSlots) \in Nat
  <2>1. IsFiniteSet(Projects) /\ \A p \in Projects : lease[p] \in Nat
    BY <1>1, Finite
  <2> QED BY <2>1, PairsFinite DEF LentSlots
<1>5. Slots \in Nat \ {0}
  BY <1>3, SchedulerAssumption DEF Slots, Greatest, Least
<1> QED BY <1>4, <1>5 DEF Available

(* What a project is allotted is free, and no more than its tests.         *)
LEMMA Allocated ==
  ASSUME TypeOK, MayLaunch, NEW p \in Projects, graph.tests[p] > 0
  PROVE  Allocation(p) \in 1..graph.tests[p] /\ Allocation(p) <= Available
<1> DEFINE ready == {q \in Range(remaining) \ {p} : graph.tests[q] > 0 /\ IsReady(q)}
           rest == Least(Cardinality(ready) + 1, Cap - Cardinality(InFlight))
<1>1. Available \in Nat /\ Available > 0 /\ graph.tests[p] \in Nat
  BY SlotsAre DEF MayLaunch, TypeOK, Graph
<1>2. Cardinality(ready) \in Nat
  <2>1. Range(remaining) \subseteq Projects
    BY RangeOfSeq DEF TypeOK
  <2>2. ready \in SUBSET Projects
    BY <2>1
  <2> HIDE DEF ready
  <2> QED BY <2>2, Finite, FS_CardinalityType
<1>3. Cardinality(InFlight) \in Nat
  <2>1. InFlight \in SUBSET Projects
    BY DEF TypeOK, InFlight
  <2> QED BY <2>1, Finite, FS_CardinalityType
<1>4. Cap \in Nat
  BY SchedulerAssumption DEF Cap, Greatest, TypeOK
<1>5. rest \in Nat /\ rest > 0
  <2> HIDE DEF ready
  <2> QED BY <1>2, <1>3, <1>4 DEF Least, MayLaunch
<1>6. DivCeil(Available, rest) \in 1..Available
  <2> HIDE DEF rest
  <2> QED BY <1>1, <1>5, Budgeted
<1>7. Allocation(p) = Least(Least(DivCeil(Available, rest), graph.tests[p]), WorkerCount)
  BY DEF Allocation
<1> HIDE DEF rest
<1> QED BY <1>1, <1>6, <1>7, SchedulerAssumption DEF Least

(* Starting p takes p, and only p, off the list of remaining projects.     *)
LEMMA LeftIs ==
  ASSUME TypeOK, NEW p PROVE Left(p) \in Seq(Projects) /\ Range(Left(p)) = Range(remaining) \ {p}
<1>1. Only(remaining, Range(remaining) \ {p}) \in Seq(Projects)
      /\ Range(Only(remaining, Range(remaining) \ {p})) = Range(remaining) \cap (Range(remaining) \ {p})
  BY OnlyIs DEF TypeOK
<1> QED BY <1>1 DEF Left

(* Once a status is not 0, no merge makes it 0 again.                      *)
LEMMA WorstIs ==
  ASSUME NEW a \in ExitCode, NEW b \in ExitCode
  PROVE  Worst(a, b) \in ExitCode /\ (Worst(a, b) = "Passed" => a = "Passed" /\ b = "Passed")
BY DEF ExitCode, Worst, ExitRank

(* What is scheduled is a list of projects.                                *)
LEMMA ScheduledIs ==
  ASSUME TypeOK PROVE Scheduled(graph, sort.order) \in Seq(Projects)
<1> DEFINE sorted == Only(sort.order, Closure(graph))
<1>1. sorted \in Seq(Projects)
  BY OnlyIs DEF TypeOK
<1>2. graph.cli \in Projects \cup {NoProject}
  BY DEF TypeOK, Graph
<1>3. Scheduled(graph, sort.order) =
        IF graph.cli = NoProject \/ graph.cli \in Range(sorted) THEN sorted ELSE Append(sorted, graph.cli)
  BY DEF Scheduled
<1> HIDE DEF sorted
<1> QED BY <1>1, <1>2, <1>3

(* The initial states satisfy it.                                          *)
LEMMA TypedInit == Init => Typed
<1> SUFFICES ASSUME Init PROVE Typed
  OBVIOUS
<1>1. TypeOK
  <2>1. /\ graph \in Graph
        /\ sort \in [degree : [Projects -> Nat], ready : Seq(Projects), order : Seq(Projects)]
    BY StartSorts, SchedulerAssumption DEF Init
  <2>2. prereqs \in [Projects -> [pass : SUBSET Projects, end : SUBSET Projects]]
    BY DEF Init
  <2>3. /\ ended \in [Projects -> {"None", "Panic"} \cup ExitCode] /\ lease \in [Projects -> Nat]
        /\ scheduled \in Seq(Projects) /\ remaining \in Seq(Projects) /\ exitCode \in ExitCode
    BY DEF Init, ExitCode
  <2> QED BY <2>1, <2>2, <2>3 DEF Init, TypeOK
<1>2. LentSlots = {}
  BY DEF Init, LentSlots
<1>3. Cardinality(LentSlots) <= Slots
  BY <1>1, <1>2, SlotsAre, FS_EmptySet
<1>4. Budget
  BY <1>3 DEF Budget, Init
<1> QED BY <1>1, <1>4, StartSorts DEF Typed

(* Whatever leaves the sort alone keeps what is known of it.               *)
LEMMA SortingKept == ASSUME Sorting, UNCHANGED <<graph, sort>> PROVE Sorting'
BY DEF Sorting

(* Whatever lends and returns nothing keeps the budget.                    *)
LEMMA BudgetKept ==
  ASSUME Budget, UNCHANGED <<graph, scheduled, running, lease>>, pc' = "sort" => pc = "sort"
  PROVE  Budget'
<1>1. LentSlots' = LentSlots /\ Slots' = Slots
  BY DEF LentSlots, Slots, AllTests
<1> QED BY <1>1 DEF Budget

(* A launch lends what is free.                                            *)
LEMMA TypedSpawn ==
  ASSUME Typed, NEW p \in Projects, Spawn(p) PROVE Typed'
<1> DEFINE a == Allocation(p)
<1>1. TypeOK /\ graph.tests \in [Projects -> Nat] /\ lease \in [Projects -> Nat] /\ graph.tests[p] > 0
  BY DEF Typed, TypeOK, Graph, Spawn
<1>2. a \in 1..graph.tests[p] /\ a <= Available /\ a \in Nat
  BY <1>1, Allocated DEF Spawn, IsNext
<1>3. lease' = [lease EXCEPT ![p] = a] /\ running' = running \cup {p} /\ UNCHANGED <<plan, pc>>
  BY DEF Spawn
<1>4. TypeOK'
  <2>1. remaining' \in Seq(Projects)
    BY <1>1, LeftIs DEF Spawn
  <2>2. lease' \in [Projects -> Nat]
    BY <1>1, <1>2, <1>3
  <2> QED BY <2>1, <2>2, <1>1 DEF Spawn, TypeOK, plan
<1>5. Sorting'
  BY SortingKept DEF Typed, Spawn, plan
<1>6. Cardinality(LentSlots') \in Nat /\ Cardinality(LentSlots') <= Cardinality(LentSlots) + a
  <2> DEFINE more == {p} \X (1..a)
  <2>1. IsFiniteSet(more) /\ Cardinality(more) = a
    <3> HIDE DEF a
    <3>1. IsFiniteSet(1..a) /\ Cardinality(1..a) = a
      BY <1>2, FS_Interval
    <3>2. IsFiniteSet({p}) /\ Cardinality({p}) = 1
      BY FS_Singleton
    <3>3. IsFiniteSet(more) /\ Cardinality(more) = Cardinality({p}) * Cardinality(1..a)
      BY <3>1, <3>2, FS_Product
    <3>4. 1 * a = a
      BY <1>2
    <3> HIDE DEF more
    <3> QED BY <3>1, <3>2, <3>3, <3>4
  <2>2. LentSlots' \subseteq LentSlots \cup more
    BY <1>1, <1>3 DEF LentSlots
  <2>3. IsFiniteSet(LentSlots) /\ Cardinality(LentSlots) \in Nat
    BY <1>1, SlotsAre
  <2> HIDE DEF more, a
  <2>4. /\ IsFiniteSet(LentSlots \cup more) /\ IsFiniteSet(LentSlots \cap more)
        /\ Cardinality(LentSlots \cup more) =
             Cardinality(LentSlots) + Cardinality(more) - Cardinality(LentSlots \cap more)
    BY <2>1, <2>3, FS_Union, FS_Intersection
  <2>5. Cardinality(LentSlots \cap more) \in Nat
    BY <2>4, FS_CardinalityType
  <2>6. Cardinality(LentSlots') <= Cardinality(LentSlots \cup more) /\ IsFiniteSet(LentSlots')
    BY <2>2, <2>4, FS_Subset
  <2>7. Cardinality(LentSlots') \in Nat
    BY <2>6, FS_CardinalityType
  <2> QED BY <2>1, <2>3, <2>4, <2>5, <2>6, <2>7, <1>2
<1>7. Slots' = Slots
  BY <1>3 DEF Slots, AllTests, plan
<1>8. Cardinality(LentSlots') <= Slots'
  <2>1. /\ Slots \in Nat /\ Cardinality(LentSlots) \in Nat
        /\ Available = Slots - Cardinality(LentSlots)
    BY <1>1, SlotsAre DEF Available
  <2> HIDE DEF a
  <2>2. Cardinality(LentSlots) + a <= Slots
    BY <2>1, <1>2
  <2> QED BY ONLY <2>1, <2>2, <1>2, <1>6, <1>7
<1>9. Budget'
  <2>1. \A q \in Projects : lease'[q] = IF q = p THEN a ELSE lease[q]
    BY <1>1, <1>3
  <2>2. graph' = graph /\ pc' = "scan"
    BY <1>3 DEF plan, Spawn
  <2>3. running \subseteq Projects
    BY <1>1 DEF TypeOK
  <2> HIDE DEF a
  <2> QED BY <2>1, <2>2, <2>3, <1>2, <1>3, <1>8 DEF Typed, Budget
<1> QED BY <1>4, <1>5, <1>9 DEF Typed

(* Planning sets the budget, while nothing is lent.                        *)
LEMMA TypedPlan == ASSUME Typed, PlanProjects PROVE Typed'
<1>1. TypeOK'
  <2>1. scheduled' \in Seq(Projects) /\ remaining' \in Seq(Projects)
    BY ScheduledIs DEF Typed, PlanProjects
  <2>2. prereqs' \in [Projects -> [pass : SUBSET Projects, end : SUBSET Projects]]
    <3>1. Range(scheduled') \subseteq Projects
      BY <2>1, RangeOfSeq
    <3>2. \A p \in Projects : /\ MustPass(graph, scheduled', p) \in SUBSET Projects
                              /\ MustEnd(graph, scheduled', p) \in SUBSET Projects
      BY <3>1 DEF MustPass, MustEnd
    <3>3. prereqs' = [p \in Projects |-> [pass |-> MustPass(graph, scheduled', p),
                                          end |-> MustEnd(graph, scheduled', p)]]
      BY DEF PlanProjects
    <3> QED BY <3>2, <3>3
  <2> QED BY <2>1, <2>2 DEF Typed, TypeOK, PlanProjects
<1>2. Sorting'
  BY SortingKept DEF Typed, PlanProjects
<1>3. Budget'
  <2>1. LentSlots' = {}
    <3>1. \A p \in Projects : lease'[p] = 0
      BY DEF Typed, Budget, PlanProjects
    <3> QED BY <3>1 DEF LentSlots
  <2>2. Cardinality(LentSlots') <= Slots'
    <3>0. \A p \in Projects : graph'.tests[p] \in Nat
      BY <1>1 DEF TypeOK, Graph
    <3>1. Range(scheduled') \in SUBSET Projects
      BY <1>1, RangeOfSeq DEF TypeOK
    <3>2. IsFiniteSet(Range(scheduled')) /\ \A p \in Range(scheduled') : graph'.tests[p] \in Nat
      BY <3>0, <3>1, Finite
    <3>3. Cardinality(AllTests') \in Nat
      <4>1. Cardinality(UNION {{p} \X (1..graph'.tests[p]) : p \in Range(scheduled')}) \in Nat
        <5> DEFINE S == Range(scheduled')
                   f == graph'.tests
        <5>1. IsFiniteSet(S) /\ \A p \in S : f[p] \in Nat
          BY <3>2
        <5> HIDE DEF S, f
        <5>2. Cardinality(UNION {{p} \X (1..f[p]) : p \in S}) \in Nat
          BY <5>1, PairsFinite
        <5> QED BY <5>2 DEF S, f
      <4> QED BY <4>1 DEF AllTests
    <3>4. Slots' \in Nat
      BY <3>3, SchedulerAssumption DEF Slots, Greatest, Least
    <3> QED BY <2>1, <3>4, FS_EmptySet
  <2> QED BY <2>2 DEF Typed, Budget, PlanProjects
<1> QED BY <1>1, <1>2, <1>3 DEF Typed

(* The end of a task returns its slots.                                    *)
LEMMA TypedEnds == ASSUME Typed, NEW p \in Projects, ProjectRunEnds(p) PROVE Typed'
<1>1. PICK code \in {"Passed", "Failed", "Infrastructure", "Interrupted", "Panic"} : RunEnds(p, code)
  BY DEF ProjectRunEnds
<1>2. TypeOK'
  BY <1>1 DEF Typed, TypeOK, RunEnds, ExitCode, plan
<1>3. Sorting'
  BY <1>1, SortingKept DEF Typed, RunEnds, plan
<1>4. \A q \in Projects : lease'[q] = IF q = p THEN 0 ELSE lease[q]
  BY <1>1 DEF Typed, TypeOK, RunEnds
<1>5. LentSlots' \subseteq LentSlots
  BY <1>4 DEF LentSlots
<1>6. Cardinality(LentSlots') <= Slots'
  <2>1. Slots' = Slots
    BY <1>1 DEF RunEnds, Slots, AllTests, plan
  <2>2. IsFiniteSet(LentSlots) /\ Cardinality(LentSlots) \in Nat /\ Slots \in Nat
    BY SlotsAre DEF Typed
  <2>3. IsFiniteSet(LentSlots') /\ Cardinality(LentSlots') <= Cardinality(LentSlots)
    BY <1>5, <2>2, FS_Subset
  <2>4. Cardinality(LentSlots') \in Nat
    BY <2>3, FS_CardinalityType
  <2> QED BY <2>1, <2>2, <2>3, <2>4 DEF Typed, Budget
<1>7. Budget'
  BY <1>1, <1>4, <1>6 DEF Typed, TypeOK, Budget, RunEnds, plan
<1> QED BY <1>2, <1>3, <1>7 DEF Typed

(* Every step keeps types, sort and budget.                                *)
LEMMA TypedNext == Typed /\ [Next]_vars => Typed'
<1> SUFFICES ASSUME Typed, [Next]_vars PROVE Typed'
  OBVIOUS
<1> USE DEF Typed
<1>1. CASE SortNode
  <2>1. Sorting' /\ TypeOK'
    BY <1>1, NodeSorts DEF TypeOK, SortNode
  <2> QED BY <2>1, <1>1, BudgetKept DEF SortNode
<1>2. CASE PlanProjects
  BY <1>2, TypedPlan
<1>3. CASE RefuseCycle
  BY <1>3, BudgetKept, SortingKept DEF RefuseCycle, TypeOK, ExitCode
<1>4. ASSUME NEW p \in Projects, SkipBlocked(p) PROVE Typed'
  <2>1. Left(p) \in Seq(Projects) /\ Worst(exitCode, "Failed") \in ExitCode
    BY LeftIs, WorstIs DEF TypeOK, ExitCode
  <2> QED BY <1>4, <2>1, BudgetKept, SortingKept DEF SkipBlocked, TypeOK, plan
<1>5. ASSUME NEW p \in Projects, PassEmpty(p) PROVE Typed'
  <2>1. Left(p) \in Seq(Projects)
    BY LeftIs
  <2> QED BY <1>5, <2>1, BudgetKept, SortingKept DEF PassEmpty, TypeOK, plan
<1>6. ASSUME NEW p \in Projects, Spawn(p) PROVE Typed'
  BY <1>6, TypedSpawn
<1>7. ASSUME NEW p \in Projects, Join(p) PROVE Typed'
  <2>1. (IF ended[p] = "Panic" THEN "Infrastructure" ELSE ended[p]) \in ExitCode
    BY <1>7 DEF TypeOK, Join, ExitCode
  <2>2. exitCode' \in ExitCode
    BY <2>1, <1>7, WorstIs DEF TypeOK, Join
  <2>3. ended' \in [Projects -> {"None", "Panic"} \cup ExitCode]
    BY <1>7 DEF TypeOK, Join
  <2>4. TypeOK'
    BY <1>7, <2>2, <2>3 DEF Join, TypeOK, plan
  <2> QED BY <1>7, <2>4, BudgetKept, SortingKept DEF Join, plan
<1>8. CASE Await
  BY <1>8, BudgetKept, SortingKept DEF Await, TypeOK, plan
<1>9. CASE Report
  <2>1. exitCode' \in ExitCode
    BY <1>9, WorstIs DEF Report, TypeOK, ExitCode
  <2> QED BY <1>9, <2>1, BudgetKept, SortingKept DEF Report, TypeOK, plan
<1>10. ASSUME NEW p \in Projects, ProjectRunEnds(p) PROVE Typed'
  BY <1>10, TypedEnds
<1>11. CASE RequestStop
  BY <1>11, BudgetKept, SortingKept DEF RequestStop, TypeOK, plan
<1>12. CASE Terminated \/ UNCHANGED vars
  <2>1. UNCHANGED vars
    BY <1>12 DEF Terminated
  <2>2. TypeOK'
    BY <2>1 DEF vars, TypeOK
  <2>3. Sorting' /\ Budget'
    BY <2>1, BudgetKept, SortingKept DEF vars
  <2> QED BY <2>2, <2>3
<1> QED
  BY <1>1, <1>2, <1>3, <1>4, <1>5, <1>6, <1>7, <1>8, <1>9, <1>10, <1>11, <1>12 DEF Next, SchedulerStep

(* They hold in every behaviour.                                           *)
LEMMA AlwaysTyped == Spec => []Typed
BY TypedInit, TypedNext, PTL DEF Spec

(* The scheduler's state has its type.                                     *)
THEOREM TypeCorrect == Spec => []TypeOK
<1>1. Typed => TypeOK
  BY DEF Typed
<1> QED BY <1>1, AlwaysTyped, PTL

(* The slots lent never exceed the workers, and a running project has      *)
(* between one and as many as it has tests: try_acquire_many_owned finds   *)
(* what it asks for.                                                       *)
THEOREM SlotsSuffice == Spec => []WorkersWithinBudget
<1>1. Typed => WorkersWithinBudget
  <2> SUFFICES ASSUME Typed PROVE WorkersWithinBudget
    OBVIOUS
  <2>1. Slots \in Nat /\ Cardinality(LentSlots) \in Nat
    BY SlotsAre DEF Typed
  <2> QED BY <2>1 DEF Typed, Budget, Available, WorkersWithinBudget
<1> QED BY <1>1, AlwaysTyped, PTL

-----------------------------------------------------------------------------
(* Once the run is planned, the prerequisite table is the one computed     *)
(* from the configuration.                                                 *)
TableIsPlanned ==
  pc \in {"scan", "join", "report"} \/ launched # {} =>
    prereqs = [p \in Projects |->
                 [pass |-> MustPass(graph, scheduled, p), end |-> MustEnd(graph, scheduled, p)]]

(* A project that was launched had everything it waits for behind it, and  *)
(* what has passed or ended stays so.                                      *)
LaunchedWaited ==
  \A p \in launched :
    /\ p \in Projects
    /\ prereqs[p].pass \subseteq passed
    /\ prereqs[p].end \subseteq terminal

IInv ==
  /\ graph \in Graphs
  /\ pc = "sort" => launched = {}
  /\ TableIsPlanned
  /\ LaunchedWaited

(* Before the plan nothing is launched.                                    *)
LEMMA InitInv == Init => IInv
BY DEF Init, IInv, TableIsPlanned, LaunchedWaited

(* Planning computes the table.                                            *)
LEMMA PlanInv == ASSUME IInv, PlanProjects PROVE IInv'
<1>1. launched = {} /\ launched' = {} /\ graph' = graph /\ pc' # "sort"
  BY DEF IInv, PlanProjects
<1>2. TableIsPlanned'
  BY <1>1 DEF PlanProjects, TableIsPlanned
<1> QED BY <1>1, <1>2 DEF IInv, LaunchedWaited

(* A launch finds everything the project waits for ended, and passed where *)
(* it must.                                                                *)
LEMMA SpawnInv == ASSUME IInv, NEW p \in Projects, Spawn(p) PROVE IInv'
<1> USE DEF IInv, Spawn, plan
<1>1. /\ launched' = launched \cup {p} /\ pc = "scan" /\ pc' = pc
      /\ UNCHANGED <<graph, scheduled, prereqs, terminal, passed>>
  OBVIOUS
<1>2. prereqs[p].pass \subseteq passed /\ prereqs[p].end \subseteq terminal
  BY DEF IsNext, IsReady, Waited, DependenciesPassed
<1>3. TableIsPlanned'
  BY <1>1 DEF TableIsPlanned, MustPass, MustEnd
<1>4. LaunchedWaited'
  BY <1>1, <1>2 DEF LaunchedWaited
<1> QED BY <1>1, <1>3, <1>4

(* Every other step launches nothing and keeps what has passed and ended.  *)
LEMMA QuietInv ==
  ASSUME IInv, UNCHANGED <<graph, scheduled, prereqs, launched>>,
         pc' = "sort" => pc = "sort",
         pc' \in {"scan", "join", "report"} => pc \in {"scan", "join", "report"},
         terminal \subseteq terminal', passed \subseteq passed'
  PROVE  IInv'
<1>1. TableIsPlanned'
  BY DEF IInv, TableIsPlanned, MustPass, MustEnd
<1>2. LaunchedWaited'
  BY DEF IInv, LaunchedWaited
<1> QED BY <1>1, <1>2 DEF IInv

(* Every step of the scheduler keeps the inductive invariant.              *)
LEMMA NextInv == IInv /\ [Next]_vars => IInv'
<1> SUFFICES ASSUME IInv, [Next]_vars PROVE IInv'
  OBVIOUS
<1>0. CASE SortNode \/ RefuseCycle
  BY <1>0, QuietInv DEF SortNode, RefuseCycle
<1>1. CASE PlanProjects
  BY <1>1, PlanInv
<1>2. ASSUME NEW p \in Projects, SkipBlocked(p) \/ PassEmpty(p) \/ Join(p) PROVE IInv'
  BY <1>2, QuietInv DEF plan, SkipBlocked, PassEmpty, Join
<1>3. ASSUME NEW p \in Projects, Spawn(p) PROVE IInv'
  BY <1>3, SpawnInv
<1>4. CASE Await
  BY <1>4, QuietInv DEF plan, Await
<1>5. CASE Report
  BY <1>5, QuietInv DEF plan, Report
<1>6. ASSUME NEW p \in Projects, ProjectRunEnds(p) PROVE IInv'
  BY <1>6, QuietInv DEF plan, ProjectRunEnds, RunEnds
<1>7. CASE RequestStop
  BY <1>7, QuietInv DEF plan, RequestStop
<1>8. CASE Terminated \/ UNCHANGED vars
  BY <1>8, QuietInv DEF Terminated, vars
<1> QED BY <1>0, <1>1, <1>2, <1>3, <1>4, <1>5, <1>6, <1>7, <1>8 DEF Next, SchedulerStep

(* It holds in every behaviour.                                            *)
LEMMA Invariance == Spec => []IInv
BY InitInv, NextInv, PTL DEF Spec

(* "A project only runs after all its dependencies have passed", in every  *)
(* configuration and whatever else runs, fails or panics.                  *)
THEOREM DependenciesFirst == Spec => []DependenciesPassFirst
<1>1. IInv => DependenciesPassFirst
  BY DEF IInv, TableIsPlanned, LaunchedWaited, MustPass, DependenciesPassFirst
<1> QED BY <1>1, Invariance, PTL

(* The only project that declares p its teardown is the one p waits for.   *)
LEMMA OnlyParent ==
  ASSUME NEW g, OneParent(g), NEW p \in Projects, NEW q \in Projects, g.teardown[q] = p
  PROVE  TeardownParent(g, p) = q
<1>1. {r \in Projects : g.teardown[r] = p} = {q}
  BY DEF OneParent, Projects, NoProject
<1>2. q \in Nat /\ q >= 0
  BY ProjectsAssumption DEF Projects
<1>3. TeardownParent(g, p) = Max({q, 0})
  BY <1>1 DEF TeardownParent, NoProject
<1> QED BY <1>2, <1>3 DEF Max

(* Where no project is the teardown of two, a teardown is launched only    *)
(* when the project that declares it is over.                              *)
THEOREM TeardownLater ==
  ASSUME \A g \in Graphs : OneParent(g)
  PROVE  Spec => []TeardownAfterParent
<1>1. IInv => TeardownAfterParent
  <2> SUFFICES ASSUME IInv, NEW p \in launched, NEW q \in Projects,
                      q \in Range(scheduled), graph.teardown[q] = p
               PROVE  q \in terminal
    BY DEF TeardownAfterParent
  <2>1. p \in Projects /\ prereqs[p].end \subseteq terminal /\ OneParent(graph)
    BY DEF IInv, LaunchedWaited
  <2>2. TeardownParent(graph, p) = q
    BY <2>1, OnlyParent
  <2>3. q \in MustEnd(graph, scheduled, p)
    BY <2>2 DEF MustEnd
  <2>4. prereqs[p].end = MustEnd(graph, scheduled, p)
    BY <2>1 DEF IInv, TableIsPlanned
  <2> QED BY <2>1, <2>3, <2>4
<1> QED BY <1>1, Invariance, PTL

-----------------------------------------------------------------------------
(* What was planned has acyclic dependencies.                              *)
Orderly == pc \in {"scan", "join", "report"} => ~HasCircle(graph.deps)

(* While the status is 0, every scheduled project remains, runs, waits to  *)
(* be joined or has passed; when the loop is over for another reason than  *)
(* a stop, all have passed.                                                *)
Accounting ==
  /\ passed \subseteq terminal
  /\ pc # "sort" /\ exitCode = "Passed" =>
       Range(scheduled) \subseteq Range(remaining) \cup InFlight \cup passed
  /\ pc = "report" /\ exitCode = "Passed" => stopRequested \/ Range(scheduled) \subseteq passed
  /\ pc = "done" /\ exitCode = "Passed" => Range(scheduled) \subseteq passed

(* Nothing is planned yet.                                                 *)
LEMMA OrderlyInit == Init => Orderly
BY DEF Init, Orderly

(* Only a complete sort leads to a plan.                                   *)
LEMMA OrderlyNext == Typed /\ Orderly /\ [Next]_vars => Orderly'
<1> SUFFICES ASSUME Typed, Orderly, [Next]_vars PROVE Orderly'
  OBVIOUS
<1>1. CASE PlanProjects
  <2>1. ~HasCircle(graph.deps) /\ graph' = graph
    BY <1>1, SortedIsOrderly DEF Typed, PlanProjects
  <2> QED BY <2>1 DEF Orderly, HasCircle
<1>2. CASE ~PlanProjects
  <2>1. graph' = graph /\ (pc' \in {"scan", "join", "report"} => pc \in {"scan", "join", "report"})
    BY <1>2 DEF Next, SchedulerStep, SortNode, RefuseCycle, SkipBlocked, PassEmpty, Spawn, Join, Await,
                Report, ProjectRunEnds, RunEnds, RequestStop, Terminated, vars, plan
  <2> QED BY <2>1 DEF Orderly, HasCircle
<1> QED BY <1>1, <1>2

(* When nothing runs and nothing can be launched, nothing is left:         *)
(* otherwise each remaining project waits for another one, which the sort, *)
(* or the hypothesis on teardowns, excludes.                               *)
LEMMA Stuck ==
  ASSUME Typed, IInv, Orderly, Harmless(graph), Await, InFlight = {}, ~stopRequested,
         Range(scheduled) \subseteq Range(remaining) \cup terminal
  PROVE  Range(remaining) = {}
<1> DEFINE left == Range(remaining)
<1>1. TypeOK /\ pc = "scan" /\ left \in SUBSET Projects /\ remaining \in Seq(Projects)
  BY RangeOfSeq DEF Typed, TypeOK, Await
<1>2. MayLaunch
  <2>1. Cap \in Nat \ {0} /\ Cardinality(InFlight) = 0
    BY <1>1, SchedulerAssumption, FS_EmptySet DEF Cap, Greatest, TypeOK
  <2>2. LentSlots = {}
    BY DEF InFlight, Typed, Budget, LentSlots
  <2>3. Available > 0
    BY <1>1, <2>2, SlotsAre, FS_EmptySet DEF Available
  <2> QED BY <2>1, <2>3 DEF MayLaunch
<1>3. ASSUME NEW p \in left PROVE ~IsReady(p)
  <2> SUFFICES ASSUME IsReady(p) PROVE FALSE
    OBVIOUS
  <2> DEFINE at == {i \in DOMAIN remaining : IsReady(remaining[i])}
  <2>1. at # {}
    BY DEF Range
  <2>2. at \subseteq Int /\ IsFiniteSet(at)
    <3>1. DOMAIN remaining = 1..Len(remaining) /\ Len(remaining) \in Nat
      BY <1>1
    <3>2. IsFiniteSet(1..Len(remaining)) /\ at \in SUBSET (1..Len(remaining))
      BY <3>1, FS_Interval
    <3>3. at \subseteq Int
      BY <3>1
    <3> HIDE DEF at
    <3>4. IsFiniteSet(at)
      BY <3>2, FS_Subset
    <3> QED BY <3>3, <3>4
  <2>3. PICK i \in at : \A j \in at : ~(j < i)
    <3> HIDE DEF at
    <3> QED BY <2>1, <2>2, HasLeast
  <2>4. \A j \in 1..(i - 1) : ~IsReady(remaining[j])
    <3>1. DOMAIN remaining = 1..Len(remaining) /\ Len(remaining) \in Nat
      BY <1>1
    <3> QED BY <3>1, <2>3
  <2>5. IsNext(remaining[i]) /\ remaining[i] \in Projects
    BY <1>1, <1>2, <2>3, <2>4 DEF IsNext
  <2> QED BY <2>5 DEF Await
<1>4. Range(scheduled) \subseteq left \cup terminal
  OBVIOUS
<1>5. ASSUME NEW p \in left PROVE WaitsOf(graph)[p] \cap left # {}
  <2>1. PICK q \in Waited(p) : q \notin terminal
    BY <1>3, <1>5 DEF IsReady
  <2>2. p \in Projects /\ prereqs[p] = [pass |-> MustPass(graph, scheduled, p),
                                         end |-> MustEnd(graph, scheduled, p)]
    BY <1>1 DEF IInv, TableIsPlanned
  <2>3. q \in Range(scheduled) /\ q \in Projects
    <3>1. q \in Range(scheduled)
      BY <2>1, <2>2 DEF Waited, MustPass, MustEnd
    <3>2. Range(scheduled) \subseteq Projects
      BY <1>1, RangeOfSeq DEF TypeOK
    <3> QED BY <3>1, <3>2
  <2>4. q \in left
    BY <2>1, <2>3, <1>4
  <2>5. q \in WaitsOf(graph)[p]
    BY <2>1, <2>2, <2>3 DEF Waited, MustPass, MustEnd, WaitsOf
  <2> QED BY <2>4, <2>5
<1>6. left = {}
  <2> SUFFICES ASSUME left # {} PROVE FALSE
    OBVIOUS
  <2>1. HasCircle(WaitsOf(graph))
    <3> HIDE DEF left
    <3> QED BY <1>1, <1>5 DEF HasCircle
  <2> QED BY <2>1, <1>1 DEF Harmless, Orderly
<1> QED BY <1>6

(* Nothing is scheduled yet.                                               *)
LEMMA AccountingInit == Init => Accounting
BY DEF Init, Accounting

(* A step that drops no project without a bad status keeps the account.    *)
LEMMA AccountingKept ==
  ASSUME Typed, Accounting, UNCHANGED scheduled, pc # "sort",
         pc' = "report" => pc = "report", pc' = "done" => pc = "done",
         passed \subseteq passed', passed' \subseteq terminal',
         exitCode' = "Passed" => exitCode = "Passed",
         exitCode' = "Passed" =>
           Range(remaining) \cup InFlight \subseteq Range(remaining') \cup InFlight' \cup passed',
         stopRequested => stopRequested'
  PROVE  Accounting'
BY DEF Accounting

(* Every step keeps the account.                                           *)
LEMMA AccountingNext ==
  ASSUME \A g \in Graphs : Harmless(g)
  PROVE  Typed /\ IInv /\ Orderly /\ Accounting /\ [Next]_vars => Accounting'
<1> SUFFICES ASSUME Typed, IInv, Orderly, Accounting, [Next]_vars PROVE Accounting'
  OBVIOUS
<1>0. /\ TypeOK /\ Harmless(graph) /\ exitCode \in ExitCode /\ passed \subseteq terminal
      /\ ended \in [Projects -> {"None", "Panic"} \cup ExitCode]
  BY DEF Typed, TypeOK, IInv, Accounting
<1>1. CASE SortNode \/ RefuseCycle
  BY <1>1 DEF SortNode, RefuseCycle, Accounting
<1>2. CASE PlanProjects
  BY <1>2 DEF PlanProjects, Accounting
<1>3. ASSUME NEW p \in Projects, SkipBlocked(p) PROVE Accounting'
  <2>1. exitCode' # "Passed"
    BY <1>0, <1>3, WorstIs DEF SkipBlocked, ExitCode
  <2> QED BY <2>1, <1>0, <1>3 DEF SkipBlocked, Accounting
<1>4. ASSUME NEW p \in Projects, PassEmpty(p) PROVE Accounting'
  <2>1. Range(remaining) \subseteq Range(remaining') \cup {p}
    BY <1>0, <1>4, LeftIs DEF PassEmpty
  <2>2. InFlight' = InFlight
    BY <1>4 DEF PassEmpty, InFlight
  <2> QED BY <2>1, <2>2, <1>0, <1>4, AccountingKept DEF PassEmpty, plan
<1>5. ASSUME NEW p \in Projects, Spawn(p) PROVE Accounting'
  <2>1. Range(remaining) \subseteq Range(remaining') \cup {p}
    BY <1>0, <1>5, LeftIs DEF Spawn
  <2>2. InFlight' = InFlight \cup {p}
    BY <1>5 DEF Spawn, InFlight
  <2> QED BY <2>1, <2>2, <1>0, <1>5, AccountingKept DEF Spawn, plan
<1>6. ASSUME NEW p \in Projects, Join(p) PROVE Accounting'
  <2>1. exitCode' = "Passed" => exitCode = "Passed" /\ ended[p] = "Passed"
    <3>1. (IF ended[p] = "Panic" THEN "Infrastructure" ELSE ended[p]) \in ExitCode
      BY <1>0, <1>6 DEF Join, ExitCode
    <3> QED BY <3>1, <1>0, <1>6, WorstIs DEF Join
  <2>2. InFlight \subseteq InFlight' \cup {p}
    BY <1>0, <1>6 DEF Join, InFlight
  <2>3. passed' = passed \cup {q \in {p} : ended[q] = "Passed"}
        /\ terminal' = terminal \cup ({p} \ {q \in Projects : ended[q] = "Panic"})
    BY <1>6 DEF Join
  <2>4. passed' \subseteq terminal'
    BY <2>3, <1>0
  <2> QED BY <2>1, <2>2, <2>3, <2>4, <1>6, AccountingKept DEF Join, plan
<1>7. CASE Await
  <2>1. /\ pc = "scan" /\ InFlight' = InFlight
        /\ UNCHANGED <<scheduled, remaining, passed, terminal, exitCode, stopRequested>>
    BY <1>7 DEF Await, InFlight, plan
  <2>2. CASE InFlight = {}
    <3>1. pc' = "report"
      BY <1>7, <2>2 DEF Await
    <3>2. exitCode = "Passed" => Range(scheduled) \subseteq Range(remaining) \cup passed
      BY <2>1, <2>2 DEF Accounting
    <3>3. exitCode = "Passed" => stopRequested \/ Range(scheduled) \subseteq passed
      BY <3>2, <1>0, <1>7, <2>2, Stuck
    <3> QED BY <2>1, <3>1, <3>3 DEF Accounting
  <2>3. CASE InFlight # {}
    BY <1>7, <2>1, <2>3 DEF Await, Accounting
  <2> QED BY <2>2, <2>3
<1>8. CASE Report
  <2>1. exitCode' = "Passed" => exitCode = "Passed" /\ ~stopRequested
    BY <1>0, <1>8, WorstIs DEF Report, ExitCode
  <2>2. /\ InFlight' = InFlight /\ pc = "report" /\ pc' = "done"
        /\ UNCHANGED <<scheduled, remaining, passed, terminal>>
    BY <1>8 DEF Report, InFlight, plan
  <2> QED BY <2>1, <2>2 DEF Accounting
<1>9. ASSUME NEW p \in Projects, ProjectRunEnds(p) PROVE Accounting'
  <2>1. PICK code \in {"Passed", "Failed", "Infrastructure", "Interrupted", "Panic"} : RunEnds(p, code)
    BY <1>9 DEF ProjectRunEnds
  <2>2. InFlight \subseteq InFlight'
    BY <1>0, <2>1 DEF RunEnds, InFlight
  <2>3. pc # "sort"
    BY <2>1 DEF RunEnds, Typed, Budget
  <2> QED BY <2>1, <2>2, <2>3, <1>0, AccountingKept DEF RunEnds, plan
<1>10. CASE RequestStop
  <2>1. InFlight' = InFlight
    BY <1>10 DEF RequestStop, InFlight
  <2> QED BY <2>1, <1>0, <1>10, AccountingKept DEF RequestStop, plan
<1>11. CASE Terminated \/ UNCHANGED vars
  <2>1. UNCHANGED vars
    BY <1>11 DEF Terminated
  <2>2. InFlight' = InFlight
    BY <2>1 DEF vars, InFlight
  <2> QED BY <2>1, <2>2 DEF vars, Accounting
<1> QED BY <1>1, <1>2, <1>3, <1>4, <1>5, <1>6, <1>7, <1>8, <1>9, <1>10, <1>11 DEF Next, SchedulerStep

(* Exit status 0 means that every scheduled project passed, in every       *)
(* configuration whose teardowns close no circle of waits, with panics,    *)
(* stops and skips.                                                        *)
THEOREM PassedIsAll ==
  ASSUME \A g \in Graphs : Harmless(g)
  PROVE  Spec => []PassedMeansAllPassed
<1>1. Init => Orderly /\ Accounting
  BY OrderlyInit, AccountingInit
<1>2. Typed /\ IInv /\ Orderly /\ Accounting /\ [Next]_vars => Orderly' /\ Accounting'
  BY OrderlyNext, AccountingNext
<1>3. Spec => [](Orderly /\ Accounting)
  BY <1>1, <1>2, AlwaysTyped, Invariance, PTL DEF Spec
<1>4. Accounting => PassedMeansAllPassed
  BY DEF Accounting, PassedMeansAllPassed
<1> QED BY <1>3, <1>4, PTL

-----------------------------------------------------------------------------
(* Every scheduled project remains, was launched or is over; when the loop *)
(* is over and nobody stopped it or panicked, all are over.  A usage error *)
(* is a circle of dependencies.                                            *)
Settling ==
  /\ Range(scheduled) \subseteq Range(remaining) \cup launched \cup terminal
  /\ InFlight \subseteq launched
  /\ pc \in {"report", "done"} /\ ~stopRequested /\ launched \subseteq terminal =>
       Range(scheduled) \subseteq terminal
  /\ pc = "sort" => Range(scheduled) = {}
  /\ \A p \in Projects : ended[p] # "Usage"
  /\ exitCode = "Usage" => pc = "done" /\ HasCircle(graph.deps)

(* Nothing is scheduled, launched or ended yet.                            *)
LEMMA SettlingInit == Init => Settling
<1> SUFFICES ASSUME Init PROVE Settling
  OBVIOUS
<1>1. Range(scheduled) = {} /\ InFlight = {}
  BY DEF Init, Range, InFlight
<1> QED BY <1>1 DEF Init, Settling

(* The worse of two statuses is one of them.                               *)
LEMMA WorstIsOne == \A a, b : Worst(a, b) \in {a, b}
BY DEF Worst

(* A step of the launching loop keeps the account.                         *)
LEMMA SettlingKept ==
  ASSUME Settling, UNCHANGED <<scheduled, graph>>, pc \in {"scan", "join"}, pc' \in {"scan", "join"},
         terminal \subseteq terminal', launched \subseteq launched',
         Range(remaining) \subseteq Range(remaining') \cup launched' \cup terminal',
         InFlight' \subseteq launched',
         \A p \in Projects : ended'[p] # "Usage",
         exitCode' # "Usage"
  PROVE  Settling'
BY DEF Settling

(* Every step does.                                                        *)
LEMMA SettlingNext ==
  ASSUME \A g \in Graphs : Harmless(g)
  PROVE  Typed /\ IInv /\ Orderly /\ Settling /\ [Next]_vars => Settling'
<1> SUFFICES ASSUME Typed, IInv, Orderly, Settling, [Next]_vars PROVE Settling'
  OBVIOUS
<1>0. /\ TypeOK /\ Sorting /\ Harmless(graph) /\ graph' = graph
      /\ ended \in [Projects -> {"None", "Panic"} \cup ExitCode]
  BY DEF Typed, TypeOK, IInv, Next, SchedulerStep, SortNode, PlanProjects, RefuseCycle, SkipBlocked,
         PassEmpty, Spawn, Join, Await, Report, ProjectRunEnds, RunEnds, RequestStop, Terminated, vars,
         plan
<1>1. CASE SortNode
  <2>1. InFlight' = InFlight
    BY <1>1 DEF SortNode, InFlight
  <2> QED BY <1>0, <1>1, <2>1 DEF SortNode, Settling
<1>2. CASE RefuseCycle
  <2>1. HasCircle(graph.deps) /\ InFlight' = InFlight
    BY <1>0, <1>2, LeftOutIsCircle DEF RefuseCycle, InFlight
  <2> QED BY <1>0, <1>2, <2>1 DEF RefuseCycle, Settling
<1>3. CASE PlanProjects
  <2>1. remaining' = scheduled' /\ InFlight' = InFlight
    BY <1>3 DEF PlanProjects, InFlight
  <2> QED BY <1>0, <1>3, <2>1 DEF PlanProjects, Settling
<1>4. ASSUME NEW p \in Projects, SkipBlocked(p) \/ PassEmpty(p) \/ Spawn(p) PROVE Settling'
  <2>1. Range(remaining) \subseteq Range(remaining') \cup {p}
    BY <1>0, <1>4, LeftIs DEF SkipBlocked, PassEmpty, Spawn
  <2>2. \/ InFlight' = InFlight /\ launched' = launched /\ p \in terminal'
        \/ InFlight' = InFlight \cup {p} /\ launched' = launched \cup {p}
    <3>1. CASE SkipBlocked(p) \/ PassEmpty(p)
      BY <3>1 DEF SkipBlocked, PassEmpty, InFlight
    <3>2. CASE Spawn(p)
      <4>1. running' = running \cup {p} /\ launched' = launched \cup {p} /\ ended' = ended
        BY <3>2 DEF Spawn
      <4> QED BY <4>1 DEF InFlight
    <3> QED BY <1>4, <3>1, <3>2
  <2>3. exitCode' \in {exitCode, "Failed"} /\ exitCode # "Usage"
    BY <1>4, WorstIsOne DEF SkipBlocked, PassEmpty, Spawn, Settling
  <2>4. /\ UNCHANGED <<scheduled, graph, ended, pc>> /\ pc = "scan"
        /\ terminal \subseteq terminal'
    BY <1>4 DEF SkipBlocked, PassEmpty, Spawn, plan
  <2>5. /\ InFlight \subseteq launched
        /\ \A q \in Projects : ended[q] # "Usage"
    BY DEF Settling
  <2> QED BY <2>1, <2>2, <2>3, <2>4, <2>5, SettlingKept
<1>5. ASSUME NEW p \in Projects, Join(p) PROVE Settling'
  <2>1. InFlight' \subseteq InFlight
    BY <1>0, <1>5 DEF Join, InFlight
  <2>2. exitCode' # "Usage" /\ \A q \in Projects : ended'[q] # "Usage"
    BY <1>0, <1>5, WorstIsOne DEF Join, Settling
  <2>3. /\ UNCHANGED <<scheduled, graph, remaining, launched>> /\ pc = "join" /\ pc' = "scan"
        /\ terminal \subseteq terminal'
    BY <1>5 DEF Join, plan
  <2>4. InFlight \subseteq launched
    BY DEF Settling
  <2> QED BY <2>1, <2>2, <2>3, <2>4, SettlingKept
<1>6. CASE Await
  <2>1. /\ pc = "scan" /\ InFlight' = InFlight
        /\ UNCHANGED <<graph, scheduled, remaining, terminal, launched, ended, exitCode, stopRequested>>
    BY <1>6 DEF Await, InFlight, plan
  <2>2. CASE InFlight = {}
    <3>1. pc' = "report"
      BY <1>6, <2>2 DEF Await
    <3>2. ASSUME ~stopRequested, launched \subseteq terminal PROVE Range(scheduled) \subseteq terminal
      <4>1. Range(scheduled) \subseteq Range(remaining) \cup terminal
        BY <3>2 DEF Settling
      <4> QED BY <4>1, <3>2, <1>0, <1>6, <2>2, Stuck
    <3> QED BY <2>1, <3>1, <3>2 DEF Settling
  <2>3. CASE InFlight # {}
    BY <1>6, <2>1, <2>3 DEF Await, Settling
  <2> QED BY <2>2, <2>3
<1>7. CASE Report
  <2>1. /\ pc = "report" /\ pc' = "done" /\ InFlight' = InFlight
        /\ UNCHANGED <<graph, scheduled, remaining, terminal, launched, ended, stopRequested>>
    BY <1>7 DEF Report, InFlight, plan
  <2>2. exitCode # "Usage" /\ exitCode' # "Usage"
    BY <1>7, WorstIsOne DEF Report, Settling
  <2> QED BY <2>1, <2>2 DEF Settling
<1>8. ASSUME NEW p \in Projects, ProjectRunEnds(p) PROVE Settling'
  <2>1. PICK code \in {"Passed", "Failed", "Infrastructure", "Interrupted", "Panic"} : RunEnds(p, code)
    BY <1>8 DEF ProjectRunEnds
  <2>2. InFlight' \subseteq InFlight
    BY <1>0, <2>1 DEF RunEnds, InFlight
  <2>3. \A q \in Projects : ended'[q] # "Usage"
    BY <1>0, <2>1 DEF RunEnds, Settling
  <2> QED BY <2>1, <2>2, <2>3, <1>0 DEF RunEnds, plan, Settling
<1>9. CASE RequestStop
  <2>1. InFlight' = InFlight
    BY <1>9 DEF RequestStop, InFlight
  <2> QED BY <2>1, <1>9 DEF RequestStop, plan, Settling
<1>10. CASE Terminated \/ UNCHANGED vars
  <2>1. UNCHANGED vars
    BY <1>10 DEF Terminated
  <2>2. InFlight' = InFlight
    BY <2>1 DEF vars, InFlight
  <2> QED BY <2>1, <2>2 DEF vars, Settling
<1> QED BY <1>1, <1>2, <1>3, <1>4, <1>5, <1>6, <1>7, <1>8, <1>9, <1>10 DEF Next, SchedulerStep

(* A run ends with every scheduled project over, and refuses nothing but a *)
(* cycle: what EveryProjectSettles says of the end, without saying that it *)
(* comes.                                                                  *)
THEOREM AllSettle ==
  ASSUME \A g \in Graphs : Harmless(g)
  PROVE  Spec => []NobodyLeftOut
<1>1. Init => Orderly /\ Settling
  BY OrderlyInit, SettlingInit
<1>2. Typed /\ IInv /\ Orderly /\ Settling /\ [Next]_vars => Orderly' /\ Settling'
  BY OrderlyNext, SettlingNext
<1>3. Spec => [](Orderly /\ Settling)
  BY <1>1, <1>2, AlwaysTyped, Invariance, PTL DEF Spec
<1>4. Settling => NobodyLeftOut
  BY DEF Settling, NobodyLeftOut
<1> QED BY <1>3, <1>4, PTL
=============================================================================
