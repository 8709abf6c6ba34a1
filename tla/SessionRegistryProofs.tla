----------------------- MODULE SessionRegistryProofs -----------------------
(***************************************************************************)
(* Proofs about SessionRegistry for any servers, processes and closers,    *)
(* any ids asked for and any sharing of browsers and ports: the type       *)
(* invariant, that an owner keeps its descriptor and its lock, that a      *)
(* session reported closed has released its id, and that a close hits the  *)
(* session it was meant for.                                               *)
(***************************************************************************)
EXTENDS SessionRegistry, TLAPS

Stages == {"idle", "claimed", "listening", "serving", "stored", "refused", "failed"}
Claims == {"none", "held", "published", "removed"}
Final == {"serving", "stored", "refused", "failed"}
Closer == [at : {"idle", "read", "attached", "closing", "closed", "failed"},
           read : Servers \cup {None}, reached : Servers \cup {None}]

(* What TypeOK says of the disk, of a bind, of the tables and of closes.   *)
DiskType ==
  /\ lock \in [Ids -> Servers \cup {None}]
  /\ descriptor \in [Ids -> Servers \cup {None}]
BindType ==
  /\ stage \in [Servers -> Stages]
  /\ id \in [Servers -> Ids] /\ browser \in [Servers -> Browsers]
  /\ claim \in [Servers -> Claims]
  /\ listening \subseteq Servers
TableType ==
  /\ table \in [Ids -> Global \cup {None}] /\ bindings \subseteq Global
  /\ taking \in [Servers -> {"no", "due", "done"}]
  /\ leaving \in [Servers -> {"no", "clear", "drop", "gone"}]
CloseType ==
  /\ closing \subseteq Servers /\ stopped \subseteq Servers
  /\ closer \in [Closers -> Closer]
  /\ \A c \in Closers :
       /\ closer[c].at \in {"read", "attached", "closing", "closed"} => closer[c].read \in Servers
       /\ closer[c].at \in {"attached", "closing", "closed"} => closer[c].reached \in Servers
  /\ alive \subseteq Processes

LEMMA TypeParts == TypeOK <=> DiskType /\ BindType /\ TableType /\ CloseType
  BY DEF TypeOK, DiskType, BindType, TableType, CloseType, Stages, Claims, Closer

LEMMA TypePartsNext == DiskType' /\ BindType' /\ TableType' /\ CloseType' => TypeOK'
  BY DEF TypeOK, DiskType, BindType, TableType, CloseType, Stages, Claims, Closer

LEMMA Apart == None \notin Servers /\ None \notin Ids /\ None \notin Global /\ Global \subseteq Servers
  BY RegistryAssumption DEF RegistryAssumption

LEMMA InitType == Init => TypeOK
<1> SUFFICES ASSUME Init PROVE TypeOK OBVIOUS
<1>1. DiskType BY DEF Init, DiskType
<1>2. BindType BY RegistryAssumption DEF Init, BindType, Stages, Claims
<1>3. TableType BY DEF Init, TableType
<1>4. CloseType BY DEF Init, CloseType, Closer, At
<1> QED BY <1>1, <1>2, <1>3, <1>4, TypeParts

LEMMA BindTypes ==
  ASSUME TypeOK, NEW s \in Servers, Bind(s)
  PROVE  TypeOK'
<1> USE DEF Advance, Fails, disk, binding, asked, ends, tables, others
<1>0. DiskType /\ BindType /\ TableType /\ CloseType BY TypeParts
<1>1. CASE TryClaim(s)
  <2>1. UNCHANGED <<ends, tables, others>> BY <1>1 DEF TryClaim
  <2>2. DiskType' BY <1>0, <1>1 DEF TryClaim, DiskType
  <2>3. BindType' BY <1>0, <1>1 DEF TryClaim, BindType, Stages, Claims
  <2> QED BY <1>0, <2>1, <2>2, <2>3, TypePartsNext DEF TableType, CloseType
<1>2. CASE Listen(s)
  <2>1. UNCHANGED <<ends, tables, others>> BY <1>2 DEF Listen
  <2>2. DiskType' BY <1>0, <1>2 DEF Listen, DiskType
  <2>3. BindType' BY <1>0, <1>2 DEF Listen, BindType, Stages, Claims
  <2> QED BY <1>0, <2>1, <2>2, <2>3, TypePartsNext DEF TableType, CloseType
<1>3. CASE Publish(s)
  <2>1. UNCHANGED <<ends, tables, others>> BY <1>3 DEF Publish
  <2>2. DiskType' BY <1>0, <1>3 DEF Publish, DiskType
  <2>3. BindType' BY <1>0, <1>3 DEF Publish, BindType, Stages, Claims
  <2> QED BY <1>0, <2>1, <2>2, <2>3, TypePartsNext DEF TableType, CloseType
<1>4. CASE StoreLive(s)
  <2>1. UNCHANGED <<disk, ends, others>> BY <1>4 DEF StoreLive
  <2>2. BindType' BY <1>0, <1>4 DEF StoreLive, BindType, Stages
  <2>3. TableType' BY <1>0, <1>4 DEF StoreLive, TableType
  <2> QED BY <1>0, <2>1, <2>2, <2>3, TypePartsNext DEF DiskType, CloseType
<1>5. CASE StoreRefused(s)
  <2>1. UNCHANGED <<disk, ends, others>> BY <1>5 DEF StoreRefused
  <2>2. BindType' BY <1>0, <1>5 DEF StoreRefused, BindType, Stages
  <2>3. TableType' BY <1>0, <1>5 DEF StoreRefused, TableType
  <2> QED BY <1>0, <2>1, <2>2, <2>3, TypePartsNext DEF DiskType, CloseType
<1> QED BY <1>1, <1>2, <1>3, <1>4, <1>5 DEF Bind

LEMMA TeardownTypes ==
  ASSUME TypeOK, NEW s \in Servers, Teardown(s) \/ TakeBinding(s) \/ HostDrops(s)
  PROVE  TypeOK'
<1> USE DEF disk, binding, asked, ends, tables, others
<1>0. DiskType /\ BindType /\ TableType /\ CloseType BY TypeParts
<1>1. CASE TakeSession(s) \/ ClearBinding(s) \/ WatcherWakes(s) \/ TakeBinding(s)
  <2>1. UNCHANGED <<disk, binding, ends, others>>
    BY <1>1 DEF TakeSession, ClearBinding, WatcherWakes, TakeBinding
  <2>2. TableType'
    BY <1>0, <1>1 DEF TakeSession, ClearBinding, WatcherWakes, TakeBinding, TableType
  <2> QED BY <1>0, <2>1, <2>2, TypePartsNext DEF DiskType, BindType, CloseType
<1>2. CASE DropSession(s) \/ HostDrops(s)
  <2>1. UNCHANGED <<disk, binding, others>> BY <1>2 DEF DropSession, HostDrops
  <2>2. TableType' /\ CloseType'
    BY <1>0, <1>2 DEF DropSession, HostDrops, TableType, CloseType
  <2> QED BY <1>0, <2>1, <2>2, TypePartsNext DEF DiskType, BindType
<1>3. CASE RemoveFile(s) \/ Unlock(s) \/ StopListening(s)
  <2>1. UNCHANGED <<ends, tables, others>> BY <1>3 DEF RemoveFile, Unlock, StopListening
  <2>2. DiskType' BY <1>0, <1>3 DEF RemoveFile, Unlock, StopListening, DiskType
  <2>3. BindType' BY <1>0, <1>3 DEF RemoveFile, Unlock, StopListening, BindType, Claims
  <2> QED BY <1>0, <2>1, <2>2, <2>3, TypePartsNext DEF TableType, CloseType
<1> QED BY <1>1, <1>2, <1>3 DEF Teardown

LEMMA IdTypes ==
  ASSUME TypeOK, NEW i \in Ids, TakeLive(i) \/ Prune(i)
  PROVE  TypeOK'
<1> USE DEF disk, binding, asked, ends, tables, others
<1>0. DiskType /\ BindType /\ TableType /\ CloseType BY TypeParts
<1>1. CASE TakeLive(i)
  <2>1. UNCHANGED <<disk, binding, ends, others>> BY <1>1 DEF TakeLive
  <2>2. TableType' BY <1>0, <1>1 DEF TakeLive, TableType
  <2> QED BY <1>0, <2>1, <2>2, TypePartsNext DEF DiskType, BindType, CloseType
<1>2. CASE Prune(i)
  <2>1. UNCHANGED <<binding, ends, tables, others>> BY <1>2 DEF Prune
  <2>2. DiskType' BY <1>0, <1>2 DEF Prune, DiskType
  <2> QED BY <1>0, <2>1, <2>2, TypePartsNext DEF BindType, TableType, CloseType
<1> QED BY <1>1, <1>2

(* A closer's record stays one as the code's steps change it.              *)
LEMMA CloseTypes ==
  ASSUME TypeOK, NEW c \in Closers, Close(c) \/ \E i \in Ids : ReadDescriptor(c, i)
  PROVE  TypeOK'
<1> USE DEF disk, binding, asked, ends, tables, others
<1>0. DiskType /\ BindType /\ TableType /\ CloseType BY TypeParts
<1>1. closer[c] \in Closer /\ closer \in [Closers -> Closer] BY <1>0 DEF CloseType
<1>2. ASSUME NEW from, NEW next \in Closer, Step(c, from, next),
             next.at \in {"read", "attached", "closing", "closed"} => next.read \in Servers,
             next.at \in {"attached", "closing", "closed"} => next.reached \in Servers
      PROVE TypeOK'
  <2>1. UNCHANGED <<disk, binding, ends, tables, alive>> BY <1>2 DEF Step
  <2>2. CloseType' BY <1>0, <1>1, <1>2 DEF Step, CloseType
  <2> QED BY <1>0, <2>1, <2>2, TypePartsNext DEF DiskType, BindType, TableType
<1>3. ASSUME NEW i \in Ids, ReadDescriptor(c, i) PROVE TypeOK'
  <2> DEFINE next == [At("read") EXCEPT !.read = descriptor[i]]
  <2>1. next \in Closer /\ next.at = "read" /\ next.read \in Servers
    BY <1>0, <1>3 DEF DiskType, At, Closer, ReadDescriptor
  <2>2. Step(c, "idle", next) BY <1>3 DEF ReadDescriptor
  <2> HIDE DEF next
  <2> QED BY <1>2, <2>1, <2>2
<1>4. ASSUME NEW s \in Servers, closer[c].at = "read", closer[c].read \in Servers,
             Step(c, "read", [closer[c] EXCEPT !.at = "attached", !.reached = s])
      PROVE  TypeOK'
  <2> DEFINE next == [closer[c] EXCEPT !.at = "attached", !.reached = s]
  <2>1. next \in Closer /\ next.read \in Servers /\ next.reached \in Servers
    BY <1>1, <1>4 DEF Closer
  <2> HIDE DEF next
  <2> QED BY <1>2, <1>4, <2>1 DEF next
<1>5. ASSUME NEW from, Step(c, from, [closer[c] EXCEPT !.at = "failed"]) PROVE TypeOK'
  <2> DEFINE next == [closer[c] EXCEPT !.at = "failed"]
  <2>1. next \in Closer /\ next.at = "failed" BY <1>1 DEF Closer
  <2> HIDE DEF next
  <2> QED BY <1>2, <1>5, <2>1 DEF next
<1>6. CASE Attach(c)
  <2>1. listening \subseteq Servers /\ (closer[c].at = "read" => closer[c].read \in Servers)
    BY <1>0 DEF BindType, CloseType
  <2> QED BY <1>4, <1>5, <1>6, <2>1 DEF Attach
<1>7. CASE CloseFails(c)
  BY <1>5, <1>7 DEF CloseFails
<1>8. CASE ServerCloses(c) \/ CloseReplies(c)
  <2>1. UNCHANGED <<disk, binding, tables, alive>> BY <1>8 DEF ServerCloses, CloseReplies
  <2>2. closer[c].read \in Servers /\ closer[c].reached \in Servers
    BY <1>0, <1>8 DEF ServerCloses, CloseReplies, CloseType
  <2>3. CloseType' BY <1>0, <1>1, <1>8, <2>2 DEF ServerCloses, CloseReplies, CloseType, Closer
  <2> QED BY <1>0, <2>1, <2>3, TypePartsNext DEF DiskType, BindType, TableType
<1> QED BY <1>3, <1>6, <1>7, <1>8 DEF Close

(* What a crash takes away.                                                *)
Kept(p, set) == {s \in set : ProcessOf[s] # p}
Without(p, names) == [i \in Ids |-> IF names[i] \in Kept(p, Servers) THEN names[i] ELSE None]
Lost(p, old, new) == [s \in Servers |-> IF ProcessOf[s] = p THEN new ELSE old[s]]

LEMMA CrashSteps ==
  ASSUME NEW p \in Processes, Crash(p)
  PROVE  /\ alive' = alive \ {p}
         /\ lock' = Without(p, lock) /\ table' = Without(p, table)
         /\ listening' = Kept(p, listening) /\ bindings' = Kept(p, bindings)
         /\ closing' = Kept(p, closing) /\ stopped' = Kept(p, stopped)
         /\ stage' = Lost(p, stage, "failed") /\ claim' = Lost(p, claim, "none")
         /\ taking' = Lost(p, taking, "no") /\ leaving' = Lost(p, leaving, "no")
         /\ UNCHANGED <<descriptor, id, browser, closer>>
  BY DEF Crash, Kept, Without, Lost, asked

LEMMA CrashTypes ==
  ASSUME TypeOK, NEW p \in Processes, Crash(p)
  PROVE  TypeOK'
<1>0. DiskType /\ BindType /\ TableType /\ CloseType BY TypeParts
<1>1. DiskType' BY <1>0, CrashSteps DEF DiskType, Without, Kept
<1>2. BindType' BY <1>0, CrashSteps DEF BindType, Lost, Kept, Stages, Claims
<1>3. TableType'
  <2>1. table' \in [Ids -> Global \cup {None}] BY <1>0, CrashSteps DEF TableType, Without
  <2>2. bindings' \subseteq Global BY <1>0, CrashSteps DEF TableType, Kept
  <2>3. taking' \in [Servers -> {"no", "due", "done"}] BY <1>0, CrashSteps DEF TableType, Lost
  <2>4. leaving' \in [Servers -> {"no", "clear", "drop", "gone"}]
    BY <1>0, CrashSteps DEF TableType, Lost
  <2> QED BY <2>1, <2>2, <2>3, <2>4 DEF TableType
<1>4. CloseType' BY <1>0, CrashSteps DEF CloseType, Kept
<1> QED BY <1>1, <1>2, <1>3, <1>4, TypePartsNext

LEMMA TypeStep == TypeOK /\ [Next]_vars => TypeOK'
<1> SUFFICES ASSUME TypeOK, [Next]_vars PROVE TypeOK' OBVIOUS
<1>1. CASE UNCHANGED vars BY <1>1 DEF vars, disk, binding, asked, ends, tables, others, TypeOK
<1>2. CASE Next BY <1>2, BindTypes, TeardownTypes, IdTypes, CloseTypes, CrashTypes DEF Next
<1> QED BY <1>1, <1>2

(* Every variable keeps its type.                                          *)
THEOREM TypeCorrect == Spec => []TypeOK
BY InitType, TypeStep, PTL DEF Spec

-----------------------------------------------------------------------------
(* A claim comes with the lock and a published one with the descriptor;    *)
(* the lock, and a descriptor of a running process, with a claim.          *)
ClaimsHold ==
  \A s \in Servers :
    /\ claim[s] # "none" => lock[id[s]] = s
    /\ claim[s] = "published" => descriptor[id[s]] = s
    /\ stage[s] \in {"claimed", "listening"} => claim[s] = "held"

LocksAreClaimed ==
  \A i \in Ids, s \in Servers : lock[i] = s => claim[s] # "none" /\ id[s] = i

FilesAreClaimed ==
  \A i \in Ids, s \in Servers : descriptor[i] = s =>
    /\ stage[s] \in Final
    /\ Runs(s) => claim[s] = "published" /\ id[s] = i

(* A session that was closed for a closer has ended, and is not coming     *)
(* back.                                                                   *)
ClosedHasEnded ==
  \A c \in Closers :
    /\ closer[c].at \in {"closing", "closed"} =>
         /\ closer[c].read = closer[c].reached
         /\ stage[closer[c].read] \in Final
    /\ closer[c].at = "closed" =>
         /\ claim[closer[c].read] = "none"
         /\ \A i \in Ids : descriptor[i] # closer[c].read

Owned == ClaimsHold /\ LocksAreClaimed /\ FilesAreClaimed

OwnInv == TypeOK /\ Owned /\ ClosedHasEnded

LEMMA InitOwned == Init => OwnInv
<1> SUFFICES ASSUME Init PROVE OwnInv OBVIOUS
<1>1. Owned BY RegistryAssumption DEF Init, Owned, ClaimsHold, LocksAreClaimed, FilesAreClaimed
<1>2. ClosedHasEnded BY DEF Init, ClosedHasEnded, At
<1> QED BY <1>1, <1>2, InitType DEF OwnInv

(* Where neither the disk nor a claim moves and no stage goes back, owners *)
(* stay owners.                                                            *)
LEMMA StillOwned ==
  ASSUME Owned, UNCHANGED <<lock, descriptor, claim, id, alive>>,
         \A s \in Servers : \/ stage'[s] = stage[s]
                            \/ stage[s] \in Final /\ stage'[s] \in Final
  PROVE  Owned'
  BY DEF Owned, ClaimsHold, LocksAreClaimed, FilesAreClaimed, Runs, Final

LEMMA BindOwned ==
  ASSUME TypeOK, Owned, NEW s \in Servers, Bind(s)
  PROVE  Owned'
<1> USE DEF Advance, Fails, disk, binding, asked, ends, tables, others
<1>0. DiskType /\ BindType BY TypeParts
<1> USE DEF DiskType, BindType
<1>1. CASE TryClaim(s)
  <2> USE DEF Owned, ClaimsHold, LocksAreClaimed, FilesAreClaimed
  <2>0. UNCHANGED <<descriptor, id, alive>> BY <1>1 DEF TryClaim
  <2>1. CASE UNCHANGED <<lock, claim>>
    <3>1. stage[s] = "idle" /\ stage' = [stage EXCEPT ![s] = "failed"]
      BY <1>0, <1>1, <2>1, Apart DEF TryClaim, Claimable
    <3> QED BY <1>0, <2>0, <2>1, <3>1 DEF Runs, Final
  <2>2. CASE Claimable(s) /\ lock' = [lock EXCEPT ![id[s]] = s] /\ claim' = [claim EXCEPT ![s] = "held"]
             /\ stage[s] = "idle" /\ stage' = [stage EXCEPT ![s] = "claimed"]
    <3>1. \A t \in Servers : claim[t] # "none" => id[t] # id[s]
      BY <1>0, <2>2, Apart DEF Claimable
    <3>2. ClaimsHold' BY <1>0, <2>0, <2>2, <3>1, Apart DEF Claimable
    <3>3. LocksAreClaimed' BY <1>0, <2>0, <2>2
    <3>4. FilesAreClaimed' BY <1>0, <2>0, <2>2 DEF Runs, Final
    <3> QED BY <3>2, <3>3, <3>4
  <2> QED BY <1>1, <2>1, <2>2 DEF TryClaim
<1>2. ASSUME NEW from \in {"claimed", "listening"}, Fails(s, from), UNCHANGED <<descriptor, id, alive>>
      PROVE  Owned'
  <2> USE DEF Owned, ClaimsHold, LocksAreClaimed, FilesAreClaimed
  <2>1. claim[s] = "held" /\ lock[id[s]] = s BY <1>2
  <2>2. \A t \in Servers : claim[t] # "none" /\ t # s => id[t] # id[s] BY <1>0, <2>1
  <2>3. ClaimsHold' BY <1>0, <1>2, <2>1, <2>2
  <2>4. LocksAreClaimed' BY <1>0, <1>2, <2>1, <2>2, Apart
  <2>5. FilesAreClaimed' BY <1>0, <1>2, <2>1 DEF Runs, Final
  <2> QED BY <2>3, <2>4, <2>5
<1>3. CASE Listen(s)
  <2>1. CASE Fails(s, "claimed") BY <1>2, <1>3, <2>1 DEF Listen
  <2>2. CASE stage[s] = "claimed" /\ stage' = [stage EXCEPT ![s] = "listening"] /\ UNCHANGED <<lock, claim>>
    BY <1>0, <1>3, <2>2 DEF Listen, Owned, ClaimsHold, LocksAreClaimed, FilesAreClaimed, Runs, Final
  <2> QED BY <1>3, <2>1, <2>2 DEF Listen
<1>4. CASE Publish(s)
  <2> USE DEF Owned, ClaimsHold, LocksAreClaimed, FilesAreClaimed
  <2>1. CASE Fails(s, "listening") /\ UNCHANGED descriptor BY <1>2, <1>4, <2>1 DEF Publish
  <2>2. CASE /\ descriptor[id[s]] = None
             /\ stage[s] = "listening" /\ stage' = [stage EXCEPT ![s] = "serving"]
             /\ descriptor' = [descriptor EXCEPT ![id[s]] = s]
             /\ claim' = [claim EXCEPT ![s] = "published"]
             /\ UNCHANGED lock
    <3>0. UNCHANGED <<id, alive>> BY <1>4 DEF Publish
    <3>1. claim[s] = "held" /\ lock[id[s]] = s BY <2>2
    <3>2. \A t \in Servers : claim[t] # "none" /\ t # s => id[t] # id[s] BY <1>0, <3>1
    <3>3. ClaimsHold' BY <1>0, <2>2, <3>0, <3>1, <3>2
    <3>4. LocksAreClaimed' BY <1>0, <2>2, <3>0, <3>1
    <3>5. FilesAreClaimed' BY <1>0, <2>2, <3>0, <3>1 DEF Runs, Final
    <3> QED BY <3>3, <3>4, <3>5
  <2> QED BY <1>4, <2>1, <2>2 DEF Publish
<1>5. CASE StoreLive(s) \/ StoreRefused(s)
  <2>1. UNCHANGED <<lock, descriptor, claim, id, alive>> BY <1>5 DEF StoreLive, StoreRefused
  <2>2. stage[s] = "serving" /\ stage' \in {[stage EXCEPT ![s] = "stored"], [stage EXCEPT ![s] = "refused"]}
    BY <1>5 DEF StoreLive, StoreRefused
  <2> QED BY <1>0, <2>1, <2>2, StillOwned DEF Final
<1> QED BY <1>1, <1>3, <1>4, <1>5 DEF Bind

LEMMA TeardownOwned ==
  ASSUME TypeOK, Owned, NEW s \in Servers, Teardown(s) \/ TakeBinding(s) \/ HostDrops(s)
  PROVE  Owned'
<1> USE DEF disk, binding, asked, ends, tables, others
<1>0. DiskType /\ BindType BY TypeParts
<1> USE DEF DiskType, BindType
<1>1. CASE \/ TakeSession(s) \/ ClearBinding(s) \/ WatcherWakes(s) \/ TakeBinding(s)
           \/ DropSession(s) \/ HostDrops(s) \/ StopListening(s)
  <2>1. UNCHANGED <<lock, descriptor, claim, id, alive, stage>>
    BY <1>1 DEF TakeSession, ClearBinding, WatcherWakes, TakeBinding, DropSession, HostDrops,
                StopListening
  <2> QED BY <2>1, StillOwned
<1>2. CASE RemoveFile(s)
  <2> USE DEF Owned, ClaimsHold, LocksAreClaimed, FilesAreClaimed, RemoveFile
  <2>1. lock[id[s]] = s /\ \A t \in Servers : claim[t] # "none" /\ t # s => id[t] # id[s]
    BY <1>0, <1>2
  <2>2. ClaimsHold' BY <1>0, <1>2, <2>1
  <2>3. LocksAreClaimed' BY <1>0, <1>2, <2>1
  <2>4. FilesAreClaimed' BY <1>0, <1>2, <2>1, Apart DEF Runs
  <2> QED BY <2>2, <2>3, <2>4
<1>3. CASE Unlock(s)
  <2> USE DEF Owned, ClaimsHold, LocksAreClaimed, FilesAreClaimed, Unlock
  <2>1. lock[id[s]] = s /\ \A t \in Servers : claim[t] # "none" /\ t # s => id[t] # id[s]
    BY <1>0, <1>3
  <2>2. ClaimsHold' BY <1>0, <1>3, <2>1
  <2>3. LocksAreClaimed' BY <1>0, <1>3, <2>1, Apart
  <2>4. FilesAreClaimed' BY <1>0, <1>3, <2>1 DEF Runs
  <2> QED BY <2>2, <2>3, <2>4
<1> QED BY <1>1, <1>2, <1>3 DEF Teardown

LEMMA PruneOwned ==
  ASSUME TypeOK, Owned, NEW i \in Ids, TakeLive(i) \/ Prune(i)
  PROVE  Owned'
<1> USE DEF disk, binding, asked, ends, tables, others
<1>0. DiskType /\ BindType BY TypeParts
<1>1. CASE TakeLive(i)
  <2>1. UNCHANGED <<lock, descriptor, claim, id, alive, stage>> BY <1>1 DEF TakeLive
  <2> QED BY <2>1, StillOwned
<1>2. CASE Prune(i)
  <2> USE DEF Prune, Owned, ClaimsHold, LocksAreClaimed, FilesAreClaimed, DiskType, BindType
  <2>1. ClaimsHold' BY <1>0, <1>2, Apart
  <2>2. LocksAreClaimed' BY <1>0, <1>2
  <2>3. FilesAreClaimed' BY <1>0, <1>2, Apart DEF Runs
  <2> QED BY <2>1, <2>2, <2>3
<1> QED BY <1>1, <1>2

LEMMA CloseOwned ==
  ASSUME Owned, NEW c \in Closers, Close(c) \/ \E i \in Ids : ReadDescriptor(c, i)
  PROVE  Owned'
<1>1. UNCHANGED <<lock, descriptor, claim, id, alive, stage>>
  BY DEF Close, ReadDescriptor, Attach, ServerCloses, CloseFails, CloseReplies, Step, disk, binding, asked
<1> QED BY <1>1, StillOwned

LEMMA CrashOwned ==
  ASSUME TypeOK, Owned, NEW p \in Processes, Crash(p)
  PROVE  Owned'
<1> USE DEF Owned, ClaimsHold, LocksAreClaimed, FilesAreClaimed, DiskType, BindType
<1>0. DiskType /\ BindType BY TypeParts
<1>1. \A s \in Servers : /\ ProcessOf[s] = p => stage'[s] = "failed" /\ claim'[s] = "none"
                         /\ ProcessOf[s] # p => stage'[s] = stage[s] /\ claim'[s] = claim[s]
  BY CrashSteps DEF Lost
<1>2. \A i \in Ids, s \in Servers : lock'[i] = s <=> lock[i] = s /\ ProcessOf[s] # p
  BY CrashSteps, Apart DEF Without, Kept
<1>3. UNCHANGED <<descriptor, id>> /\ alive' = alive \ {p} BY CrashSteps
<1>4. ClaimsHold' BY <1>0, <1>1, <1>2, <1>3
<1>5. LocksAreClaimed' BY <1>0, <1>1, <1>2, <1>3
<1>6. FilesAreClaimed' BY <1>0, <1>1, <1>3 DEF Runs, Final
<1> QED BY <1>4, <1>5, <1>6

LEMMA OwnedStep == TypeOK /\ Owned /\ [Next]_vars => Owned'
<1> SUFFICES ASSUME TypeOK, Owned, [Next]_vars PROVE Owned' OBVIOUS
<1>1. CASE UNCHANGED vars BY <1>1, StillOwned DEF vars, disk, binding, asked, ends, tables, others
<1>2. CASE Next BY <1>2, BindOwned, TeardownOwned, PruneOwned, CloseOwned, CrashOwned DEF Next
<1> QED BY <1>1, <1>2

-----------------------------------------------------------------------------
(* Once a bind is over it stays over: the server claims nothing and writes *)
(* no descriptor any more.                                                 *)
LEMMA StaysEnded ==
  ASSUME TypeOK, [Next]_vars, NEW r \in Servers, stage[r] \in Final
  PROVE  /\ stage'[r] \in Final
         /\ claim[r] = "none" => claim'[r] = "none"
         /\ \A i \in Ids : descriptor[i] # r => descriptor'[i] # r
<1> USE DEF disk, binding, asked, ends, tables, others
<1>0. DiskType /\ BindType BY TypeParts
<1> USE DEF DiskType, BindType, Final
<1>1. CASE UNCHANGED vars BY <1>1 DEF vars
<1>2. ASSUME NEW s \in Servers, TryClaim(s) \/ Listen(s) \/ Publish(s)
      PROVE  /\ stage[s] \in {"idle", "claimed", "listening"} /\ s # r
             /\ \E to \in Stages : stage' = [stage EXCEPT ![s] = to]
             /\ claim' = claim \/ \E to \in Claims : claim' = [claim EXCEPT ![s] = to]
             /\ descriptor' = descriptor \/ descriptor' = [descriptor EXCEPT ![id[s]] = s]
  BY <1>2 DEF TryClaim, Listen, Publish, Advance, Fails, Stages, Claims
<1>3. ASSUME NEW s \in Servers, StoreLive(s) \/ StoreRefused(s)
      PROVE  /\ UNCHANGED <<claim, descriptor>>
             /\ \E to \in {"stored", "refused"} : stage' = [stage EXCEPT ![s] = to]
  BY <1>3 DEF StoreLive, StoreRefused, Advance
<1>4. ASSUME NEW s \in Servers, Bind(s) PROVE
             /\ stage'[r] \in Final
             /\ claim[r] = "none" => claim'[r] = "none"
             /\ \A i \in Ids : descriptor[i] # r => descriptor'[i] # r
  <2>1. CASE TryClaim(s) \/ Listen(s) \/ Publish(s) BY <1>0, <1>2, <2>1
  <2>2. CASE StoreLive(s) \/ StoreRefused(s) BY <1>0, <1>3, <2>2
  <2> QED BY <1>4, <2>1, <2>2 DEF Bind
<1>5. ASSUME NEW s \in Servers, Teardown(s) \/ TakeBinding(s) \/ HostDrops(s) PROVE
             /\ stage' = stage
             /\ claim[r] = "none" => claim'[r] = "none"
             /\ \A i \in Ids : descriptor[i] # r => descriptor'[i] # r
  BY <1>0, <1>5, Apart DEF Teardown, TakeSession, ClearBinding, DropSession, WatcherWakes,
     RemoveFile, Unlock, StopListening, TakeBinding, HostDrops
<1>6. ASSUME NEW i \in Ids, TakeLive(i) \/ Prune(i) PROVE
             /\ UNCHANGED <<stage, claim>>
             /\ \A j \in Ids : descriptor[j] # r => descriptor'[j] # r
  BY <1>0, <1>6, Apart DEF TakeLive, Prune
<1>7. ASSUME NEW c \in Closers, Close(c) \/ \E i \in Ids : ReadDescriptor(c, i)
      PROVE  UNCHANGED <<stage, claim, descriptor>>
  BY <1>7 DEF Close, ReadDescriptor, Attach, ServerCloses, CloseFails, CloseReplies, Step
<1>8. ASSUME NEW p \in Processes, Crash(p)
      PROVE  /\ stage'[r] \in {stage[r], "failed"} /\ claim'[r] \in {claim[r], "none"}
             /\ UNCHANGED descriptor
  BY <1>8, CrashSteps DEF Lost
<1> QED BY <1>1, <1>4, <1>5, <1>6, <1>7, <1>8 DEF Next

LEMMA ClosedStep == OwnInv /\ [Next]_vars => ClosedHasEnded'
<1> SUFFICES ASSUME OwnInv, [Next]_vars PROVE ClosedHasEnded' OBVIOUS
<1>0. TypeOK /\ Owned /\ ClosedHasEnded /\ CloseType /\ DiskType BY TypeParts DEF OwnInv
<1>1. CASE UNCHANGED closer
  <2> SUFFICES ASSUME NEW c \in Closers, closer[c].at \in {"closing", "closed"}
               PROVE  /\ stage'[closer[c].read] \in Final
                      /\ closer[c].at = "closed" =>
                           /\ claim'[closer[c].read] = "none"
                           /\ \A i \in Ids : descriptor'[i] # closer[c].read
    BY <1>0, <1>1 DEF ClosedHasEnded
  <2>1. closer[c].read \in Servers /\ stage[closer[c].read] \in Final
    BY <1>0 DEF CloseType, ClosedHasEnded
  <2> QED BY <1>0, <2>1, StaysEnded DEF ClosedHasEnded
<1>2. ASSUME NEW c \in Closers, NEW from, NEW next, Step(c, from, next),
             next.at \notin {"closing", "closed"}
      PROVE  ClosedHasEnded'
  <2>1. UNCHANGED <<stage, claim, descriptor>> BY <1>2 DEF Step, disk, binding, asked
  <2>2. closer' = [closer EXCEPT ![c] = next] BY <1>2 DEF Step
  <2> QED BY <1>0, <1>2, <2>1, <2>2 DEF CloseType, ClosedHasEnded
<1>3. ASSUME NEW c \in Closers, NEW i \in Ids, ReadDescriptor(c, i) PROVE ClosedHasEnded'
  <2> DEFINE next == [At("read") EXCEPT !.read = descriptor[i]]
  <2>1. next.at = "read" BY DEF At
  <2>2. Step(c, "idle", next) BY <1>3 DEF ReadDescriptor
  <2> HIDE DEF next
  <2> QED BY <1>2, <2>1, <2>2
<1>4. ASSUME NEW c \in Closers, Attach(c) \/ CloseFails(c) PROVE ClosedHasEnded'
  <2>1. closer[c] \in Closer BY <1>0 DEF CloseType
  <2>2. [closer[c] EXCEPT !.at = "failed"].at = "failed" BY <2>1 DEF Closer
  <2>3. \A s : [closer[c] EXCEPT !.at = "attached", !.reached = s].at = "attached"
    BY <2>1 DEF Closer
  <2> QED BY <1>2, <1>4, <2>2, <2>3 DEF Attach, CloseFails
<1>5. ASSUME NEW c \in Closers, ServerCloses(c) PROVE ClosedHasEnded'
  <2>1. UNCHANGED <<stage, claim, descriptor>> BY <1>5 DEF ServerCloses, disk, binding, asked
  <2>2. closer' = [closer EXCEPT ![c].at = "closing"]
        /\ closer[c].read = closer[c].reached /\ stage[closer[c].reached] \in Final
    BY <1>5 DEF ServerCloses, Identifies, Final
  <2>3. closer[c] \in Closer BY <1>0 DEF CloseType
  <2> QED BY <1>0, <2>1, <2>2, <2>3 DEF CloseType, Closer, ClosedHasEnded
<1>6. ASSUME NEW c \in Closers, CloseReplies(c) PROVE ClosedHasEnded'
  <2>1. UNCHANGED <<stage, claim, descriptor>> BY <1>6 DEF CloseReplies, disk, binding, asked
  <2>2. closer' = [closer EXCEPT ![c].at = "closed"] /\ closer[c].at = "closing"
        /\ Runs(closer[c].reached) /\ claim[closer[c].reached] = "none"
    BY <1>6 DEF CloseReplies
  <2>3. closer[c] \in Closer /\ closer[c].read \in Servers /\ closer[c].read = closer[c].reached
        /\ stage[closer[c].read] \in Final
    BY <1>0, <2>2 DEF CloseType, ClosedHasEnded
  <2>4. \A i \in Ids : descriptor[i] # closer[c].read
    BY <1>0, <2>2, <2>3 DEF Owned, FilesAreClaimed
  <2> QED BY <1>0, <2>1, <2>2, <2>3, <2>4 DEF CloseType, Closer, ClosedHasEnded
<1>7. ASSUME NEW s \in Servers, Bind(s) \/ Teardown(s) \/ TakeBinding(s) \/ HostDrops(s)
      PROVE  UNCHANGED closer
  BY <1>7 DEF Bind, TryClaim, Listen, Publish, StoreLive, StoreRefused, Teardown, TakeSession,
     ClearBinding, DropSession, WatcherWakes, RemoveFile, Unlock, StopListening, TakeBinding,
     HostDrops, others
<1>8. ASSUME NEW i \in Ids, TakeLive(i) \/ Prune(i) PROVE UNCHANGED closer
  BY <1>8 DEF TakeLive, Prune, others
<1>9. ASSUME NEW p \in Processes, Crash(p) PROVE UNCHANGED closer
  BY <1>9 DEF Crash
<1>10. CASE UNCHANGED vars BY <1>1, <1>10 DEF vars, others
<1> QED BY <1>1, <1>3, <1>4, <1>5, <1>6, <1>7, <1>8, <1>9, <1>10 DEF Next, Close

LEMMA OwnInvariance == Spec => []OwnInv
<1>1. OwnInv /\ [Next]_vars => OwnInv'
  BY TypeStep, OwnedStep, ClosedStep DEF OwnInv
<1> QED BY <1>1, InitOwned, PTL DEF Spec

(* While its process runs, a published session keeps its descriptor and    *)
(* its lock, whatever binds, unbinds, prunes or crashes around it.         *)
THEOREM OwnersKeep == Spec => []OwnersKeepTheirDescriptor
<1>1. OwnInv => OwnersKeepTheirDescriptor
  BY DEF OwnInv, Owned, ClaimsHold, OwnersKeepTheirDescriptor
<1> QED BY <1>1, OwnInvariance, PTL

(* A session that is reported closed has released its id.                  *)
THEOREM Released == Spec => []ClosedMeansReleased
<1>1. OwnInv => ClosedMeansReleased
  <2> SUFFICES ASSUME OwnInv, NEW c \in Closers, closer[c].at = "closed"
               PROVE  /\ descriptor[id[closer[c].read]] # closer[c].read
                      /\ lock[id[closer[c].read]] # closer[c].read
    BY DEF ClosedMeansReleased
  <2>1. closer[c].read \in Servers /\ id[closer[c].read] \in Ids
    BY TypeParts DEF OwnInv, CloseType, BindType
  <2> QED BY <2>1 DEF OwnInv, Owned, LocksAreClaimed, ClosedHasEnded
<1> QED BY <1>1, OwnInvariance, PTL

(* A close only ever begins at the session its descriptor named.           *)
THEOREM HitsItsTarget == Spec => CloseHitsItsTarget
<1>1. [Next]_vars => [\A s \in closing' \ closing : \E c \in Closers : closer[c].read = s]_vars
  <2> SUFFICES ASSUME [Next]_vars, NEW s \in closing' \ closing
               PROVE  \E c \in Closers : closer[c].read = s
    OBVIOUS
  <2>1. PICK c \in Closers : ServerCloses(c)
    BY DEF Next, Bind, TryClaim, Listen, Publish, StoreLive, StoreRefused, Teardown, TakeSession,
       ClearBinding, DropSession, WatcherWakes, RemoveFile, Unlock, StopListening, TakeBinding,
       HostDrops, TakeLive, Prune, Close, ReadDescriptor, Attach, CloseFails, CloseReplies, Step,
       Crash, ends, vars
  <2> QED BY <2>1 DEF ServerCloses, Identifies
<1> QED BY <1>1, PTL DEF Spec, CloseHitsItsTarget

-----------------------------------------------------------------------------
(* The tables.  They point to sessions that were stored, and a session that *)
(* is live and nobody is about to take out of them is in both.             *)
Live(s) ==
  /\ stage[s] = "stored" /\ s \notin closing \cup stopped
  /\ taking[s] = "no" /\ leaving[s] = "no" /\ Runs(s)

LiveIsTabled == \A s \in Global : Live(s) => table[id[s]] = s /\ s \in bindings

Pointed == \A i \in Ids : table[i] # None => stage[table[i]] = "stored" /\ id[table[i]] = i

(* A server has its claim until it closes or stops.  One that was not      *)
(* stored yet is in no table to be taken from, and stops only by a close.  *)
Unstored == {"idle", "claimed", "listening", "serving"}

ServingOwns ==
  \A s \in Servers :
    /\ stage[s] \in {"serving", "stored", "refused"} /\ Runs(s) /\ s \notin closing \cup stopped
         => claim[s] = "published"
    /\ s \in Global /\ stage[s] \in Unstored => leaving[s] = "no" /\ (s \in stopped => s \in closing)

CloserCloses ==
  \A c \in Closers : closer[c].at = "closing" /\ Runs(closer[c].reached) => closer[c].reached \in closing

Tabled == LiveIsTabled /\ Pointed /\ ServingOwns /\ CloserCloses

LEMMA InitTabled == Init => Tabled
<1> SUFFICES ASSUME Init PROVE Tabled OBVIOUS
<1>1. LiveIsTabled /\ Pointed BY Apart DEF Init, LiveIsTabled, Live, Pointed
<1>2. ServingOwns /\ CloserCloses BY Apart DEF Init, ServingOwns, CloserCloses, At
<1> QED BY <1>1, <1>2 DEF Tabled

(* A session that is stored replaces nobody who is live, unless it was     *)
(* closed before.                                                          *)
LEMMA StoresAside ==
  ASSUME TypeOK, Owned, Tabled, NEW t \in Servers, StoreLive(t), ~LateStore,
         NEW s \in Global, Live(s)
  PROVE  table'[id[s]] = s /\ s \in bindings'
<1>0. DiskType /\ BindType /\ TableType /\ CloseType BY TypeParts
<1>1. t \in Global /\ Runs(t) /\ stage[t] = "serving" /\ t \notin closing /\ s \in Servers
  <2>1. t \in Global /\ Runs(t) /\ stage[t] = "serving" /\ s \in Servers
    BY Apart DEF StoreLive, Advance
  <2>2. t \notin closing BY DEF LateStore
  <2> QED BY <2>1, <2>2
<1>2. claim[t] = "published" /\ claim[s] = "published"
  <2>1. t \notin stopped BY <1>1 DEF Tabled, ServingOwns, Unstored
  <2> QED BY <1>1, <2>1 DEF Tabled, ServingOwns, Live
<1>3. s # t BY <1>1 DEF Live
<1>4. id[s] # id[t]
  BY <1>1, <1>2, <1>3 DEF Owned, ClaimsHold
<1>5. table[id[s]] = s /\ s \in bindings BY DEF Tabled, LiveIsTabled
<1>6. table' = [table EXCEPT ![id[t]] = t]
  BY DEF StoreLive
<1>7. table'[id[s]] = s BY <1>0, <1>1, <1>4, <1>5, <1>6 DEF TableType, BindType
<1>8. s \notin ByBrowser(t) BY DEF StoreLive, BrowserTaken, ByBrowser, Live
<1>9. table[id[t]] # s
  <2>1. id[t] \in Ids /\ s # None BY <1>0, <1>1, Apart DEF BindType
  <2> QED BY <1>4, <2>1 DEF Tabled, Pointed
<1>10. s \in bindings' BY <1>5, <1>8, <1>9 DEF StoreLive
<1> QED BY <1>7, <1>10

(* Who is live after a step was live before it, or has just been stored.   *)
LEMMA StoreTabled ==
  ASSUME TypeOK, Owned, Tabled, NEW t \in Servers, StoreLive(t)
  PROVE  Tabled'
<1> USE DEF Advance, disk, binding, asked, ends, tables, others
<1>0. DiskType /\ BindType /\ TableType /\ CloseType BY TypeParts
<1>1. /\ t \in Global /\ stage[t] = "serving" /\ Runs(t)
      /\ stage' = [stage EXCEPT ![t] = "stored"] /\ table' = [table EXCEPT ![id[t]] = t]
      /\ bindings' = ((bindings \ ByBrowser(t)) \ {table[id[t]]}) \cup {t}
      /\ leaving' = IF table[id[t]] = None THEN leaving ELSE [leaving EXCEPT ![table[id[t]]] = "drop"]
      /\ UNCHANGED <<lock, descriptor, id, claim, closing, stopped, taking, closer, alive>>
      /\ ~BrowserTaken(t)
  BY DEF StoreLive
<1>2. id[t] \in Ids BY <1>0 DEF BindType
<1>3. ASSUME NEW s \in Global, Live(s)'
      PROVE  table'[id'[s]] = s /\ s \in bindings'
  <2>1. CASE s = t BY <1>0, <1>1, <1>2, <2>1 DEF TableType
  <2>2. CASE s # t
    <3>0. s \in Servers /\ id[s] \in Ids BY <1>0, Apart DEF BindType
    <3>1. table[id[t]] # s
      <4>1. table[id[t]] = s => leaving'[s] = "drop"
        BY <1>0, <1>1, <3>0, Apart DEF TableType
      <4> QED BY <4>1, <1>3 DEF Live
    <3>2. leaving[s] = "no"
      BY <1>0, <1>1, <1>3, <3>0, <3>1 DEF TableType, Live
    <3>3. Live(s)
      BY <1>0, <1>1, <1>3, <2>2, <3>0, <3>2 DEF Live, BindType, Runs
    <3>4. table[id[s]] = s /\ s \in bindings BY <3>3 DEF Tabled, LiveIsTabled
    <3>5. id[s] # id[t] BY <3>1, <3>4
    <3>6. s \notin ByBrowser(t) BY <1>1, <3>3 DEF BrowserTaken, ByBrowser, Live
    <3> QED BY <1>0, <1>1, <1>2, <3>0, <3>1, <3>4, <3>5, <3>6 DEF TableType
  <2> QED BY <2>1, <2>2
<1>4. LiveIsTabled' BY <1>3 DEF LiveIsTabled
<1>5. Pointed'
  BY <1>0, <1>1, <1>2, Apart DEF Tabled, Pointed, TableType, BindType
<1>6. ServingOwns'
  <2> SUFFICES ASSUME NEW s \in Servers
               PROVE  /\ stage'[s] \in {"serving", "stored", "refused"} /\ Runs(s)'
                           /\ s \notin (closing \cup stopped)' => claim'[s] = "published"
                      /\ s \in Global /\ stage'[s] \in Unstored
                           => leaving'[s] = "no" /\ (s \in stopped' => s \in closing')
    BY DEF ServingOwns
  <2>1. stage'[s] \in {"serving", "stored", "refused"} => stage[s] \in {"serving", "stored", "refused"}
    BY <1>0, <1>1 DEF BindType
  <2>2. stage'[s] \in Unstored => stage[s] \in Unstored /\ table[id[t]] # s
    BY <1>0, <1>1, <1>2, Apart DEF BindType, Tabled, Pointed, Unstored
  <2>3. table[id[t]] # s => leaving'[s] = leaving[s]
    BY <1>0, <1>1 DEF TableType
  <2> QED BY <1>1, <2>1, <2>2, <2>3 DEF Tabled, ServingOwns, Runs
<1>7. CloserCloses' BY <1>1 DEF Tabled, CloserCloses, Runs
<1> QED BY <1>4, <1>5, <1>6, <1>7 DEF Tabled

(* Where the tables stand and nobody is stored, what a session needs to be *)
(* live is not given to it.                                                *)
LEMMA StillTabled ==
  ASSUME Tabled, UNCHANGED <<table, bindings, id>>,
         \A s \in Servers : stage[s] = "stored" => stage'[s] = "stored",
         \A i \in Ids : table[i] # None => table[i] \in Servers,
         \A s \in Global : Live(s)' => Live(s)
  PROVE  LiveIsTabled' /\ Pointed'
<1>1. LiveIsTabled' BY DEF Tabled, LiveIsTabled
<1>2. Pointed' 
  BY DEF Tabled, Pointed
<1> QED BY <1>1, <1>2

LEMMA BindTabled ==
  ASSUME TypeOK, Owned, Tabled, NEW t \in Servers, Bind(t)
  PROVE  Tabled'
<1> USE DEF Advance, Fails, disk, binding, asked, ends, tables, others
<1>0. DiskType /\ BindType /\ TableType /\ CloseType BY TypeParts
<1>1. CASE StoreLive(t) BY <1>1, StoreTabled
<1>2. CASE TryClaim(t) \/ Listen(t) \/ Publish(t) \/ StoreRefused(t)
  <2>1. /\ UNCHANGED <<table, bindings, id, closing, stopped, taking, closer, alive>>
        /\ \E y \in Stages \ {"stored"} : stage[t] # "stored" /\ stage' = [stage EXCEPT ![t] = y]
        /\ stage[t] \in Unstored
        /\ leaving' = leaving \/ (stage'[t] = "refused" /\ leaving' = [leaving EXCEPT ![t] = "drop"])
    BY <1>0, <1>2 DEF TryClaim, Listen, Publish, StoreRefused, BindType, Stages, Unstored
  <2>2. \A s \in Servers : s # t => stage'[s] = stage[s] /\ claim'[s] = claim[s] /\ leaving'[s] = leaving[s]
    BY <1>0, <1>2 DEF TryClaim, Listen, Publish, StoreRefused, BindType, TableType
  <2>3. stage'[t] \in {"serving", "stored", "refused"} =>
          claim'[t] = "published" \/ (stage[t] = "serving" /\ claim' = claim)
    BY <1>0, <1>2 DEF TryClaim, Listen, Publish, StoreRefused, BindType
  <2>4. stage'[t] # "stored" BY <1>0, <2>1 DEF BindType
  <2>5. LiveIsTabled' /\ Pointed'
    <3>1. \A s \in Global : Live(s)' => Live(s)
      BY <2>1, <2>2, <2>4, Apart DEF Live, Runs
    <3>2. \A s \in Servers : stage[s] = "stored" => stage'[s] = "stored"
      BY <2>1, <2>2
    <3>3. \A i \in Ids : table[i] # None => table[i] \in Servers BY <1>0, Apart DEF TableType
    <3> QED BY <2>1, <3>1, <3>2, <3>3, StillTabled
  <2>6. ServingOwns'
    <3> SUFFICES ASSUME NEW s \in Servers
                 PROVE  /\ stage'[s] \in {"serving", "stored", "refused"} /\ Runs(s)'
                             /\ s \notin (closing \cup stopped)' => claim'[s] = "published"
                        /\ s \in Global /\ stage'[s] \in Unstored
                             => leaving'[s] = "no" /\ (s \in stopped' => s \in closing')
      BY DEF ServingOwns
    <3>1. CASE s # t BY <2>1, <2>2, <3>1 DEF Tabled, ServingOwns, Runs
    <3>2. CASE s = t
      <4>1. stage'[t] \in Unstored => leaving' = leaving BY <2>1 DEF Unstored
      <4> QED BY <2>1, <2>3, <3>2, <4>1 DEF Tabled, ServingOwns, Runs
    <3> QED BY <3>1, <3>2
  <2>7. CloserCloses' BY <2>1 DEF Tabled, CloserCloses, Runs
  <2> QED BY <2>5, <2>6, <2>7 DEF Tabled
<1> QED BY <1>1, <1>2 DEF Bind

(* Where neither stage, claim nor leaving moves but to "clear", "drop" or  *)
(* "gone", and only what was stored is stopped or left, servers own.       *)
LEMMA StillServing ==
  ASSUME Tabled, UNCHANGED <<stage, alive>>, closing \subseteq closing',
         stopped \subseteq stopped',
         \A s \in Servers : claim'[s] = claim[s] \/ s \in closing' \cup stopped',
         \A s \in Global : stage[s] \in Unstored =>
           leaving'[s] = leaving[s] /\ (s \in stopped' => s \in stopped \cup closing')
  PROVE  ServingOwns'
<1> SUFFICES ASSUME NEW s \in Servers
             PROVE  /\ stage'[s] \in {"serving", "stored", "refused"} /\ Runs(s)'
                         /\ s \notin (closing \cup stopped)' => claim'[s] = "published"
                    /\ s \in Global /\ stage'[s] \in Unstored
                         => leaving'[s] = "no" /\ (s \in stopped' => s \in closing')
  BY DEF ServingOwns
<1> QED BY DEF Tabled, ServingOwns, Runs

LEMMA IdTabled ==
  ASSUME TypeOK, Owned, Tabled, NEW i \in Ids, TakeLive(i) \/ Prune(i)
  PROVE  Tabled'
<1> USE DEF disk, binding, asked, ends, tables, others
<1>0. DiskType /\ BindType /\ TableType /\ CloseType BY TypeParts
<1>1. CASE TakeLive(i)
  <2>1. /\ UNCHANGED <<stage, claim, id, bindings, closing, stopped, taking, closer, alive>>
        /\ table' = [table EXCEPT ![i] = None]
        /\ leaving' = [leaving EXCEPT ![table[i]] = "clear"]
        /\ table[i] \in Global /\ table[i] \in Servers
    BY <1>0, <1>1, Apart DEF TakeLive, TableType
  <2>2. stage[table[i]] = "stored" /\ id[table[i]] = i BY <2>1, Apart DEF Tabled, Pointed
  <2>3. \A s \in Global : Live(s)' => Live(s) /\ s # table[i]
    BY <1>0, <2>1, Apart DEF Live, Runs, TableType
  <2>4. LiveIsTabled'
    <3> SUFFICES ASSUME NEW s \in Global, Live(s)' PROVE table'[id'[s]] = s /\ s \in bindings'
      BY DEF LiveIsTabled
    <3>1. table[id[s]] = s /\ s \in bindings /\ s # table[i] BY <2>3 DEF Tabled, LiveIsTabled
    <3>2. id[s] \in Ids BY <1>0, Apart DEF BindType
    <3> QED BY <1>0, <2>1, <3>1, <3>2 DEF TableType
  <2>5. Pointed' BY <1>0, <2>1 DEF Tabled, Pointed, TableType
  <2>6. \A s \in Servers : s # table[i] => leaving'[s] = leaving[s] BY <1>0, <2>1 DEF TableType
  <2>7. ServingOwns'
    BY <2>1, <2>2, <2>6, Apart, StillServing DEF Unstored
  <2>8. CloserCloses' BY <2>1 DEF Tabled, CloserCloses, Runs
  <2> QED BY <2>4, <2>5, <2>7, <2>8 DEF Tabled
<1>2. CASE Prune(i)
  <2>1. UNCHANGED <<stage, claim, id, tables, closing, stopped, closer, alive>> BY <1>2 DEF Prune
  <2> QED BY <2>1 DEF Tabled, LiveIsTabled, Live, Pointed, ServingOwns, CloserCloses, Runs
<1> QED BY <1>1, <1>2

LEMMA TeardownTabled ==
  ASSUME TypeOK, Owned, Tabled, NEW t \in Servers, Teardown(t) \/ TakeBinding(t) \/ HostDrops(t)
  PROVE  Tabled'
<1> USE DEF disk, binding, asked, ends, tables, others
<1>0. DiskType /\ BindType /\ TableType /\ CloseType BY TypeParts
<1>1. CASE TakeSession(t)
  <2>1. /\ UNCHANGED <<stage, claim, id, bindings, closing, stopped, closer, alive>>
        /\ taking[t] = "due" /\ taking' = [taking EXCEPT ![t] = "done"]
        /\ \/ /\ table[id[t]] = t
              /\ table' = [table EXCEPT ![id[t]] = None]
              /\ leaving' = [leaving EXCEPT ![t] = "clear"]
           \/ table[id[t]] # t /\ UNCHANGED <<table, leaving>>
    BY <1>1 DEF TakeSession, SameServer
  <2>2. id[t] \in Ids BY <1>0 DEF BindType
  <2>3. \A s \in Servers : s # t => taking'[s] = taking[s] /\ leaving'[s] = leaving[s]
    BY <1>0, <2>1 DEF TableType
  <2>4. taking'[t] = "done" BY <1>0, <2>1 DEF TableType
  <2>5. \A s \in Global : Live(s)' => Live(s) /\ s # t
    BY <2>1, <2>3, <2>4, Apart DEF Live, Runs
  <2>6. LiveIsTabled'
    <3> SUFFICES ASSUME NEW s \in Global, Live(s)' PROVE table'[id'[s]] = s /\ s \in bindings'
      BY DEF LiveIsTabled
    <3>1. table[id[s]] = s /\ s \in bindings /\ s # t BY <2>5 DEF Tabled, LiveIsTabled
    <3>2. id[s] \in Ids BY <1>0, Apart DEF BindType
    <3> QED BY <1>0, <2>1, <2>2, <3>1, <3>2 DEF TableType
  <2>7. Pointed' BY <1>0, <2>1, <2>2 DEF Tabled, Pointed, TableType
  <2>8. leaving'[t] = leaving[t] \/ stage[t] = "stored"
    BY <2>1, <2>2, Apart DEF Tabled, Pointed
  <2>9. ServingOwns' BY <2>1, <2>3, <2>8, Apart, StillServing DEF Unstored
  <2>10. CloserCloses' BY <2>1 DEF Tabled, CloserCloses, Runs
  <2> QED BY <2>6, <2>7, <2>9, <2>10 DEF Tabled
<1>2. CASE ClearBinding(t) \/ TakeBinding(t)
  <2>1. /\ UNCHANGED <<stage, claim, id, table, closing, stopped, closer, alive>>
        /\ bindings' = bindings \ {t}
        /\ \/ taking' = taking /\ leaving[t] = "clear" /\ leaving' = [leaving EXCEPT ![t] = "drop"]
           \/ /\ leaving' = leaving
              /\ taking' = [taking EXCEPT ![t] = IF @ = "no" THEN "due" ELSE @]
    BY <1>2 DEF ClearBinding, TakeBinding
  <2>2. \A s \in Servers : s # t => taking'[s] = taking[s] /\ leaving'[s] = leaving[s]
    BY <1>0, <2>1 DEF TableType
  <2>3. taking'[t] # "no" \/ leaving'[t] # "no"
    BY <1>0, <2>1 DEF TableType
  <2>4. LiveIsTabled'
    <3> SUFFICES ASSUME NEW s \in Global, Live(s)' PROVE table'[id'[s]] = s /\ s \in bindings'
      BY DEF LiveIsTabled
    <3>1. s # t BY <2>3 DEF Live
    <3>2. Live(s) BY <2>1, <2>2, <3>1, Apart DEF Live, Runs
    <3> QED BY <2>1, <3>1, <3>2 DEF Tabled, LiveIsTabled
  <2>5. Pointed' BY <2>1 DEF Tabled, Pointed
  <2>6. ServingOwns'
    <3>1. leaving'[t] = leaving[t] \/ leaving[t] = "clear" BY <2>1
    <3>2. t \in Global /\ stage[t] \in Unstored => leaving'[t] = leaving[t]
      BY <3>1 DEF Tabled, ServingOwns
    <3> QED BY <2>1, <2>2, <3>2, Apart, StillServing
  <2>7. CloserCloses' BY <2>1 DEF Tabled, CloserCloses, Runs
  <2> QED BY <2>4, <2>5, <2>6, <2>7 DEF Tabled
<1>3. CASE DropSession(t) \/ HostDrops(t)
  <2>1. /\ UNCHANGED <<stage, claim, id, table, bindings, taking, closing, closer, alive>>
        /\ stopped' = stopped \cup {t}
        /\ \/ leaving[t] = "drop" /\ leaving' = [leaving EXCEPT ![t] = "gone"]
           \/ t \notin Global /\ leaving' = leaving
    BY <1>3 DEF DropSession, HostDrops
  <2>2. \A s \in Servers : s # t => leaving'[s] = leaving[s] BY <1>0, <2>1 DEF TableType
  <2>3. \A i \in Ids : table[i] # None => table[i] \in Servers BY <1>0, Apart DEF TableType
  <2>4. \A s \in Global : Live(s)' => Live(s)
    <3> SUFFICES ASSUME NEW s \in Global, Live(s)' PROVE Live(s) OBVIOUS
    <3>1. s # t BY <2>1 DEF Live
    <3> QED BY <2>1, <2>2, <3>1, Apart DEF Live, Runs
  <2>5. LiveIsTabled' /\ Pointed' BY <2>1, <2>3, <2>4, StillTabled
  <2>6. ServingOwns'
    <3>1. ~(t \in Global /\ stage[t] \in Unstored) BY <2>1 DEF Tabled, ServingOwns
    <3> QED BY <2>1, <2>2, <3>1, Apart, StillServing
  <2>7. CloserCloses' BY <2>1 DEF Tabled, CloserCloses, Runs
  <2> QED BY <2>5, <2>6, <2>7 DEF Tabled
<1>4. CASE WatcherWakes(t)
  <2>1. UNCHANGED <<stage, claim, id, table, bindings, closing, stopped, leaving, closer, alive>>
    BY <1>4 DEF WatcherWakes
  <2>2. \A s \in Global : Live(s)' => Live(s)
    BY <1>0, <1>4, <2>1, Apart DEF WatcherWakes, Live, Runs, TableType
  <2>3. \A i \in Ids : table[i] # None => table[i] \in Servers BY <1>0, Apart DEF TableType
  <2>4. LiveIsTabled' /\ Pointed' BY <2>1, <2>2, <2>3, StillTabled
  <2> QED BY <2>1, <2>4 DEF Tabled, ServingOwns, CloserCloses, Runs
<1>5. CASE RemoveFile(t) \/ Unlock(t) \/ StopListening(t)
  <2>1. UNCHANGED <<stage, id, table, bindings, taking, leaving, closing, stopped, closer, alive>>
    BY <1>5 DEF RemoveFile, Unlock, StopListening
  <2>2. \A s \in Servers : s # t => claim'[s] = claim[s]
    BY <1>0, <1>5 DEF RemoveFile, Unlock, StopListening, BindType
  <2>3. claim'[t] = claim[t] \/ t \in closing \cup stopped
          \/ (claim[t] = "removed" /\ Runs(t))
    BY <1>5 DEF RemoveFile, Unlock, StopListening
  <2>4. ServingOwns'
    <3> SUFFICES ASSUME NEW s \in Servers, stage[s] \in {"serving", "stored", "refused"}, Runs(s),
                        s \notin closing \cup stopped
                 PROVE  claim'[s] = "published"
      BY <2>1 DEF Tabled, ServingOwns, Runs
    <3>1. claim[s] = "published" BY DEF Tabled, ServingOwns
    <3> QED BY <2>2, <2>3, <3>1
  <2> QED BY <2>1, <2>4 DEF Tabled, LiveIsTabled, Live, Pointed, CloserCloses, Runs
<1> QED BY <1>1, <1>2, <1>3, <1>4, <1>5 DEF Teardown

LEMMA CloseTabled ==
  ASSUME TypeOK, Owned, Tabled, NEW c \in Closers, Close(c) \/ \E i \in Ids : ReadDescriptor(c, i)
  PROVE  Tabled'
<1> USE DEF disk, binding, asked, ends, tables, others, Step
<1>0. DiskType /\ BindType /\ TableType /\ CloseType BY TypeParts
<1>1. CASE Attach(c) \/ CloseFails(c) \/ \E i \in Ids : ReadDescriptor(c, i)
  <2>1. UNCHANGED <<stage, claim, id, table, bindings, taking, leaving, closing, stopped, alive>>
    BY <1>1 DEF Attach, CloseFails, ReadDescriptor
  <2>2. \A d \in Closers : closer'[d].at = "closing" => closer'[d] = closer[d]
    BY <1>0, <1>1 DEF Attach, CloseFails, ReadDescriptor, CloseType, Closer, At
  <2>3. CloserCloses' BY <2>1, <2>2 DEF Tabled, CloserCloses, Runs
  <2> QED BY <2>1, <2>3 DEF Tabled, LiveIsTabled, Live, Pointed, ServingOwns, Runs
<1>2. CASE ServerCloses(c) \/ CloseReplies(c)
  <2>1. /\ UNCHANGED <<stage, claim, id, table, bindings, taking, leaving, alive>>
        /\ closer[c].reached \in Servers
        /\ \/ /\ closing' = closing \cup {closer[c].reached} /\ stopped' = stopped
              /\ closer' = [closer EXCEPT ![c].at = "closing"]
           \/ /\ stopped' = stopped \cup {closer[c].reached} /\ closing' = closing
              /\ closer[c].at = "closing" /\ Runs(closer[c].reached)
              /\ closer' = [closer EXCEPT ![c].at = "closed"]
    BY <1>0, <1>2 DEF ServerCloses, CloseReplies, CloseType
  <2>2. \A d \in Closers : d # c => closer'[d] = closer[d]
    BY <1>0, <2>1 DEF CloseType
  <2>3. /\ closer'[c].reached = closer[c].reached
        /\ closer'[c].at = "closing" => closer[c].reached \in closing'
    BY <1>0, <2>1 DEF CloseType, Closer
  <2>4. CloserCloses' BY <2>1, <2>2, <2>3 DEF Tabled, CloserCloses, Runs
  <2>5. \A s \in Global : Live(s)' => Live(s) BY <2>1 DEF Live, Runs
  <2>6. \A i \in Ids : table[i] # None => table[i] \in Servers BY <1>0, Apart DEF TableType
  <2>7. LiveIsTabled' /\ Pointed' BY <2>1, <2>5, <2>6, StillTabled
  <2>8. \A s \in stopped' : s \in stopped \cup closing' BY <2>1 DEF Tabled, CloserCloses
  <2>9. ServingOwns' BY <2>1, <2>8, Apart, StillServing
  <2> QED BY <2>4, <2>7, <2>9 DEF Tabled
<1> QED BY <1>1, <1>2 DEF Close

LEMMA CrashTabled ==
  ASSUME TypeOK, Owned, Tabled, NEW p \in Processes, Crash(p)
  PROVE  Tabled'
<1>0. DiskType /\ BindType /\ TableType /\ CloseType BY TypeParts
<1>1. UNCHANGED <<id, closer>> /\ alive' = alive \ {p} BY CrashSteps
<1>2. \A s \in Servers : ProcessOf[s] # p =>
        /\ stage'[s] = stage[s] /\ claim'[s] = claim[s]
        /\ taking'[s] = taking[s] /\ leaving'[s] = leaving[s]
        /\ s \in closing' <=> s \in closing
        /\ s \in stopped' <=> s \in stopped
        /\ s \in bindings' <=> s \in bindings
  BY CrashSteps DEF Lost, Kept
<1>3. \A s \in Servers : ProcessOf[s] = p => stage'[s] = "failed"
  BY CrashSteps DEF Lost
<1>4. \A i \in Ids : /\ table'[i] # None => table'[i] = table[i] /\ table[i] \in Servers
                              /\ ProcessOf[table[i]] # p
                     /\ table[i] \in Servers /\ ProcessOf[table[i]] # p => table'[i] = table[i]
  BY CrashSteps DEF Without, Kept
<1>5. LiveIsTabled'
  <2> SUFFICES ASSUME NEW s \in Global, Live(s)' PROVE table'[id'[s]] = s /\ s \in bindings'
    BY DEF LiveIsTabled
  <2>1. s \in Servers /\ id[s] \in Ids BY <1>0, Apart DEF BindType
  <2>2. ProcessOf[s] # p BY <1>1 DEF Live, Runs
  <2>3. Live(s) BY <1>1, <1>2, <2>1, <2>2 DEF Live, Runs
  <2> QED BY <1>1, <1>2, <1>4, <2>1, <2>2, <2>3 DEF Tabled, LiveIsTabled
<1>6. Pointed' BY <1>1, <1>2, <1>4 DEF Tabled, Pointed
<1>7. ServingOwns'
  <2> SUFFICES ASSUME NEW s \in Servers
               PROVE  /\ stage'[s] \in {"serving", "stored", "refused"} /\ Runs(s)'
                           /\ s \notin (closing \cup stopped)' => claim'[s] = "published"
                      /\ s \in Global /\ stage'[s] \in Unstored
                           => leaving'[s] = "no" /\ (s \in stopped' => s \in closing')
    BY DEF ServingOwns
  <2>1. CASE ProcessOf[s] = p BY <1>3, <2>1 DEF Unstored
  <2>2. CASE ProcessOf[s] # p BY <1>1, <1>2, <2>2 DEF Tabled, ServingOwns, Runs
  <2> QED BY <2>1, <2>2
<1>8. CloserCloses'
  <2> SUFFICES ASSUME NEW c \in Closers, closer'[c].at = "closing", Runs(closer[c].reached)'
               PROVE  closer[c].reached \in closing'
    BY <1>1 DEF CloserCloses
  <2>1. closer[c].reached \in Servers BY <1>0, <1>1 DEF CloseType
  <2> QED BY <1>1, <1>2, <2>1 DEF Tabled, CloserCloses, Runs
<1> QED BY <1>5, <1>6, <1>7, <1>8 DEF Tabled

LEMMA TabledStep == OwnInv /\ Tabled /\ [Next]_vars => Tabled'
<1> SUFFICES ASSUME OwnInv, Tabled, [Next]_vars PROVE Tabled' OBVIOUS
<1>1. TypeOK /\ Owned BY DEF OwnInv
<1>2. CASE UNCHANGED vars
  BY <1>2 DEF vars, disk, binding, asked, ends, tables, others, Tabled, LiveIsTabled, Live, Pointed,
              ServingOwns, CloserCloses, Runs
<1>3. CASE Next
  BY <1>1, <1>3, BindTabled, TeardownTabled, IdTabled, CloseTabled, CrashTabled DEF Next
<1> QED BY <1>2, <1>3

(* A live session leaves a table only by an unbinding of its own, whatever *)
(* becomes of older bindings of its id or its browser, or by the late      *)
(* store of one that was closed before it was stored.                      *)
THEOREM OwnUnbinding == Spec => OnlyItsOwnUnbinding
<1>1. OwnInv /\ Tabled /\ [Next]_vars =>
        [\A s \in Global :
           stage[s] = "stored" /\ s \notin closing \cup stopped /\ taking[s] = "no"
             /\ leaving[s] = "no" /\ ProcessOf[s] \in alive' =>
               /\ table[id[s]] = s /\ s \in bindings
               /\ table'[id[s]] = s \/ TakeLive(id[s]) \/ LateStore
               /\ s \in bindings' \/ TakeBinding(s) \/ LateStore]_vars
  <2> SUFFICES ASSUME OwnInv, Tabled, Next,
                      NEW s \in Global, stage[s] = "stored", s \notin closing \cup stopped,
                      taking[s] = "no", leaving[s] = "no", ProcessOf[s] \in alive'
               PROVE  /\ table[id[s]] = s /\ s \in bindings
                      /\ table'[id[s]] = s \/ TakeLive(id[s]) \/ LateStore
                      /\ s \in bindings' \/ TakeBinding(s) \/ LateStore
    OBVIOUS
  <2> USE DEF disk, binding, asked, ends, tables, others, Step
  <2>0. TypeOK /\ Owned /\ DiskType /\ BindType /\ TableType /\ CloseType /\ s \in Servers /\ id[s] \in Ids
    BY TypeParts, Apart DEF OwnInv, BindType
  <2>1. alive' \subseteq alive
    <3>1. \A p \in Processes : Crash(p) => alive' \subseteq alive BY CrashSteps
    <3> QED BY <3>1 DEF Next, Bind, TryClaim, Listen, Publish, StoreLive, StoreRefused, Teardown, TakeSession,
       ClearBinding, DropSession, WatcherWakes, RemoveFile, Unlock, StopListening, TakeBinding,
       HostDrops, TakeLive, Prune, Close, ReadDescriptor, Attach, ServerCloses, CloseFails, CloseReplies
  <2>2. Live(s) BY <2>1 DEF Live, Runs
  <2>3. table[id[s]] = s /\ s \in bindings BY <2>2 DEF Tabled, LiveIsTabled
  <2>4. ASSUME NEW t \in Servers, StoreLive(t)
        PROVE  LateStore \/ (table'[id[s]] = s /\ s \in bindings')
    BY <2>0, <2>2, <2>4, StoresAside
  <2>5. ASSUME NEW i \in Ids, TakeLive(i)
        PROVE  (table'[id[s]] = s \/ TakeLive(id[s])) /\ s \in bindings'
    <3>1. CASE i = id[s] BY <2>3, <2>5, <3>1 DEF TakeLive
    <3>2. CASE i # id[s] BY <2>0, <2>3, <2>5, <3>2 DEF TakeLive, TableType
    <3> QED BY <3>1, <3>2
  <2>6. ASSUME NEW t \in Servers, TakeSession(t)
        PROVE  table'[id[s]] = s /\ s \in bindings'
    <3>1. s # t BY <2>6 DEF TakeSession
    <3>2. table' = table \/ (table[id[t]] = t /\ table' = [table EXCEPT ![id[t]] = None])
      BY <2>6 DEF TakeSession, SameServer
    <3> QED BY <2>0, <2>3, <2>6, <3>1, <3>2 DEF TakeSession, TableType
  <2>7. ASSUME NEW t \in Servers, ClearBinding(t) \/ TakeBinding(t)
        PROVE  table'[id[s]] = s /\ (s \in bindings' \/ TakeBinding(s))
    <3>1. CASE s = t BY <2>3, <2>7, <3>1 DEF ClearBinding, TakeBinding
    <3>2. CASE s # t BY <2>3, <2>7, <3>2 DEF ClearBinding, TakeBinding
    <3> QED BY <3>1, <3>2
  <2>8. ASSUME NEW p \in Processes, Crash(p)
        PROVE  table'[id[s]] = s /\ s \in bindings'
    <3>1. ProcessOf[s] # p BY <2>8, CrashSteps
    <3> QED BY <2>0, <2>3, <2>8, <3>1, CrashSteps DEF Without, Kept
  <2>9. ASSUME UNCHANGED <<table, bindings>> PROVE table'[id[s]] = s /\ s \in bindings'
    BY <2>3, <2>9
  <2>10. \/ UNCHANGED <<table, bindings>>
         \/ \E t \in Servers : StoreLive(t) \/ TakeSession(t) \/ ClearBinding(t) \/ TakeBinding(t)
         \/ \E i \in Ids : TakeLive(i)
         \/ \E p \in Processes : Crash(p)
    BY DEF Next, Bind, TryClaim, Listen, Publish, StoreRefused, Teardown, DropSession, WatcherWakes,
       RemoveFile, Unlock, StopListening, HostDrops, Prune, Close, ReadDescriptor, Attach, ServerCloses,
       CloseFails, CloseReplies
  <2> QED BY <2>3, <2>4, <2>5, <2>6, <2>7, <2>8, <2>9, <2>10
<1>2. Spec => [](OwnInv /\ Tabled)
  <2>1. OwnInv /\ Tabled /\ [Next]_vars => (OwnInv /\ Tabled)'
    BY TypeStep, OwnedStep, ClosedStep, TabledStep DEF OwnInv
  <2> QED BY <2>1, InitOwned, InitTabled, PTL DEF Spec
<1> QED BY <1>1, <1>2, PTL DEF Spec, OnlyItsOwnUnbinding
=============================================================================
