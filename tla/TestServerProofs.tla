-------------------------- MODULE TestServerProofs --------------------------
(***************************************************************************)
(* Proofs about TestServer for any projects, any numbers of tests and any  *)
(* calls: the type invariant, that nothing outlives its run, that a stop   *)
(* is the business of its run alone, that a stop is heard, and that calls  *)
(* are answered once each and, those that wait for runs, in their order.   *)
(***************************************************************************)
EXTENDS TestServer, SequenceTheorems, TLAPS

Drivers == {"idle", "discovering", "running", "notifying", "finishing", "gone"}
Waits == {"off", "new", "check", "ask", "registered", "notified", "stopped"}

(* What TypeOK says of the channel, of the serving task and of the         *)
(* projects.                                                               *)
ChannelType ==
  /\ calls \in Seq(Kinds) /\ Len(calls) <= MaxCalls
  /\ received \in 0..Len(calls)
  /\ deferred \in Seq(1..received) /\ answered \in Seq(1..received)
DriverType ==
  /\ driver \in Drivers
  /\ current \in 0..received /\ (current # 0 <=> driver = "discovering" \/ InRun)
  /\ requested \in BOOLEAN
  /\ stopped \subseteq 1..received
StopType ==
  /\ permit \in BOOLEAN
  /\ wait \in [Projects -> Waits]
WorkType ==
  /\ project \in [Projects -> {"waiting", "running", "draining", "ended"}]
  /\ queued \in [Projects -> Nat] /\ results \in [Projects -> Nat]
  /\ busy \in [Projects -> BOOLEAN]
  /\ unsent \subseteq Projects /\ unreported \in BOOLEAN
  /\ \A p \in Projects :
       queued[p] + (IF busy[p] THEN 1 ELSE 0) + results[p] <= Tests[p]

(* Work belongs to a run: a test is executed and results are collected by  *)
(* a project that runs, events are on their way while it drains, and       *)
(* between runs all projects are at rest and the reporters have seen all.  *)
WorkBelongs ==
  /\ \A p \in Projects : busy[p] \/ results[p] > 0 => project[p] = "running"
  /\ \A p \in unsent : project[p] \in {"running", "draining"}
  /\ driver \notin {"running", "notifying"} => \A p \in Projects : AtRest(p)
  /\ ~InRun => ~unreported

LEMMA TypeParts == TypeOK <=> ChannelType /\ DriverType /\ StopType /\ WorkType
  BY DEF TypeOK, ChannelType, DriverType, StopType, WorkType, Drivers, Waits

LEMMA TypePartsNext == ChannelType' /\ DriverType' /\ StopType' /\ WorkType' => TypeOK'
  BY DEF TypeOK, ChannelType, DriverType, StopType, WorkType, Drivers, Waits, InRun

LEMMA Lengths ==
  ASSUME ChannelType
  PROVE  /\ Len(calls) \in Nat /\ received \in Nat /\ received <= Len(calls)
         /\ Len(deferred) \in Nat /\ Len(answered) \in Nat
  BY LenProperties DEF ChannelType

LEMMA InitType == Init => TypeOK
<1> SUFFICES ASSUME Init PROVE TypeOK OBVIOUS
<1>1. ChannelType BY ServerAssumption, EmptySeq DEF Init, ChannelType
<1>2. DriverType
  <2>1. driver = "idle" /\ current = 0 /\ received = 0 /\ requested = FALSE /\ stopped = {}
    BY DEF Init
  <2>2. current \in 0..received /\ stopped \subseteq 1..received BY <2>1
  <2>3. current # 0 <=> driver = "discovering" \/ InRun BY <2>1 DEF InRun
  <2> QED BY <2>1, <2>2, <2>3 DEF DriverType, Drivers
<1>3. StopType BY DEF Init, StopType, Waits
<1>4. WorkType
  <2>1. \A p \in Projects : queued[p] = 0 /\ busy[p] = FALSE /\ results[p] = 0 /\ Tests[p] \in Nat
    BY ServerAssumption DEF Init
  <2>2. \A p \in Projects : queued[p] + (IF busy[p] THEN 1 ELSE 0) + results[p] <= Tests[p]
    BY <2>1
  <2> QED BY <2>2 DEF Init, WorkType
<1> QED BY <1>1, <1>2, <1>3, <1>4, TypeParts

(* A longer prefix of the channel: what was collected of it stays so.      *)
LEMMA Widen ==
  ASSUME NEW m \in Nat, NEW n \in Nat, m <= n, NEW q \in Seq(1..m)
  PROVE  q \in Seq(1..n)
<1>1. 1..m \subseteq 1..n OBVIOUS
<1> QED BY <1>1, SeqMonotonic

(* The next call is a new one, and the first of the deferred if there are  *)
(* any.                                                                    *)
LEMMA Taken ==
  ASSUME ChannelType, TakeCall
  PROVE  /\ received' \in received..Len(calls)
         /\ NextCall \in 1..received'
         /\ deferred' \in Seq(1..received')
         /\ \/ /\ deferred # <<>> /\ NextCall = deferred[1] /\ Len(deferred) >= 1
               /\ received' = received
               /\ Len(deferred') = Len(deferred) - 1
               /\ \A n \in 1..Len(deferred') : deferred'[n] = deferred[n + 1]
            \/ /\ deferred = <<>> /\ deferred' = <<>> /\ Len(deferred') = 0
               /\ NextCall = received + 1 /\ received' = received + 1
<1>0. Len(calls) \in Nat /\ received \in Nat /\ received <= Len(calls) /\ Len(deferred) \in Nat
  BY Lengths
<1>1. CASE deferred # <<>>
  <2>1. /\ Head(deferred) \in 1..received /\ Tail(deferred) \in Seq(1..received)
        /\ Len(Tail(deferred)) = Len(deferred) - 1
        /\ \A n \in 1..Len(Tail(deferred)) : Tail(deferred)[n] = deferred[n + 1]
    BY <1>1, HeadTailProperties DEF ChannelType
  <2>2. Len(deferred) \in Nat \ {0} BY <1>1, EmptySeq DEF ChannelType
  <2>3. Head(deferred) = deferred[1] BY <1>1 DEF ChannelType
  <2>4. received' = received /\ deferred' = Tail(deferred) BY <1>1 DEF TakeCall
  <2> QED BY <1>0, <1>1, <2>1, <2>2, <2>3, <2>4 DEF NextCall
<1>2. CASE deferred = <<>>
  <2>1. received' = received + 1 /\ received < Len(calls) /\ deferred' = deferred
    BY <1>2 DEF TakeCall, Receive, InChannel
  <2>2. deferred' \in Seq(1..received') /\ Len(deferred') = 0 BY <1>2, <2>1, EmptySeq
  <2> QED BY <1>0, <1>2, <2>1, <2>2 DEF NextCall
<1> QED BY <1>1, <1>2

(* What a notification does to the waits, and what a dropped one does.     *)
LEMMA Notified ==
  ASSUME NEW w \in [Projects -> Waits], NotifyOne(w), permit \in BOOLEAN
  PROVE  /\ StopType'
         /\ \A q \in Projects : wait'[q] = w[q] \/ (w[q] = "registered" /\ wait'[q] = "notified")
         /\ \/ permit' /\ wait' = w /\ \A q \in Projects : w[q] # "registered"
            \/ permit' = permit /\ \E q \in Projects : wait'[q] = "notified"
  BY DEF NotifyOne, StopType, Waits

LEMMA Dropped ==
  ASSUME StopType, NEW p \in Projects, NEW to \in {"new", "off"}, DropWait(p, to)
  PROVE  /\ StopType'
         /\ wait'[p] \in {to, "stopped"}
         /\ wait[p] = "stopped" <=> wait'[p] = "stopped"
         /\ \A q \in Projects \ {p} :
              wait'[q] = wait[q] \/ (wait[q] = "registered" /\ wait'[q] = "notified")
         /\ permit' => permit \/ \A q \in Projects : wait'[q] # "registered"
         /\ permit => permit'
         /\ wait[p] = "notified" => permit' \/ \E q \in Projects : wait'[q] = "notified"
<1>1. CASE wait[p] = "stopped" BY <1>1 DEF DropWait, StopType
<1>2. CASE wait[p] = "notified"
  <2> DEFINE w == [wait EXCEPT ![p] = to]
  <2>1. w \in [Projects -> Waits] /\ w[p] = to /\ \A q \in Projects \ {p} : w[q] = wait[q]
    BY DEF StopType, Waits
  <2>2. NotifyOne(w) BY <1>2 DEF DropWait
  <2> HIDE DEF w
  <2>3. /\ StopType'
        /\ \A q \in Projects : wait'[q] = w[q] \/ (w[q] = "registered" /\ wait'[q] = "notified")
        /\ \/ permit' /\ wait' = w /\ \A q \in Projects : w[q] # "registered"
           \/ permit' = permit /\ \E q \in Projects : wait'[q] = "notified"
    BY <2>1, <2>2, Notified DEF StopType
  <2> QED BY <1>2, <2>1, <2>3
<1>3. CASE wait[p] \notin {"stopped", "notified"} BY <1>3 DEF DropWait, StopType, Waits
<1> QED BY <1>1, <1>2, <1>3

(* The steps of the clients and of the serving task keep the types.        *)
LEMMA ServeTypes ==
  ASSUME TypeOK, WorkBelongs, Driver \/ EndServe \/ \E k \in Kinds : Call(k)
  PROVE  TypeOK'
<1> USE DEF channel, serving, stop, work, streams
<1>0. ChannelType /\ DriverType /\ StopType /\ WorkType BY TypeParts
<1>1. /\ Len(calls) \in Nat /\ received \in Nat /\ received <= Len(calls)
      /\ Len(deferred) \in Nat /\ Len(answered) \in Nat
  BY <1>0, Lengths
<1>2. ASSUME NEW k \in Kinds, Call(k) PROVE TypeOK'
  <2>1. UNCHANGED <<received, deferred, answered, serving, stop, project, work, wait, streams>>
    BY <1>2 DEF Call
  <2>2. calls' \in Seq(Kinds) /\ Len(calls') = Len(calls) + 1 /\ Len(calls) < MaxCalls
    BY <1>0, <1>2, AppendProperties DEF Call, ChannelType
  <2>3. ChannelType' BY <1>0, <1>1, <2>1, <2>2, ServerAssumption DEF ChannelType
  <2> QED BY <1>0, <2>1, <2>3, TypePartsNext DEF DriverType, InRun, StopType, WorkType
<1>3. ASSUME ChannelType, TakeCall, UNCHANGED calls,
             answered' = answered \/ answered' = Append(answered, NextCall)
      PROVE  /\ ChannelType' /\ received' \in Nat /\ received <= received'
             /\ NextCall \in 1..received'
  <2>1. /\ received' \in received..Len(calls) /\ NextCall \in 1..received'
        /\ deferred' \in Seq(1..received')
    BY <1>3, Taken
  <2>2. received' \in Nat /\ received <= received' BY <1>1, <2>1
  <2>3. answered \in Seq(1..received') BY <1>0, <1>1, <2>2, Widen DEF ChannelType
  <2>4. Append(answered, NextCall) \in Seq(1..received') BY <2>1, <2>3, AppendProperties
  <2>5. answered' \in Seq(1..received') BY <1>3, <2>3, <2>4
  <2> QED BY <1>0, <1>1, <1>3, <2>1, <2>2, <2>5 DEF ChannelType
<1>4. CASE StartRun
  <2>1. ChannelType' /\ received' \in Nat /\ received <= received' /\ NextCall \in 1..received'
    BY <1>0, <1>3, <1>4 DEF StartRun
  <2>2. DriverType' BY <1>0, <1>1, <1>4, <2>1 DEF StartRun, DriverType, InRun, Drivers
  <2>3. UNCHANGED <<permit, wait, project, work, streams>> BY <1>4 DEF StartRun
  <2> QED BY <1>0, <2>1, <2>2, <2>3, TypePartsNext DEF StopType, WorkType
<1>5. CASE Handle
  <2>1. ChannelType' /\ received' \in Nat /\ received <= received'
    BY <1>0, <1>3, <1>5 DEF Handle, Answer
  <2>2. DriverType' BY <1>0, <1>1, <1>5, <2>1 DEF Handle, DriverType, InRun, Drivers
  <2>3. UNCHANGED <<permit, wait, project, work, streams>> BY <1>5 DEF Handle
  <2> QED BY <1>0, <2>1, <2>2, <2>3, TypePartsNext DEF StopType, WorkType
<1>6. CASE EndServe
  <2> DEFINE rest == [i \in 1..(Len(calls) - received) |-> received + i]
  <2>1. rest \in Seq(1..Len(calls))
    <3>1. Len(calls) - received \in Nat BY <1>1
    <3>2. \A i \in 1..(Len(calls) - received) : received + i \in 1..Len(calls) BY <1>1
    <3> QED BY <3>1, <3>2, IsASeq
  <2>2. answered \in Seq(1..Len(calls)) /\ deferred \in Seq(1..Len(calls))
    BY <1>0, <1>1, Widen DEF ChannelType
  <2>3. answered' = answered \o rest /\ received' = Len(calls) /\ UNCHANGED <<calls, deferred>>
    BY <1>6 DEF EndServe
  <2> HIDE DEF rest
  <2>4. ChannelType' BY <1>0, <1>1, <2>1, <2>2, <2>3, ConcatProperties DEF ChannelType
  <2>5. DriverType' BY <1>0, <1>1, <1>6, <2>3 DEF EndServe, DriverType, InRun, Drivers
  <2>6. UNCHANGED <<permit, wait, project, work, streams>> BY <1>6 DEF EndServe
  <2> QED BY <1>0, <2>4, <2>5, <2>6, TypePartsNext DEF StopType, WorkType
<1>7. CASE NothingToRun \/ FinishRun
  <2>1. current \in 1..received BY <1>0, <1>1, <1>7 DEF NothingToRun, FinishRun, DriverType, InRun
  <2>2. Append(answered, current) \in Seq(1..received)
    BY <1>0, <2>1, AppendProperties DEF ChannelType
  <2>3. /\ UNCHANGED <<calls, received, deferred, requested, stopped>>
        /\ answered' = Append(answered, current) /\ driver' = "idle" /\ current' = 0
    BY <1>7 DEF NothingToRun, FinishRun, Answer
  <2>4. ChannelType' BY <1>0, <2>2, <2>3 DEF ChannelType
  <2>5. DriverType' BY <1>0, <1>1, <2>3 DEF DriverType, InRun, Drivers
  <2>6. UNCHANGED <<permit, wait, project, work, streams>> BY <1>7 DEF NothingToRun, FinishRun
  <2> QED BY <1>0, <2>4, <2>5, <2>6, TypePartsNext DEF StopType, WorkType
<1>8. CASE Execute
  <2>1. UNCHANGED <<channel, current, permit, stopped, busy, results, streams>> BY <1>8 DEF Execute
  <2>2. ChannelType' BY <1>0, <2>1 DEF ChannelType
  <2>3. DriverType' BY <1>0, <1>8, <2>1 DEF Execute, DriverType, InRun, Drivers
  <2>4. StopType' BY <1>0, <1>8, <2>1 DEF Execute, StopType, Waits
  <2>5. WorkType'
    <3>1. project' = [p \in Projects |-> "waiting"] /\ queued' = Tests BY <1>8 DEF Execute
    <3>2. \A p \in Projects : ~busy[p] /\ results[p] = 0
      BY <1>0, <1>8 DEF Execute, WorkBelongs, WorkType, AtRest
    <3> QED BY <1>0, <2>1, <3>1, <3>2, ServerAssumption DEF WorkType
  <2> QED BY <2>2, <2>3, <2>4, <2>5, TypePartsNext
<1>9. CASE RequestStop \/ Defer
  <2>1. received' = received + 1 /\ received < Len(calls) /\ UNCHANGED <<calls, answered, current>>
    BY <1>9 DEF RequestStop, Defer, Receive, InChannel
  <2>2. answered \in Seq(1..(received + 1)) /\ deferred \in Seq(1..(received + 1))
    BY <1>0, <1>1, Widen DEF ChannelType
  <2>3. deferred' \in Seq(1..(received + 1))
    <3>1. Append(deferred, received + 1) \in Seq(1..(received + 1)) BY <1>1, <2>2, AppendProperties
    <3>2. deferred' = deferred \/ deferred' = Append(deferred, received + 1)
      BY <1>9, <2>1 DEF RequestStop, Defer
    <3> QED BY <2>2, <3>1, <3>2
  <2>4. ChannelType' BY <1>0, <1>1, <2>1, <2>2, <2>3 DEF ChannelType
  <2>5. DriverType'
    <3>1. driver = "running" /\ driver' \in {"running", "notifying"} /\ requested' \in BOOLEAN
          /\ stopped' \in {stopped, stopped \cup {current}}
      BY <1>0, <1>9 DEF RequestStop, Defer, DriverType
    <3>2. current \in 1..(received + 1) BY <1>0, <1>1, <3>1 DEF DriverType, InRun
    <3>3. current' = current /\ stopped' \subseteq 1..(received + 1)
      BY <1>0, <1>1, <2>1, <3>1, <3>2 DEF DriverType
    <3> QED BY <1>0, <1>1, <2>1, <3>1, <3>2, <3>3 DEF DriverType, InRun, Drivers
  <2>6. UNCHANGED <<permit, wait, project, work, streams>> BY <1>9 DEF RequestStop, Defer
  <2> QED BY <1>0, <2>4, <2>5, <2>6, TypePartsNext DEF StopType, WorkType
<1>10. CASE NotifyStop
  <2>1. received \in 1..received
    <3>1. current \in 0..received /\ current # 0 BY <1>0, <1>10 DEF NotifyStop, DriverType, InRun
    <3> QED BY <1>1, <3>1
  <2>2. ChannelType' BY <1>0, <1>10, <2>1, AppendProperties DEF NotifyStop, Answer, ChannelType
  <2>3. DriverType' BY <1>0, <1>10 DEF NotifyStop, DriverType, InRun, Drivers
  <2>4. StopType' BY <1>0, <1>10, Notified DEF NotifyStop, StopType
  <2>5. UNCHANGED <<project, work, streams>> BY <1>10 DEF NotifyStop
  <2> QED BY <1>0, <2>2, <2>3, <2>4, <2>5, TypePartsNext DEF WorkType
<1>11. CASE ExecuteEnds
  <2>1. UNCHANGED <<channel, current, stop, project, work, wait, streams>> BY <1>11 DEF ExecuteEnds
  <2>2. DriverType' BY <1>0, <1>11, <2>1 DEF ExecuteEnds, DriverType, InRun, Drivers
  <2> QED BY <1>0, <2>1, <2>2, TypePartsNext DEF ChannelType, StopType, WorkType
<1>12. ASSUME NEW p \in Projects, Launch(p) PROVE TypeOK'
  <2>1. UNCHANGED <<channel, serving, stop, work, streams>> BY <1>12 DEF Launch
  <2>2. StopType' /\ WorkType' BY <1>0, <1>12 DEF Launch, StopType, WorkType, Waits
  <2> QED BY <1>0, <2>1, <2>2, TypePartsNext DEF ChannelType, DriverType, InRun
<1> QED BY <1>2, <1>4, <1>5, <1>6, <1>7, <1>8, <1>9, <1>10, <1>11, <1>12 DEF Driver

(* The steps of the projects leave the serving task alone.                 *)
Works(p) == Collect(p) \/ Test(p) \/ Drain(p)

LEMMA WorkLeaves ==
  ASSUME NEW p \in Projects, Works(p)
  PROVE  UNCHANGED <<calls, received, deferred, answered, driver, current, requested, stopped>>
  BY DEF Works, Collect, Test, Drain, TakeResult, CheckFlag, AskPermit, Wake, CloseStream,
         StartTest, EndTest, Forward, EndProject, channel, serving, stop

LEMMA WorkTypes ==
  ASSUME TypeOK, NEW p \in Projects, Works(p)
  PROVE  TypeOK'
<1> USE DEF work, streams, stop
<1>0. ChannelType /\ DriverType /\ StopType /\ WorkType BY TypeParts
<1>1. ChannelType' /\ DriverType'
  <2>1. UNCHANGED <<calls, received, deferred, answered, driver, current, requested, stopped>>
    BY WorkLeaves
  <2>2. ChannelType' BY <1>0, <2>1 DEF ChannelType
  <2>3. DriverType' BY <1>0, <2>1 DEF DriverType, InRun
  <2> QED BY <2>2, <2>3
<1>2. CASE TakeResult(p)
  <2>1. StopType' BY <1>0, <1>2, Dropped DEF TakeResult
  <2>2. WorkType'
    <3>1. results' = [results EXCEPT ![p] = @ - 1] /\ results[p] > 0
          /\ UNCHANGED <<queued, busy, project, unsent, unreported>>
      BY <1>2 DEF TakeResult
    <3>2. Tests[p] \in Nat BY ServerAssumption
    <3> QED BY <1>0, <3>1, <3>2 DEF WorkType
  <2> QED BY <1>1, <2>1, <2>2, TypePartsNext
<1>3. CASE CloseStream(p)
  <2>1. StopType' BY <1>0, <1>3, Dropped DEF CloseStream
  <2>2. WorkType' BY <1>0, <1>3 DEF CloseStream, WorkType
  <2> QED BY <1>1, <2>1, <2>2, TypePartsNext
<1>4. CASE CheckFlag(p) \/ AskPermit(p) \/ Wake(p)
  <2>1. StopType' BY <1>0, <1>4 DEF CheckFlag, AskPermit, Wake, StopType, Waits
  <2>2. WorkType' BY <1>0, <1>4 DEF CheckFlag, AskPermit, Wake, WorkType
  <2> QED BY <1>1, <2>1, <2>2, TypePartsNext
<1>5. CASE StartTest(p) \/ EndTest(p) \/ Forward(p) \/ EndProject(p)
  <2>1. StopType' BY <1>0, <1>5 DEF StartTest, EndTest, Forward, EndProject, StopType
  <2>2. ASSUME StartTest(p) PROVE WorkType'
    <3>1. Tests[p] \in Nat BY ServerAssumption
    <3>2. queued' = [queued EXCEPT ![p] = @ - 1] /\ queued[p] > 0 /\ ~busy[p]
          /\ busy' = [busy EXCEPT ![p] = TRUE] /\ UNCHANGED <<results, project, unsent, unreported>>
      BY <2>2 DEF StartTest
    <3> QED BY <1>0, <3>1, <3>2 DEF WorkType
  <2>3. ASSUME EndTest(p) PROVE WorkType'
    <3>1. results' = [results EXCEPT ![p] = @ + 1] /\ busy[p]
          /\ busy' = [busy EXCEPT ![p] = FALSE] /\ UNCHANGED <<queued, project, unreported>>
          /\ unsent' = unsent \cup {p}
      BY <2>3 DEF EndTest
    <3> QED BY <1>0, <3>1 DEF WorkType
  <2>4. ASSUME Forward(p) \/ EndProject(p) PROVE WorkType'
    BY <1>0, <2>4 DEF Forward, EndProject, WorkType
  <2> QED BY <1>1, <1>5, <2>1, <2>2, <2>3, <2>4, TypePartsNext
<1> QED BY <1>2, <1>3, <1>4, <1>5 DEF Works, Collect, Test, Drain

LEMMA BelongsStep == TypeOK /\ WorkBelongs /\ [Next]_vars => WorkBelongs'
<1> SUFFICES ASSUME TypeOK, WorkBelongs, [Next]_vars PROVE WorkBelongs' OBVIOUS
<1> USE DEF channel, serving, stop, work, streams
<1>0. DriverType /\ StopType /\ WorkType BY TypeParts
<1>1. CASE UNCHANGED vars BY <1>1 DEF vars, WorkBelongs, AtRest, InRun
<1>2. ASSUME UNCHANGED <<project, busy, results, unsent, unreported>>,
             driver \in {"running", "notifying"} => driver' \in {"running", "notifying"},
             driver \notin {"running", "notifying"} /\ InRun => InRun'
      PROVE  WorkBelongs'
  BY <1>0, <1>2 DEF WorkBelongs, AtRest, InRun, DriverType, Drivers
<1>3. ASSUME NEW k \in Kinds, Call(k) PROVE WorkBelongs'
  BY <1>2, <1>3 DEF Call, InRun
<1>4. CASE StartRun \/ Handle \/ EndServe \/ NothingToRun \/ RequestStop \/ NotifyStop \/ Defer
  BY <1>2, <1>4 DEF StartRun, Handle, EndServe, NothingToRun, RequestStop, NotifyStop, Defer, InRun
<1>5. CASE Execute
  BY <1>0, <1>5 DEF Execute, WorkBelongs, WorkType, AtRest, InRun
<1>6. CASE ExecuteEnds
  BY <1>6 DEF ExecuteEnds, WorkBelongs, AtRest, InRun
<1>7. CASE FinishRun
  BY <1>7 DEF FinishRun, WorkBelongs, AtRest, InRun
<1>8. ASSUME NEW p \in Projects, Launch(p) PROVE WorkBelongs'
  BY <1>0, <1>8 DEF Launch, WorkBelongs, WorkType, InRun
<1>9. CASE Report BY <1>9 DEF Report, WorkBelongs, AtRest, InRun
<1>10. ASSUME NEW p \in Projects, Works(p) PROVE WorkBelongs'
  <2>1. UNCHANGED driver BY <1>10, WorkLeaves
  <2>2. CASE CheckFlag(p) \/ AskPermit(p) \/ Wake(p)
    BY <2>1, <2>2, <1>2 DEF CheckFlag, AskPermit, Wake, InRun
  <2>3. CASE TakeResult(p)
    BY <1>0, <2>1, <2>3 DEF TakeResult, WorkBelongs, WorkType, AtRest, InRun
  <2>4. CASE CloseStream(p)
    BY <1>0, <2>1, <2>4 DEF CloseStream, WorkBelongs, WorkType, AtRest, InRun
  <2>5. CASE StartTest(p)
    BY <1>0, <2>1, <2>5 DEF StartTest, WorkBelongs, WorkType, AtRest, InRun
  <2>6. CASE EndTest(p)
    BY <1>0, <2>1, <2>6 DEF EndTest, WorkBelongs, WorkType, AtRest, InRun
  <2>7. CASE Forward(p)
    BY <1>0, <2>1, <2>7 DEF Forward, WorkBelongs, WorkType, AtRest, InRun
  <2>8. CASE EndProject(p)
    BY <1>0, <2>1, <2>8 DEF EndProject, WorkBelongs, WorkType, AtRest, InRun
  <2> QED BY <1>10, <2>2, <2>3, <2>4, <2>5, <2>6, <2>7, <2>8 DEF Works, Collect, Test, Drain
<1> QED BY <1>1, <1>3, <1>4, <1>5, <1>6, <1>7, <1>8, <1>9, <1>10 DEF Next, Driver, Works

LEMMA TypeStep == TypeOK /\ WorkBelongs /\ [Next]_vars => TypeOK'
<1> SUFFICES ASSUME TypeOK, WorkBelongs, [Next]_vars PROVE TypeOK' OBVIOUS
<1>1. CASE UNCHANGED vars
  BY <1>1 DEF vars, channel, serving, stop, work, streams, TypeOK, InRun
<1>2. CASE Report
  <2>1. ChannelType /\ DriverType /\ StopType /\ WorkType BY TypeParts
  <2> QED BY <1>2, <2>1, TypePartsNext
          DEF Report, ChannelType, DriverType, StopType, WorkType, InRun, channel, serving, stop, work
<1> QED BY <1>1, <1>2, ServeTypes, WorkTypes DEF Next, Works

LEMMA WorkInvariance == Spec => [](TypeOK /\ WorkBelongs)
<1>1. Init => WorkBelongs BY DEF Init, WorkBelongs, AtRest, InRun
<1> QED BY <1>1, InitType, TypeStep, BelongsStep, PTL DEF Spec

(* Every variable keeps its type; the tests of a project add up.           *)
THEOREM TypeCorrect == Spec => []TypeOK
BY WorkInvariance, PTL

(* When the next call is taken nothing of the run is left: no test, no     *)
(* result, no event under way.                                             *)
THEOREM RunsEndWhole == Spec => []NothingOutlivesItsRun
<1>1. TypeOK /\ WorkBelongs => NothingOutlivesItsRun
  BY TypeParts DEF WorkBelongs, NothingOutlivesItsRun, InRun, AtRest, WorkType
<1> QED BY <1>1, WorkInvariance, PTL

-----------------------------------------------------------------------------
(* Calls are deferred in the order of the channel, all of them after the   *)
(* runs that were stopped and the one in progress.                         *)
DeferredInOrder ==
  /\ \A m, n \in 1..Len(deferred) : m < n => deferred[m] < deferred[n]
  /\ \A n \in 1..Len(deferred) : \A i \in stopped : i < deferred[n]
  /\ current # 0 => \A n \in 1..Len(deferred) : current < deferred[n]

(* The flag is the current run's.                                          *)
FlagIsCurrent ==
  /\ current # 0 => \A i \in stopped : i <= current
  /\ driver = "discovering" => current \notin stopped
  /\ InRun => (requested <=> current \in stopped)
  /\ \A p \in Projects : wait[p] = "stopped" => requested

(* A stored permit finds nobody registered, and a stop that was passed on  *)
(* is a permit or a loop that was woken or has heard of it.                *)
Woken == {"check", "notified", "stopped"}
StopIsPassedOn ==
  /\ permit => \A p \in Projects : wait[p] # "registered"
  /\ \A p \in Projects : project[p] = "running" => wait[p] # "off"
  /\ driver = "running" /\ requested => permit \/ \E p \in Projects : wait[p] \in Woken

StopInv == TypeOK /\ WorkBelongs /\ DeferredInOrder /\ FlagIsCurrent /\ StopIsPassedOn

LEMMA InitStop == Init => DeferredInOrder /\ FlagIsCurrent /\ StopIsPassedOn
<1> SUFFICES ASSUME Init PROVE DeferredInOrder /\ FlagIsCurrent /\ StopIsPassedOn OBVIOUS
<1>1. Len(deferred) = 0 BY EmptySeq DEF Init
<1>2. DeferredInOrder BY <1>1 DEF Init, DeferredInOrder
<1>3. FlagIsCurrent BY DEF Init, FlagIsCurrent, InRun
<1>4. StopIsPassedOn BY DEF Init, StopIsPassedOn
<1> QED BY <1>2, <1>3, <1>4

LEMMA OrderStep == StopInv /\ [Next]_vars => DeferredInOrder'
<1> SUFFICES ASSUME StopInv, [Next]_vars PROVE DeferredInOrder' OBVIOUS
<1> USE DEF channel, serving, stop
<1>0. ChannelType /\ DriverType /\ DeferredInOrder /\ FlagIsCurrent BY TypeParts DEF StopInv
<1>1. /\ received \in Nat /\ Len(deferred) \in Nat
      /\ \A n \in 1..Len(deferred) : deferred[n] \in 1..received
  BY <1>0, Lengths, ElementOfSeq DEF ChannelType
<1>2. ASSUME UNCHANGED <<deferred, stopped>>, current' \in {current, 0} PROVE DeferredInOrder'
  BY <1>0, <1>2 DEF DeferredInOrder
<1>3. ASSUME TakeCall, UNCHANGED stopped, current' \in {0, NextCall} PROVE DeferredInOrder'
  <2>1. \/ /\ NextCall = deferred[1] /\ Len(deferred) >= 1 /\ Len(deferred') = Len(deferred) - 1
           /\ \A n \in 1..Len(deferred') : deferred'[n] = deferred[n + 1]
        \/ Len(deferred') = 0
    BY <1>0, <1>3, Taken
  <2>2. CASE Len(deferred') = 0 BY <2>2 DEF DeferredInOrder
  <2>3. CASE /\ NextCall = deferred[1] /\ Len(deferred) >= 1 /\ Len(deferred') = Len(deferred) - 1
             /\ \A n \in 1..Len(deferred') : deferred'[n] = deferred[n + 1]
    <3>1. \A n \in 1..Len(deferred') : n + 1 \in 1..Len(deferred) /\ 1 \in 1..Len(deferred) /\ 1 < n + 1
      BY <1>1, <2>3
    <3>2. ASSUME NEW m \in 1..Len(deferred'), NEW n \in 1..Len(deferred'), m < n
          PROVE  deferred'[m] < deferred'[n]
      <4>1. m + 1 \in 1..Len(deferred) /\ n + 1 \in 1..Len(deferred) /\ m + 1 < n + 1
        BY <1>1, <2>3, <3>2
      <4>2. deferred[m + 1] < deferred[n + 1] BY <1>0, <4>1 DEF DeferredInOrder
      <4> QED BY <2>3, <4>2
    <3>3. \A n \in 1..Len(deferred') : \A i \in stopped : i < deferred'[n]
      BY <1>0, <2>3, <3>1 DEF DeferredInOrder
    <3>4. \A n \in 1..Len(deferred') : NextCall < deferred'[n]
      BY <1>0, <2>3, <3>1 DEF DeferredInOrder
    <3> QED BY <1>3, <3>2, <3>3, <3>4 DEF DeferredInOrder
  <2> QED BY <2>1, <2>2, <2>3
<1>4. CASE StartRun \/ Handle
  BY <1>0, <1>3, <1>4 DEF StartRun, Handle, DriverType, InRun
<1>5. CASE RequestStop
  <2>1. UNCHANGED <<deferred, current>> /\ stopped' = stopped \cup {current} /\ current # 0
    BY <1>0, <1>5 DEF RequestStop, DriverType, InRun
  <2> QED BY <1>0, <2>1 DEF DeferredInOrder
<1>6. CASE Defer
  <2>1. deferred' = Append(deferred, received + 1) /\ UNCHANGED <<current, stopped>>
    BY <1>6 DEF Defer, Receive
  <2>2. /\ Len(deferred') = Len(deferred) + 1 /\ deferred'[Len(deferred) + 1] = received + 1
        /\ \A n \in 1..Len(deferred) : deferred'[n] = deferred[n]
    BY <1>0, <2>1, AppendProperties DEF ChannelType
  <2>3. ASSUME NEW n \in 1..Len(deferred')
        PROVE  n \in 1..Len(deferred) \/ n = Len(deferred) + 1
    BY <1>1, <2>2
  <2>4. \A m, n \in 1..Len(deferred') : m < n => deferred'[m] < deferred'[n]
    <3> SUFFICES ASSUME NEW m \in 1..Len(deferred'), NEW n \in 1..Len(deferred'), m < n
                 PROVE  deferred'[m] < deferred'[n]
      OBVIOUS
    <3>1. m \in 1..Len(deferred) BY <1>1, <2>2
    <3>2. CASE n \in 1..Len(deferred) BY <1>0, <2>2, <3>1, <3>2 DEF DeferredInOrder
    <3>3. CASE n = Len(deferred) + 1
      <4>1. deferred'[m] \in 1..received BY <1>1, <2>2, <3>1
      <4> QED BY <1>1, <2>2, <3>3, <4>1
    <3> QED BY <2>3, <3>2, <3>3
  <2>5. \A i \in stopped : i < received + 1
    BY <1>0, <1>1 DEF DriverType
  <2>6. current < received + 1 BY <1>0, <1>1 DEF DriverType
  <2>7. \A n \in 1..Len(deferred') : \A i \in stopped : i < deferred'[n]
    BY <1>0, <2>2, <2>3, <2>5 DEF DeferredInOrder
  <2>8. current # 0 => \A n \in 1..Len(deferred') : current < deferred'[n]
    BY <1>0, <2>2, <2>3, <2>6 DEF DeferredInOrder
  <2> QED BY <2>1, <2>4, <2>7, <2>8 DEF DeferredInOrder
<1>7. CASE EndServe \/ NothingToRun \/ Execute \/ NotifyStop \/ ExecuteEnds \/ FinishRun
  BY <1>2, <1>7 DEF EndServe, NothingToRun, Execute, NotifyStop, ExecuteEnds, FinishRun
<1>8. ASSUME NEW p \in Projects, Launch(p) PROVE DeferredInOrder'
  BY <1>2, <1>8 DEF Launch
<1>9. ASSUME NEW k \in Kinds, Call(k) PROVE DeferredInOrder'
  BY <1>2, <1>9 DEF Call
<1>10. CASE Report BY <1>2, <1>10 DEF Report
<1>11. ASSUME NEW p \in Projects, Works(p) PROVE DeferredInOrder'
  BY <1>2, <1>11, WorkLeaves
<1>12. CASE UNCHANGED vars BY <1>2, <1>12 DEF vars
<1> QED BY <1>4, <1>5, <1>6, <1>7, <1>8, <1>9, <1>10, <1>11, <1>12 DEF Next, Driver, Works

LEMMA FlagStep == StopInv /\ [Next]_vars => FlagIsCurrent'
<1> SUFFICES ASSUME StopInv, [Next]_vars PROVE FlagIsCurrent' OBVIOUS
<1> USE DEF channel, serving, stop, work, streams
<1>0. ChannelType /\ DriverType /\ StopType /\ DeferredInOrder /\ FlagIsCurrent
  BY TypeParts DEF StopInv
<1>1. ASSUME UNCHANGED <<driver, current, requested, stopped>>,
             \A p \in Projects : wait'[p] = "stopped" => wait[p] = "stopped" \/ requested
      PROVE  FlagIsCurrent'
  BY <1>0, <1>1 DEF FlagIsCurrent, InRun
<1>2. CASE StartRun
  <2>1. /\ current' = NextCall /\ driver' = "discovering" /\ UNCHANGED <<stopped, requested, wait>>
        /\ TakeCall
    BY <1>2 DEF StartRun
  <2>2. \A i \in stopped : i < NextCall
    <3>1. (NextCall = deferred[1] /\ Len(deferred) >= 1) \/ NextCall = received + 1
      BY <1>0, <2>1, Taken
    <3>2. Len(deferred) \in Nat /\ received \in Nat BY <1>0, Lengths
    <3>3. CASE NextCall = deferred[1] /\ Len(deferred) >= 1
      BY <1>0, <3>2, <3>3 DEF DeferredInOrder
    <3>4. CASE NextCall = received + 1 BY <1>0, <3>2, <3>4 DEF DriverType
    <3> QED BY <3>1, <3>3, <3>4
  <2>3. NextCall \in Int /\ stopped \subseteq Int
    <3>1. NextCall \in 1..received' /\ received' \in received..Len(calls) BY <1>0, <2>1, Taken
    <3> QED BY <1>0, <3>1, Lengths DEF DriverType
  <2> QED BY <1>0, <2>1, <2>2, <2>3 DEF FlagIsCurrent, InRun
<1>3. CASE Execute
  BY <1>0, <1>3 DEF Execute, FlagIsCurrent, InRun, DriverType
<1>4. CASE RequestStop
  <2>1. current # 0 /\ current \in Int BY <1>0, <1>4, Lengths DEF RequestStop, DriverType, InRun
  <2> QED BY <1>0, <1>4, <2>1 DEF RequestStop, FlagIsCurrent, InRun
<1>5. CASE NotifyStop
  <2>1. \A p \in Projects : wait'[p] = "stopped" => wait[p] = "stopped"
    BY <1>0, <1>5, Notified DEF NotifyStop, StopType
  <2> QED BY <1>0, <1>5, <2>1 DEF NotifyStop, FlagIsCurrent, InRun
<1>6. CASE EndServe \/ Handle \/ NothingToRun \/ FinishRun
  <2>1. /\ current' = 0
        /\ driver' \in {"idle", "gone"} /\ UNCHANGED <<requested, wait>>
    BY <1>0, <1>6 DEF EndServe, Handle, NothingToRun, FinishRun, DriverType, InRun
  <2> QED BY <1>0, <2>1 DEF FlagIsCurrent, InRun
<1>12. CASE Defer \/ ExecuteEnds
  BY <1>0, <1>12 DEF Defer, ExecuteEnds, FlagIsCurrent, InRun
<1>7. ASSUME NEW p \in Projects, Launch(p) PROVE FlagIsCurrent'
  BY <1>0, <1>1, <1>7 DEF Launch, StopType
<1>8. ASSUME NEW k \in Kinds, Call(k) PROVE FlagIsCurrent' BY <1>1, <1>8 DEF Call
<1>9. CASE Report BY <1>1, <1>9 DEF Report
<1>10. ASSUME NEW p \in Projects, Works(p) PROVE FlagIsCurrent'
  <2>1. UNCHANGED <<driver, current, requested, stopped>> BY <1>10, WorkLeaves
  <2>2. CASE TakeResult(p) \/ CloseStream(p)
    <3>1. DropWait(p, "new") \/ DropWait(p, "off") BY <2>2 DEF TakeResult, CloseStream
    <3>2. /\ wait[p] = "stopped" <=> wait'[p] = "stopped"
          /\ \A q \in Projects \ {p} :
               wait'[q] = wait[q] \/ (wait[q] = "registered" /\ wait'[q] = "notified")
      BY <1>0, <3>1, Dropped
    <3> QED BY <1>1, <2>1, <3>2
  <2>3. CASE CheckFlag(p) \/ AskPermit(p) \/ Wake(p)
    BY <1>0, <1>1, <2>1, <2>3 DEF CheckFlag, AskPermit, Wake, StopType
  <2>4. CASE StartTest(p) \/ EndTest(p) \/ Forward(p) \/ EndProject(p)
    BY <1>1, <2>1, <2>4 DEF StartTest, EndTest, Forward, EndProject
  <2> QED BY <1>10, <2>2, <2>3, <2>4 DEF Works, Collect, Test, Drain
<1>11. CASE UNCHANGED vars BY <1>1, <1>11 DEF vars
<1> QED BY <1>2, <1>3, <1>4, <1>5, <1>6, <1>7, <1>8, <1>9, <1>10, <1>11, <1>12 DEF Next, Driver, Works

LEMMA PassStep == StopInv /\ [Next]_vars => StopIsPassedOn'
<1> SUFFICES ASSUME StopInv, [Next]_vars PROVE StopIsPassedOn' OBVIOUS
<1> USE DEF channel, serving, stop, work, streams
<1>0. DriverType /\ StopType /\ WorkType /\ WorkBelongs /\ FlagIsCurrent /\ StopIsPassedOn
  BY TypeParts DEF StopInv
<1>1. ASSUME UNCHANGED <<permit, wait, requested>>, \A p \in Projects : project'[p] = "running" => project[p] = "running",
             driver' = "running" => driver = "running" \/ ~requested
      PROVE  StopIsPassedOn'
  BY <1>0, <1>1 DEF StopIsPassedOn
<1>2. CASE StartRun \/ Handle \/ EndServe \/ NothingToRun \/ Defer \/ ExecuteEnds \/ FinishRun
  BY <1>1, <1>2 DEF StartRun, Handle, EndServe, NothingToRun, Defer, ExecuteEnds, FinishRun
<1>3. CASE Execute
  BY <1>0, <1>3 DEF Execute, StopIsPassedOn
<1>4. CASE RequestStop
  BY <1>0, <1>4 DEF RequestStop, StopIsPassedOn
<1>5. CASE NotifyStop
  <2>1. /\ \A q \in Projects : wait'[q] = wait[q] \/ (wait[q] = "registered" /\ wait'[q] = "notified")
        /\ \/ permit' /\ wait' = wait /\ \A q \in Projects : wait[q] # "registered"
           \/ permit' = permit /\ \E q \in Projects : wait'[q] = "notified"
    BY <1>0, <1>5, Notified DEF NotifyStop, StopType
  <2>2. project' = project BY <1>5 DEF NotifyStop
  <2> QED BY <1>0, <2>1, <2>2 DEF StopIsPassedOn, Woken
<1>6. ASSUME NEW p \in Projects, Launch(p) PROVE StopIsPassedOn'
  <2>1. /\ ~requested /\ UNCHANGED <<driver, requested, permit>>
        /\ wait' = [wait EXCEPT ![p] = "new"] /\ project' = [project EXCEPT ![p] = "running"]
    BY <1>6 DEF Launch
  <2> QED BY <1>0, <2>1 DEF StopIsPassedOn, StopType, WorkType
<1>7. ASSUME NEW k \in Kinds, Call(k) PROVE StopIsPassedOn' BY <1>1, <1>7 DEF Call
<1>8. CASE Report BY <1>1, <1>8 DEF Report
<1>9. ASSUME NEW p \in Projects, Works(p) PROVE StopIsPassedOn'
  <2>1. UNCHANGED <<driver, requested>> BY <1>9, WorkLeaves
  <2>2. ASSUME NEW to \in {"new", "off"}, DropWait(p, to), ~Polling(p),
               to = "off" => project'[p] # "running",
               \A q \in Projects : project'[q] = "running" => project[q] = "running"
        PROVE  StopIsPassedOn'
    <3>1. /\ StopType' /\ wait'[p] \in {to, "stopped"}
          /\ wait[p] = "stopped" <=> wait'[p] = "stopped"
          /\ \A q \in Projects \ {p} :
               wait'[q] = wait[q] \/ (wait[q] = "registered" /\ wait'[q] = "notified")
          /\ permit' => permit \/ \A q \in Projects : wait'[q] # "registered"
          /\ permit => permit'
          /\ wait[p] = "notified" => permit' \/ \E q \in Projects : wait'[q] = "notified"
      BY <1>0, <2>2, Dropped
    <3>2. permit' => \A q \in Projects : wait'[q] # "registered"
      BY <1>0, <3>1 DEF StopIsPassedOn
    <3>3. \A q \in Projects : project'[q] = "running" => wait'[q] # "off"
      BY <1>0, <2>2, <3>1 DEF StopIsPassedOn
    <3>4. (permit \/ \E q \in Projects : wait[q] \in Woken)
             => permit' \/ \E q \in Projects : wait'[q] \in Woken
      <4>1. ASSUME NEW q \in Projects, wait[q] \in Woken
            PROVE  permit' \/ \E r \in Projects : wait'[r] \in Woken
        <5>1. CASE q # p BY <3>1, <4>1, <5>1 DEF Woken
        <5>2. CASE q = p BY <2>2, <3>1, <4>1, <5>2 DEF Woken, Polling
        <5> QED BY <5>1, <5>2
      <4> QED BY <3>1, <4>1
    <3> QED BY <1>0, <2>1, <3>2, <3>3, <3>4 DEF StopIsPassedOn
  <2>3. CASE TakeResult(p) BY <2>2, <2>3 DEF TakeResult
  <2>4. CASE CloseStream(p) BY <1>0, <2>2, <2>4 DEF CloseStream, WorkType
  <2>5. CASE CheckFlag(p)
    BY <1>0, <2>1, <2>5 DEF CheckFlag, StopIsPassedOn, StopType, Woken
  <2>6. CASE AskPermit(p)
    BY <1>0, <2>1, <2>6 DEF AskPermit, StopIsPassedOn, StopType, Woken
  <2>7. CASE Wake(p)
    BY <1>0, <2>1, <2>7 DEF Wake, StopIsPassedOn, StopType, Woken
  <2>8. CASE StartTest(p) \/ EndTest(p) \/ Forward(p) \/ EndProject(p)
    BY <1>0, <1>1, <2>1, <2>8 DEF StartTest, EndTest, Forward, EndProject, WorkType
  <2> QED BY <1>9, <2>3, <2>4, <2>5, <2>6, <2>7, <2>8 DEF Works, Collect, Test, Drain
<1>10. CASE UNCHANGED vars BY <1>1, <1>10 DEF vars
<1> QED BY <1>2, <1>3, <1>4, <1>5, <1>6, <1>7, <1>8, <1>9, <1>10 DEF Next, Driver, Works

LEMMA StopInvariance == Spec => []StopInv
<1>1. Init => StopInv
  <2>1. Init => WorkBelongs BY DEF Init, WorkBelongs, AtRest, InRun
  <2> QED BY <2>1, InitType, InitStop DEF StopInv
<1>2. StopInv /\ [Next]_vars => StopInv'
  BY TypeStep, BelongsStep, OrderStep, FlagStep, PassStep DEF StopInv
<1> QED BY <1>1, <1>2, PTL DEF Spec

(* A stop is the business of the run it was taken in and of no later one.  *)
THEOREM StopsItsOwn == Spec => []StopsOnlyItsRun
<1>1. StopInv => StopsOnlyItsRun BY DEF StopInv, FlagIsCurrent, StopsOnlyItsRun
<1> QED BY <1>1, StopInvariance, PTL

(* While a stopped run has a project running, a collecting loop is about   *)
(* to hear of the stop or has.                                             *)
THEOREM StopIsHeard == Spec => []OneLoopHears
<1>1. StopInv => OneLoopHears
  <2> SUFFICES ASSUME StopInv, driver = "running", requested, NEW p \in Projects, project[p] = "running"
               PROVE  \E q \in Projects : Hears(q)
    BY DEF OneLoopHears
  <2>1. StopIsPassedOn /\ StopType BY TypeParts DEF StopInv
  <2>2. CASE permit BY <2>1, <2>2 DEF StopIsPassedOn, StopType, Waits, Hears
  <2>3. CASE \E q \in Projects : wait[q] \in Woken BY <2>3 DEF Woken, Hears
  <2> QED BY <2>1, <2>2, <2>3 DEF StopIsPassedOn
<1> QED BY <1>1, StopInvariance, PTL

-----------------------------------------------------------------------------
(* Whoever waits for a run to end and was answered came before the run in  *)
(* progress and before all that is deferred; what is deferred waits for    *)
(* the run, the stop being passed on is neither, and a session that ended  *)
(* left nothing in the channel.                                            *)
Once == \A m, n \in DOMAIN answered : answered[m] = answered[n] => m = n
Accounted == \A i \in 1..received : Answered(i) <=> ~Kept(i)
AnsweredFirst ==
  \A i \in 1..received : Answered(i) /\ InTurn(i) =>
    /\ current # 0 => i < current
    /\ \A n \in DOMAIN deferred : i < deferred[n]
DeferredInTurn == \A n \in DOMAIN deferred : InTurn(deferred[n])
StopApart ==
  driver = "notifying" =>
    /\ ~InTurn(received) /\ current # received
    /\ \A n \in DOMAIN deferred : deferred[n] # received
GoneEmpty == driver = "gone" => received = Len(calls) /\ deferred = <<>>

AnswerInv ==
  /\ AnswersInOrder /\ Once /\ Accounted
  /\ AnsweredFirst /\ DeferredInTurn /\ StopApart /\ GoneEmpty

LEMMA Places ==
  ASSUME ChannelType
  PROVE  /\ DOMAIN answered = 1..Len(answered) /\ DOMAIN deferred = 1..Len(deferred)
         /\ DOMAIN calls = 1..Len(calls)
         /\ \A n \in DOMAIN answered : answered[n] \in 1..received
         /\ \A n \in DOMAIN deferred : deferred[n] \in 1..received
         /\ \A i : Answered(i) => i \in 1..received
<1>1. /\ DOMAIN answered = 1..Len(answered) /\ DOMAIN deferred = 1..Len(deferred)
      /\ DOMAIN calls = 1..Len(calls)
  BY LenProperties DEF ChannelType
<1>2. \A n \in 1..Len(answered) : answered[n] \in 1..received
  BY ElementOfSeq DEF ChannelType
<1>3. \A n \in 1..Len(deferred) : deferred[n] \in 1..received
  BY ElementOfSeq DEF ChannelType
<1> QED BY <1>1, <1>2, <1>3 DEF Answered

(* One more answer, to a call that has none, after all that had to come    *)
(* before it.                                                              *)
LEMMA OneAnswer ==
  ASSUME ChannelType, ChannelType', AnswersInOrder, Once, UNCHANGED calls,
         NEW c \in 1..received', received <= received',
         answered' = Append(answered, c), ~Answered(c),
         InTurn(c) => \A i \in 1..received : Answered(i) /\ InTurn(i) => i < c
  PROVE  /\ AnswersInOrder' /\ Once'
         /\ \A i : Answered(i)' <=> Answered(i) \/ i = c
<1>0. /\ received \in Nat /\ received' \in Nat /\ Len(answered) \in Nat
      /\ answered \in Seq(1..received)
  BY Lengths DEF ChannelType
<1>1. answered \in Seq(1..received') BY <1>0, Widen
<1>2. /\ Len(answered') = Len(answered) + 1 /\ answered'[Len(answered) + 1] = c
      /\ \A n \in 1..Len(answered) : answered'[n] = answered[n]
  BY <1>1, AppendProperties
<1>3. /\ DOMAIN answered' = 1..(Len(answered) + 1) /\ DOMAIN answered = 1..Len(answered)
      /\ \A n \in DOMAIN answered : answered[n] \in 1..received
  <2>1. answered' \in Seq(1..received') BY DEF ChannelType
  <2> QED BY <1>2, <2>1, Places, LenProperties
<1>4. \A n \in DOMAIN answered' :
        \/ n \in DOMAIN answered /\ answered'[n] = answered[n] /\ n < Len(answered) + 1
        \/ n = Len(answered) + 1 /\ answered'[n] = c
  BY <1>0, <1>2, <1>3
<1>5. \A i : Answered(i)' <=> Answered(i) \/ i = c
  <2>1. \A i : Answered(i)' => Answered(i) \/ i = c BY <1>4 DEF Answered
  <2>2. \A i : Answered(i) => Answered(i)'
    <3>1. \A n \in DOMAIN answered : n \in DOMAIN answered' BY <1>0, <1>3
    <3> QED BY <1>2, <1>3, <3>1 DEF Answered
  <2>3. Len(answered) + 1 \in DOMAIN answered' BY <1>0, <1>3
  <2>4. Answered(c)' BY <1>2, <2>3 DEF Answered
  <2> QED BY <2>1, <2>2, <2>4
<1>6. Once'
  <2> SUFFICES ASSUME NEW m \in DOMAIN answered', NEW n \in DOMAIN answered',
                      answered'[m] = answered'[n]
               PROVE  m = n
    BY DEF Once
  <2> QED BY <1>4 DEF Once, Answered
<1>7. AnswersInOrder'
  <2> SUFFICES ASSUME NEW m \in DOMAIN answered', NEW n \in DOMAIN answered', m < n,
                      InTurn(answered'[m]), InTurn(answered'[n])
               PROVE  answered'[m] < answered'[n]
    BY DEF AnswersInOrder, InTurn
  <2>1. m \in DOMAIN answered /\ answered'[m] = answered[m] BY <1>0, <1>3, <1>4
  <2>2. CASE n \in DOMAIN answered /\ answered'[n] = answered[n]
    BY <2>1, <2>2 DEF AnswersInOrder
  <2>3. CASE answered'[n] = c
    <3>1. Answered(answered[m]) /\ answered[m] \in 1..received BY <1>3, <2>1 DEF Answered
    <3> QED BY <2>1, <2>3, <3>1
  <2> QED BY <1>4, <2>2, <2>3
<1> QED BY <1>5, <1>6, <1>7

LEMMA InitAnswers == Init => AnswerInv
<1> SUFFICES ASSUME Init PROVE AnswerInv OBVIOUS
<1>1. DOMAIN answered = {} /\ DOMAIN deferred = {} BY EmptySeq DEF Init
<1>2. received = 0 /\ driver = "idle" BY DEF Init
<1>3. 1..received = {} BY <1>2
<1> QED BY <1>1, <1>2, <1>3
        DEF AnswerInv, AnswersInOrder, Once, Accounted, AnsweredFirst, DeferredInTurn,
            StopApart, GoneEmpty

(* The call that is taken has no answer yet, comes after all answered ones *)
(* that wait for runs, and before what stays deferred.                     *)
LEMMA TakenAnew ==
  ASSUME ChannelType, AnswerInv, DeferredInOrder, TakeCall, driver = "idle", current = 0,
         UNCHANGED <<calls>>, ChannelType'
  PROVE  /\ received <= received'
         /\ NextCall \in 1..received' /\ ~Answered(NextCall)
         /\ \A i \in 1..received : Answered(i) /\ InTurn(i) => i < NextCall
         /\ \A n \in DOMAIN deferred' : NextCall < deferred'[n]
         /\ \A n \in DOMAIN deferred' : \E m \in DOMAIN deferred : deferred'[n] = deferred[m]
         /\ \A i \in 1..received' : (\E n \in DOMAIN deferred' : deferred'[n] = i) \/ i = NextCall
              <=> i \notin 1..received \/ \E n \in DOMAIN deferred : deferred[n] = i
<1>0. /\ Len(calls) \in Nat /\ received \in Nat /\ Len(deferred) \in Nat /\ Len(deferred') \in Nat
      /\ DOMAIN deferred = 1..Len(deferred) /\ DOMAIN deferred' = 1..Len(deferred')
      /\ \A n \in DOMAIN deferred : deferred[n] \in 1..received
      /\ \A i : Answered(i) => i \in 1..received
  <2>1. deferred' \in Seq(1..received') BY DEF ChannelType
  <2> QED BY <2>1, Lengths, Places, LenProperties
<1>1. \/ /\ deferred # <<>> /\ NextCall = deferred[1] /\ Len(deferred) >= 1
         /\ received' = received
         /\ Len(deferred') = Len(deferred) - 1
         /\ \A n \in 1..Len(deferred') : deferred'[n] = deferred[n + 1]
      \/ /\ deferred = <<>> /\ deferred' = <<>> /\ Len(deferred') = 0
         /\ NextCall = received + 1 /\ received' = received + 1
  BY Taken
<1>2. NextCall \in 1..received' BY Taken
<1>3. CASE deferred = <<>> /\ Len(deferred') = 0 /\ NextCall = received + 1 /\ received' = received + 1
  <2>1. Len(deferred) = 0 BY <1>3, EmptySeq
  <2>2. DOMAIN deferred = {} /\ DOMAIN deferred' = {} BY <1>0, <1>3, <2>1
  <2>3. \A i \in 1..received' : i = NextCall <=> i \notin 1..received BY <1>0, <1>3
  <2>4. ~Answered(NextCall) BY <1>0, <1>3
  <2>5. \A i \in 1..received : i < NextCall BY <1>0, <1>3
  <2> QED BY <1>0, <1>2, <1>3, <2>2, <2>3, <2>4, <2>5
<1>4. CASE /\ NextCall = deferred[1] /\ Len(deferred) >= 1 /\ received' = received
           /\ Len(deferred') = Len(deferred) - 1
           /\ \A n \in 1..Len(deferred') : deferred'[n] = deferred[n + 1]
  <2>1. 1 \in DOMAIN deferred BY <1>0, <1>4
  <2>2. ~Answered(NextCall) /\ NextCall \in 1..received
    BY <1>0, <1>4, <2>1 DEF AnswerInv, Accounted, Kept
  <2>3. \A i \in 1..received : Answered(i) /\ InTurn(i) => i < NextCall
    BY <1>4, <2>1 DEF AnswerInv, AnsweredFirst
  <2>4. \A n \in DOMAIN deferred' :
          n + 1 \in DOMAIN deferred /\ 1 < n + 1 /\ deferred'[n] = deferred[n + 1]
    BY <1>0, <1>4
  <2>5. \A n \in DOMAIN deferred' : NextCall < deferred'[n]
    BY <1>0, <1>4, <2>1, <2>4 DEF DeferredInOrder
  <2>6. ASSUME NEW i, NEW n \in DOMAIN deferred, deferred[n] = i
        PROVE  (\E m \in DOMAIN deferred' : deferred'[m] = i) \/ i = NextCall
    <3>1. CASE n = 1 BY <1>4, <2>6, <3>1
    <3>2. CASE n # 1
      <4>1. n - 1 \in DOMAIN deferred' /\ (n - 1) + 1 = n BY <1>0, <1>4, <3>2
      <4>2. deferred'[n - 1] = deferred[n] BY <2>4, <4>1
      <4> QED BY <2>6, <4>1, <4>2
    <3> QED BY <3>1, <3>2
  <2>7. \A n \in DOMAIN deferred' : \E m \in DOMAIN deferred : deferred'[n] = deferred[m]
    BY <2>4
  <2>8. \A i : i = NextCall => \E m \in DOMAIN deferred : deferred[m] = i BY <1>4, <2>1
  <2>9. \A i \in 1..received' : (\E n \in DOMAIN deferred' : deferred'[n] = i) \/ i = NextCall
              <=> i \notin 1..received \/ \E n \in DOMAIN deferred : deferred[n] = i
    <3> SUFFICES ASSUME NEW i \in 1..received
                 PROVE  (\E n \in DOMAIN deferred' : deferred'[n] = i) \/ i = NextCall
                          <=> \E n \in DOMAIN deferred : deferred[n] = i
      BY <1>4
    <3>1. ASSUME NEW n \in DOMAIN deferred', deferred'[n] = i
          PROVE  \E m \in DOMAIN deferred : deferred[m] = i
      <4>1. PICK m \in DOMAIN deferred : deferred'[n] = deferred[m] BY <2>7
      <4> QED BY <3>1, <4>1
    <3> QED BY <2>6, <2>8, <3>1
  <2>10. received <= received' BY <1>0, <1>4
  <2> QED BY <1>2, <2>2, <2>3, <2>5, <2>7, <2>9, <2>10
<1> QED BY <1>1, <1>3, <1>4

(* What neither takes nor answers a call.                                  *)
LEMMA AnswersStay ==
  ASSUME AnswerInv, ChannelType, DriverType, UNCHANGED <<received, deferred, answered, current>>,
         calls' = calls \/ (driver # "gone" /\ \E k \in Kinds : calls' = Append(calls, k)),
         driver' \in {driver, "running", "finishing"},
         (driver' # "notifying" /\ driver # "notifying") \/ driver' = driver
  PROVE  AnswerInv'
<1>0. /\ received \in Nat /\ Len(calls) \in Nat /\ received <= Len(calls)
      /\ \A n \in DOMAIN answered : answered[n] \in 1..received
      /\ \A n \in DOMAIN deferred : deferred[n] \in 1..received
      /\ DOMAIN answered = 1..Len(answered) /\ DOMAIN deferred = 1..Len(deferred)
  BY Lengths, Places
<1>1. \A i \in 1..received : InTurn(i)' <=> InTurn(i)
  <2>1. CASE calls' = calls BY <2>1 DEF InTurn
  <2>2. ASSUME NEW k \in Kinds, calls' = Append(calls, k) PROVE \A i \in 1..received : calls'[i] = calls[i]
    <3>1. \A i \in 1..Len(calls) : calls'[i] = calls[i] BY <2>2, AppendProperties DEF ChannelType
    <3> QED BY <1>0, <3>1
  <2> QED BY <2>1, <2>2 DEF InTurn
<1>2. AnswersInOrder' BY <1>0, <1>1 DEF AnswerInv, AnswersInOrder, InTurn
<1>3. Once' BY DEF AnswerInv, Once
<1>4. Accounted'
  <2>1. \A i : (Answered(i)' <=> Answered(i)) /\ (Kept(i)' <=> Kept(i)) BY DEF Answered, Kept
  <2> QED BY <2>1 DEF AnswerInv, Accounted
<1>5. AnsweredFirst'
  <2>1. \A i : Answered(i)' <=> Answered(i) BY DEF Answered
  <2> QED BY <1>1, <2>1 DEF AnswerInv, AnsweredFirst, InTurn
<1>6. DeferredInTurn' BY <1>0, <1>1 DEF AnswerInv, DeferredInTurn, InTurn
<1>7. StopApart'
  <2> SUFFICES ASSUME driver = "notifying", driver' = "notifying" PROVE StopApart'
    BY DEF StopApart
  <2>1. ~InTurn(received) /\ current # received BY DEF AnswerInv, StopApart
  <2>2. received \in 1..received
    <3>1. current # 0 /\ current \in 0..received BY DEF DriverType, InRun
    <3> QED BY <1>0, <3>1
  <2> QED BY <1>1, <2>1, <2>2 DEF AnswerInv, StopApart, InTurn
<1>8. GoneEmpty'
  BY DEF AnswerInv, GoneEmpty
<1> QED BY <1>2, <1>3, <1>4, <1>5, <1>6, <1>7, <1>8 DEF AnswerInv

LEMMA StartAnswers ==
  ASSUME ChannelType, DriverType, ChannelType', AnswerInv, DeferredInOrder, StartRun
  PROVE  AnswerInv'
<1> USE DEF stop, streams
<1>0. /\ driver = "idle" /\ current = 0 /\ TakeCall /\ UNCHANGED <<calls, answered>>
      /\ driver' = "discovering" /\ current' = NextCall
  BY DEF StartRun, DriverType, InRun
<1>1. /\ received <= received' /\ received \in Nat
      /\ NextCall \in 1..received' /\ ~Answered(NextCall)
      /\ \A i \in 1..received : Answered(i) /\ InTurn(i) => i < NextCall
      /\ \A n \in DOMAIN deferred' : NextCall < deferred'[n]
      /\ \A n \in DOMAIN deferred' : \E m \in DOMAIN deferred : deferred'[n] = deferred[m]
      /\ \A i \in 1..received' : (\E n \in DOMAIN deferred' : deferred'[n] = i) \/ i = NextCall
           <=> i \notin 1..received \/ \E n \in DOMAIN deferred : deferred[n] = i
  BY <1>0, TakenAnew, Lengths
<1>2. \A i : (Answered(i)' <=> Answered(i)) /\ (Answered(i) => i \in 1..received)
  BY <1>0, Places DEF Answered
<1>3. AnswersInOrder' /\ Once'
  BY <1>0 DEF AnswerInv, AnswersInOrder, Once, InTurn
<1>4. Accounted'
  <2> SUFFICES ASSUME NEW i \in 1..received' PROVE Answered(i)' <=> ~Kept(i)' BY DEF Accounted
  <2>1. Kept(i)' <=> i \notin 1..received \/ \E n \in DOMAIN deferred : deferred[n] = i
    BY <1>0, <1>1 DEF Kept
  <2>2. i \in 1..received => (Kept(i) <=> \E n \in DOMAIN deferred : deferred[n] = i)
    BY <1>0, <1>1 DEF Kept
  <2> QED BY <1>2, <2>1, <2>2 DEF AnswerInv, Accounted
<1>5. AnsweredFirst'
  <2> SUFFICES ASSUME NEW i \in 1..received', Answered(i)', InTurn(i)'
               PROVE  i < current' /\ \A n \in DOMAIN deferred' : i < deferred'[n]
    BY DEF AnsweredFirst
  <2>1. i \in 1..received /\ Answered(i) /\ InTurn(i) BY <1>0, <1>2 DEF InTurn
  <2>2. i < current' BY <1>0, <1>1, <2>1
  <2> QED BY <1>1, <2>1, <2>2 DEF AnswerInv, AnsweredFirst
<1>6. DeferredInTurn' BY <1>0, <1>1 DEF AnswerInv, DeferredInTurn, InTurn
<1> QED BY <1>0, <1>3, <1>4, <1>5, <1>6 DEF AnswerInv, StopApart, GoneEmpty

LEMMA HandleAnswers ==
  ASSUME ChannelType, DriverType, ChannelType', AnswerInv, DeferredInOrder, Handle
  PROVE  AnswerInv'
<1> USE DEF serving
<1>0. /\ driver = "idle" /\ current = 0 /\ TakeCall /\ UNCHANGED <<calls, driver, current>>
      /\ answered' = Append(answered, NextCall)
  BY DEF Handle, Answer, DriverType, InRun
<1>1. /\ received <= received' /\ received \in Nat
      /\ NextCall \in 1..received' /\ ~Answered(NextCall)
      /\ \A i \in 1..received : Answered(i) /\ InTurn(i) => i < NextCall
      /\ \A n \in DOMAIN deferred' : NextCall < deferred'[n]
      /\ \A n \in DOMAIN deferred' : \E m \in DOMAIN deferred : deferred'[n] = deferred[m]
      /\ \A i \in 1..received' : (\E n \in DOMAIN deferred' : deferred'[n] = i) \/ i = NextCall
           <=> i \notin 1..received \/ \E n \in DOMAIN deferred : deferred[n] = i
  BY <1>0, TakenAnew, Lengths
<1>2. \A i : Answered(i) => i \in 1..received BY Places
<1>3. AnswersInOrder' /\ Once' /\ \A i : Answered(i)' <=> Answered(i) \/ i = NextCall
  BY <1>0, <1>1, OneAnswer DEF AnswerInv
<1>4. Accounted'
  <2> SUFFICES ASSUME NEW i \in 1..received' PROVE Answered(i)' <=> ~Kept(i)' BY DEF Accounted
  <2>1. Kept(i)' <=> \E n \in DOMAIN deferred' : deferred'[n] = i
    BY <1>0 DEF Kept
  <2>2. i \in 1..received => (Answered(i) <=> ~\E n \in DOMAIN deferred : deferred[n] = i)
    BY <1>0 DEF AnswerInv, Accounted, Kept
  <2>3. i = NextCall => ~\E n \in DOMAIN deferred' : deferred'[n] = i
    <3>1. \A n \in DOMAIN deferred' : NextCall < deferred'[n] BY <1>1
    <3> QED BY <1>1, <3>1
  <2> QED BY <1>1, <1>2, <1>3, <2>1, <2>2, <2>3
<1>5. AnsweredFirst'
  <2> SUFFICES ASSUME NEW i \in 1..received', Answered(i)', InTurn(i)'
               PROVE  \A n \in DOMAIN deferred' : i < deferred'[n]
    BY <1>0 DEF AnsweredFirst
  <2>1. CASE i = NextCall BY <1>1, <2>1
  <2>2. CASE i # NextCall
    <3>1. i \in 1..received /\ Answered(i) /\ InTurn(i) BY <1>0, <1>2, <1>3, <2>2 DEF InTurn
    <3> QED BY <1>1, <3>1 DEF AnswerInv, AnsweredFirst
  <2> QED BY <2>1, <2>2
<1>6. DeferredInTurn' BY <1>0, <1>1 DEF AnswerInv, DeferredInTurn, InTurn
<1> QED BY <1>0, <1>3, <1>4, <1>5, <1>6 DEF AnswerInv, StopApart, GoneEmpty

(* A run, or a call that led to none, is answered.                         *)
LEMMA RunAnswers ==
  ASSUME ChannelType, DriverType, ChannelType', AnswerInv, DeferredInOrder,
         NothingToRun \/ FinishRun
  PROVE  AnswerInv'
<1>0. /\ driver # "notifying" /\ current \in 1..received /\ UNCHANGED <<calls, received, deferred>>
      /\ driver' = "idle" /\ current' = 0 /\ answered' = Append(answered, current)
  <2>1. Len(calls) \in Nat /\ received \in Nat BY Lengths
  <2> QED BY <2>1 DEF NothingToRun, FinishRun, Answer, DriverType, InRun
<1>1. received \in Nat /\ \A n \in DOMAIN deferred : deferred[n] \in 1..received /\ current < deferred[n]
  BY <1>0, Lengths, Places DEF DeferredInOrder
<1>2. ~Answered(current) BY <1>0 DEF AnswerInv, Accounted, Kept
<1>3. \A i \in 1..received : Answered(i) /\ InTurn(i) => i < current
  BY <1>0, <1>1 DEF AnswerInv, AnsweredFirst
<1>4. AnswersInOrder' /\ Once' /\ \A i : Answered(i)' <=> Answered(i) \/ i = current
  BY <1>0, <1>1, <1>2, <1>3, OneAnswer DEF AnswerInv
<1>5. Accounted'
  <2> SUFFICES ASSUME NEW i \in 1..received PROVE Answered(i)' <=> ~Kept(i)'
    BY <1>0 DEF Accounted
  <2>1. Kept(i)' <=> \E n \in DOMAIN deferred : deferred[n] = i BY <1>0, <1>1 DEF Kept
  <2>2. Kept(i) <=> i = current \/ \E n \in DOMAIN deferred : deferred[n] = i BY <1>0 DEF Kept
  <2>3. i = current => ~\E n \in DOMAIN deferred : deferred[n] = i BY <1>0, <1>1
  <2> QED BY <1>4, <2>1, <2>2, <2>3 DEF AnswerInv, Accounted
<1>6. AnsweredFirst'
  <2> SUFFICES ASSUME NEW i \in 1..received, Answered(i)', InTurn(i)
               PROVE  \A n \in DOMAIN deferred : i < deferred[n]
    BY <1>0 DEF AnsweredFirst, InTurn
  <2> QED BY <1>1, <1>4 DEF AnswerInv, AnsweredFirst
<1>7. DeferredInTurn' BY <1>0 DEF AnswerInv, DeferredInTurn, InTurn
<1> QED BY <1>0, <1>4, <1>5, <1>6, <1>7 DEF AnswerInv, StopApart, GoneEmpty

(* The stop that was passed on is answered, ahead of the run.              *)
LEMMA StopAnswers ==
  ASSUME ChannelType, DriverType, ChannelType', AnswerInv, NotifyStop
  PROVE  AnswerInv'
<1>0. /\ driver = "notifying" /\ driver' = "running" /\ received \in 1..received
      /\ UNCHANGED <<calls, received, deferred, current>> /\ answered' = Append(answered, received)
  <2>1. Len(calls) \in Nat /\ received \in Nat BY Lengths
  <2>2. current # 0 /\ current \in 0..received BY DEF NotifyStop, DriverType, InRun
  <2>3. received \in 1..received BY <2>1, <2>2
  <2> QED BY <2>3 DEF NotifyStop, Answer
<1>1. /\ ~InTurn(received) /\ current # received
      /\ \A n \in DOMAIN deferred : deferred[n] # received
  BY <1>0 DEF AnswerInv, StopApart
<1>2. ~Answered(received) BY <1>0 DEF AnswerInv, Accounted, Kept
<1>3. AnswersInOrder' /\ Once' /\ \A i : Answered(i)' <=> Answered(i) \/ i = received
  <2>1. received <= received' BY <1>0, Lengths
  <2> QED BY <1>0, <1>1, <1>2, <2>1, OneAnswer DEF AnswerInv
<1>4. Accounted'
  <2> SUFFICES ASSUME NEW i \in 1..received PROVE Answered(i)' <=> ~Kept(i)'
    BY <1>0 DEF Accounted
  <2>1. Kept(i)' <=> i = current \/ \E n \in DOMAIN deferred : deferred[n] = i BY <1>0 DEF Kept
  <2>2. Kept(i) <=> i = current \/ (\E n \in DOMAIN deferred : deferred[n] = i) \/ i = received
    BY <1>0 DEF Kept
  <2>3. i = received => ~(i = current \/ \E n \in DOMAIN deferred : deferred[n] = i) BY <1>1
  <2> QED BY <1>3, <2>1, <2>2, <2>3 DEF AnswerInv, Accounted
<1>5. AnsweredFirst'
  <2> SUFFICES ASSUME NEW i \in 1..received, Answered(i)', InTurn(i)
               PROVE  /\ current # 0 => i < current
                      /\ \A n \in DOMAIN deferred : i < deferred[n]
    BY <1>0 DEF AnsweredFirst, InTurn
  <2>1. Answered(i) BY <1>1, <1>3
  <2> QED BY <2>1 DEF AnswerInv, AnsweredFirst
<1>6. DeferredInTurn' BY <1>0 DEF AnswerInv, DeferredInTurn, InTurn
<1> QED BY <1>0, <1>3, <1>4, <1>5, <1>6 DEF AnswerInv, StopApart, GoneEmpty

(* A call that comes during a run: a stop to be passed on, or one more     *)
(* that is deferred.                                                       *)
LEMMA ReceivedAnswers ==
  ASSUME ChannelType, DriverType, ChannelType', AnswerInv, RequestStop \/ Defer
  PROVE  AnswerInv'
<1> USE DEF serving, stop
<1>0. /\ driver = "running" /\ current # 0 /\ received' = received + 1
      /\ UNCHANGED <<calls, answered, current>>
  BY DEF RequestStop, Defer, Receive, DriverType, InRun
<1>1. /\ received \in Nat /\ Len(deferred) \in Nat /\ current \in 1..received
      /\ DOMAIN deferred = 1..Len(deferred)
      /\ \A n \in DOMAIN deferred : deferred[n] \in 1..received
      /\ \A i : Answered(i) => i \in 1..received
  BY <1>0, Lengths, Places DEF DriverType
<1>2. AnswersInOrder' /\ Once' /\ \A i : Answered(i)' <=> Answered(i)
  BY <1>0 DEF AnswerInv, AnswersInOrder, Once, InTurn, Answered
<1>3. /\ \A n \in DOMAIN deferred' :
           (\E m \in DOMAIN deferred : deferred'[n] = deferred[m])
           \/ (InTurn(received + 1) /\ deferred'[n] = received + 1)
      /\ \A n \in DOMAIN deferred : \E m \in DOMAIN deferred' : deferred'[m] = deferred[n]
      /\ \/ driver' = "notifying" /\ ~InTurn(received + 1) /\ deferred' = deferred
         \/ driver' = "running" /\ \E n \in DOMAIN deferred' : deferred'[n] = received + 1
  <2>1. CASE RequestStop
    BY <1>0, <2>1 DEF RequestStop, InTurn
  <2>2. CASE Defer
    <3>1. deferred' = Append(deferred, received + 1) /\ driver' = driver /\ InTurn(received + 1)
      BY <1>0, <2>2 DEF Defer, InTurn
    <3>2. deferred \in Seq(1..(received + 1)) /\ received + 1 \in 1..(received + 1)
      BY <1>1, Widen DEF ChannelType
    <3>3. /\ Len(deferred') = Len(deferred) + 1 /\ deferred'[Len(deferred) + 1] = received + 1
          /\ \A n \in 1..Len(deferred) : deferred'[n] = deferred[n]
      BY <3>1, <3>2, AppendProperties
    <3>4. DOMAIN deferred' = 1..(Len(deferred) + 1)
      <4>1. deferred' \in Seq(1..received') BY DEF ChannelType
      <4> QED BY <3>3, <4>1, LenProperties
    <3>5. \A n \in DOMAIN deferred' : n \in DOMAIN deferred \/ n = Len(deferred) + 1 BY <1>1, <3>4
    <3>6. \A n \in DOMAIN deferred : n \in DOMAIN deferred' BY <1>1, <3>4
    <3>7. Len(deferred) + 1 \in DOMAIN deferred' BY <1>1, <3>4
    <3> QED BY <1>0, <1>1, <3>1, <3>3, <3>5, <3>6, <3>7
  <2> QED BY <2>1, <2>2
<1>4. Accounted'
  <2> SUFFICES ASSUME NEW i \in 1..(received + 1) PROVE Answered(i)' <=> ~Kept(i)'
    BY <1>0 DEF Accounted
  <2>1. CASE i = received + 1
    <3>1. ~Answered(i) BY <1>1, <2>1
    <3>2. Kept(i)' BY <1>0, <1>3, <2>1 DEF Kept
    <3> QED BY <1>2, <3>1, <3>2
  <2>2. CASE i \in 1..received
    <3>1. (\E n \in DOMAIN deferred' : deferred'[n] = i) <=> \E n \in DOMAIN deferred : deferred[n] = i
      <4>1. i # received + 1 BY <1>1, <2>2
      <4>2. ASSUME NEW n \in DOMAIN deferred', deferred'[n] = i
            PROVE  \E m \in DOMAIN deferred : deferred[m] = i
        <5>1. PICK m \in DOMAIN deferred : deferred'[n] = deferred[m] BY <1>3, <4>1, <4>2
        <5> QED BY <4>2, <5>1
      <4>3. ASSUME NEW n \in DOMAIN deferred, deferred[n] = i
            PROVE  \E m \in DOMAIN deferred' : deferred'[m] = i
        <5>1. PICK m \in DOMAIN deferred' : deferred'[m] = deferred[n] BY <1>3
        <5> QED BY <4>3, <5>1
      <4> QED BY <4>2, <4>3
    <3>2. i # received' BY <1>0, <1>1, <2>2
    <3>3. Kept(i)' <=> Kept(i) BY <1>0, <3>1, <3>2 DEF Kept
    <3> QED BY <1>2, <2>2, <3>3 DEF AnswerInv, Accounted
  <2> QED BY <1>1, <2>1, <2>2
<1>5. AnsweredFirst'
  <2> SUFFICES ASSUME NEW i \in 1..received', Answered(i)', InTurn(i)'
               PROVE  i < current' /\ \A n \in DOMAIN deferred' : i < deferred'[n]
    BY <1>0 DEF AnsweredFirst
  <2>1. i \in 1..received /\ Answered(i) /\ InTurn(i) BY <1>0, <1>1, <1>2 DEF InTurn
  <2>2. i < current /\ \A n \in DOMAIN deferred : i < deferred[n]
    BY <1>0, <2>1 DEF AnswerInv, AnsweredFirst
  <2>3. i < received + 1 BY <1>1, <2>1
  <2> QED BY <1>0, <1>3, <2>2, <2>3
<1>6. DeferredInTurn'
  <2> SUFFICES ASSUME NEW n \in DOMAIN deferred' PROVE InTurn(deferred'[n])
    BY <1>0 DEF DeferredInTurn, InTurn
  <2> QED BY <1>3 DEF AnswerInv, DeferredInTurn
<1>7. StopApart'
  <2> SUFFICES ASSUME driver' = "notifying" PROVE StopApart' BY DEF StopApart
  <2>1. ~InTurn(received + 1) /\ deferred' = deferred BY <1>3
  <2>2. current # received + 1 /\ \A n \in DOMAIN deferred : deferred[n] # received + 1 BY <1>1
  <2> QED BY <1>0, <2>1, <2>2 DEF StopApart, InTurn
<1> QED BY <1>2, <1>3, <1>4, <1>5, <1>6, <1>7 DEF AnswerInv, GoneEmpty

(* What the end of the session drops is answered in the channel's order.   *)
LEMMA EndAnswers ==
  ASSUME ChannelType, DriverType, ChannelType', AnswerInv, EndServe
  PROVE  AnswerInv'
<1> DEFINE rest == [i \in 1..(Len(calls) - received) |-> received + i]
<1>0. /\ driver = "idle" /\ deferred = <<>> /\ driver' = "gone" /\ received' = Len(calls)
      /\ UNCHANGED <<calls, deferred, current>> /\ current = 0 /\ answered' = answered \o rest
  BY DEF EndServe, DriverType, InRun
<1>1. /\ received \in Nat /\ Len(calls) \in Nat /\ received <= Len(calls) /\ Len(answered) \in Nat
      /\ DOMAIN answered = 1..Len(answered) /\ DOMAIN deferred = {}
      /\ \A n \in DOMAIN answered : answered[n] \in 1..received
      /\ \A i : Answered(i) => i \in 1..received
  <2>1. DOMAIN deferred = {} BY <1>0, EmptySeq
  <2> QED BY <2>1, Lengths, Places
<1>2. /\ rest \in Seq(1..Len(calls)) /\ Len(rest) = Len(calls) - received
      /\ \A i \in 1..(Len(calls) - received) : rest[i] = received + i
  <2>1. Len(calls) - received \in Nat BY <1>1
  <2>2. \A i \in 1..(Len(calls) - received) : received + i \in 1..Len(calls) BY <1>1
  <2> QED BY <2>1, <2>2, IsASeq, LenProperties
<1> HIDE DEF rest
<1>3. answered \in Seq(1..Len(calls)) BY <1>1, Widen DEF ChannelType
<1>4. /\ DOMAIN answered' = 1..(Len(answered) + Len(calls) - received)
      /\ \A n \in DOMAIN answered : n \in DOMAIN answered' /\ answered'[n] = answered[n]
      /\ \A n \in DOMAIN answered' : n \notin DOMAIN answered =>
           /\ n > Len(answered) /\ answered'[n] = received + (n - Len(answered))
  <2>1. /\ Len(answered') = Len(answered) + Len(rest)
        /\ \A n \in 1..(Len(answered) + Len(rest)) :
             answered'[n] = IF n <= Len(answered) THEN answered[n] ELSE rest[n - Len(answered)]
    BY <1>0, <1>2, <1>3, ConcatProperties
  <2>2. DOMAIN answered' = 1..(Len(answered) + Len(calls) - received)
    <3>1. answered' \in Seq(1..received') BY DEF ChannelType
    <3> QED BY <1>1, <1>2, <2>1, <3>1, LenProperties
  <2>3. \A n \in DOMAIN answered : n \in 1..(Len(answered) + Len(rest)) /\ n <= Len(answered)
    BY <1>1, <1>2
  <2>4. ASSUME NEW n \in DOMAIN answered', n \notin DOMAIN answered
        PROVE  n > Len(answered) /\ answered'[n] = received + (n - Len(answered))
    <3>1. n \in Int /\ 1 <= n /\ n <= Len(answered) + (Len(calls) - received) /\ ~(n <= Len(answered))
      BY <1>1, <2>2, <2>4
    <3>2. n > Len(answered) /\ n - Len(answered) \in 1..(Len(calls) - received) BY <1>1, <3>1
    <3>3. Len(rest) = Len(calls) - received BY <1>2
    <3>4. n \in 1..(Len(answered) + Len(rest)) BY <1>1, <3>1, <3>3
    <3>5. answered'[n] = rest[n - Len(answered)] BY <1>1, <2>1, <3>2, <3>4
    <3> QED BY <1>2, <3>2, <3>5
  <2> QED BY <1>1, <1>2, <2>1, <2>2, <2>3, <2>4
<1>5. Once'
  <2> SUFFICES ASSUME NEW m \in DOMAIN answered', NEW n \in DOMAIN answered',
                      answered'[m] = answered'[n]
               PROVE  m = n
    BY DEF Once
  <2>0. m \in Int /\ n \in Int BY <1>4
  <2>1. CASE m \in DOMAIN answered /\ n \in DOMAIN answered BY <1>4, <2>1 DEF AnswerInv, Once
  <2>2. CASE m \notin DOMAIN answered /\ n \notin DOMAIN answered BY <1>1, <1>4, <2>0, <2>2
  <2>3. CASE m \in DOMAIN answered /\ n \notin DOMAIN answered
    <3>1. answered'[m] \in 1..received /\ answered'[n] > received BY <1>1, <1>4, <2>0, <2>3
    <3> QED BY <1>1, <3>1
  <2>4. CASE n \in DOMAIN answered /\ m \notin DOMAIN answered
    <3>1. answered'[n] \in 1..received /\ answered'[m] > received BY <1>1, <1>4, <2>0, <2>4
    <3> QED BY <1>1, <3>1
  <2> QED BY <2>1, <2>2, <2>3, <2>4
<1>6. AnswersInOrder'
  <2> SUFFICES ASSUME NEW m \in DOMAIN answered', NEW n \in DOMAIN answered', m < n,
                      InTurn(answered'[m]), InTurn(answered'[n])
               PROVE  answered'[m] < answered'[n]
    BY <1>0 DEF AnswersInOrder, InTurn
  <2>0. m \in Int /\ n \in Int BY <1>4
  <2>1. CASE m \in DOMAIN answered /\ n \in DOMAIN answered
    BY <1>4, <2>1 DEF AnswerInv, AnswersInOrder
  <2>2. CASE m \notin DOMAIN answered /\ n \notin DOMAIN answered BY <1>1, <1>4, <2>0, <2>2
  <2>3. CASE m \in DOMAIN answered /\ n \notin DOMAIN answered
    <3>1. answered'[m] \in 1..received BY <1>1, <1>4, <2>3
    <3>2. answered'[n] = received + (n - Len(answered)) /\ n > Len(answered) BY <1>4, <2>3
    <3> QED BY <1>1, <2>0, <3>1, <3>2
  <2>4. CASE n \in DOMAIN answered /\ m \notin DOMAIN answered BY <1>1, <1>4, <2>0, <2>4
  <2> QED BY <2>1, <2>2, <2>3, <2>4
<1>7. \A i \in 1..received' : Answered(i)' /\ ~Kept(i)'
  <2> SUFFICES ASSUME NEW i \in 1..Len(calls) PROVE Answered(i)' /\ ~Kept(i)'
    BY <1>0
  <2>1. ~Kept(i)' BY <1>0, <1>1 DEF Kept
  <2>2. CASE i \in 1..received
    <3>1. Answered(i) BY <1>0, <1>1, <2>2 DEF AnswerInv, Accounted, Kept
    <3> QED BY <1>4, <2>1, <3>1 DEF Answered
  <2>3. CASE i \notin 1..received
    <3>1. /\ Len(answered) + i - received \in DOMAIN answered'
          /\ Len(answered) + i - received \notin DOMAIN answered
      BY <1>1, <1>4, <2>3
    <3>2. answered'[Len(answered) + i - received] = i BY <1>1, <1>4, <3>1
    <3> QED BY <2>1, <3>1, <3>2 DEF Answered
  <2> QED BY <2>2, <2>3
<1>8. Accounted' BY <1>7 DEF Accounted
<1>9. AnsweredFirst' /\ DeferredInTurn' /\ StopApart' /\ GoneEmpty'
  BY <1>0, <1>1 DEF AnsweredFirst, DeferredInTurn, StopApart, GoneEmpty
<1> QED BY <1>5, <1>6, <1>8, <1>9 DEF AnswerInv

LEMMA AnswerStep == StopInv /\ StopInv' /\ AnswerInv /\ [Next]_vars => AnswerInv'
<1> SUFFICES ASSUME StopInv, StopInv', AnswerInv, [Next]_vars PROVE AnswerInv' OBVIOUS
<1> USE DEF channel, serving
<1>0. ChannelType /\ DriverType /\ DeferredInOrder BY TypeParts DEF StopInv
<1>1. ChannelType' BY DEF StopInv, TypeOK, ChannelType
<1>2. CASE StartRun BY <1>0, <1>1, <1>2, StartAnswers
<1>3. CASE Handle BY <1>0, <1>1, <1>3, HandleAnswers
<1>4. CASE NothingToRun \/ FinishRun BY <1>0, <1>1, <1>4, RunAnswers
<1>5. CASE NotifyStop BY <1>0, <1>1, <1>5, StopAnswers
<1>6. CASE RequestStop \/ Defer BY <1>0, <1>1, <1>6, ReceivedAnswers
<1>7. CASE EndServe BY <1>0, <1>1, <1>7, EndAnswers
<1>8. CASE Execute BY <1>0, <1>8, AnswersStay DEF Execute
<1>9. CASE ExecuteEnds BY <1>0, <1>9, AnswersStay DEF ExecuteEnds
<1>10. ASSUME NEW p \in Projects, Launch(p) PROVE AnswerInv'
  BY <1>0, <1>10, AnswersStay DEF Launch
<1>11. ASSUME NEW k \in Kinds, Call(k) PROVE AnswerInv'
  BY <1>0, <1>11, AnswersStay DEF Call
<1>12. CASE Report BY <1>0, <1>12, AnswersStay DEF Report
<1>13. ASSUME NEW p \in Projects, Works(p) PROVE AnswerInv'
  <2>1. UNCHANGED <<calls, received, deferred, answered, driver, current>> BY <1>13, WorkLeaves
  <2> QED BY <1>0, <2>1, AnswersStay
<1>14. CASE UNCHANGED vars BY <1>0, <1>14, AnswersStay DEF vars
<1> QED BY <1>2, <1>3, <1>4, <1>5, <1>6, <1>7, <1>8, <1>9, <1>10, <1>11, <1>12, <1>13, <1>14
        DEF Next, Driver, Works

LEMMA AnswerInvariance == Spec => [](TypeOK /\ AnswerInv)
<1>1. Init => AnswerInv BY InitAnswers
<1>2. StopInv => TypeOK BY DEF StopInv
<1> QED BY <1>1, <1>2, AnswerStep, StopInvariance, PTL DEF Spec

(* The answers to the calls that wait for a run to end come in the order   *)
(* of the calls, however many runs, stops and listings are mixed.          *)
THEOREM InOrder == Spec => []AnswersInOrder
<1>1. AnswerInv => AnswersInOrder BY DEF AnswerInv
<1> QED BY <1>1, AnswerInvariance, PTL

(* No call is answered twice, and a call without an answer is still held   *)
(* by the serving task; none is left when the session is over.             *)
THEOREM NoneTwiceNoneLost == Spec => []AnsweredOnce
<1>1. TypeOK /\ AnswerInv => AnsweredOnce
  <2> SUFFICES ASSUME TypeOK, AnswerInv PROVE AnsweredOnce OBVIOUS
  <2>1. ChannelType /\ DriverType BY TypeParts
  <2>2. ASSUME driver = "gone", NEW i \in DOMAIN calls PROVE Answered(i)
    <3>1. received = Len(calls) /\ deferred = <<>> BY <2>2 DEF AnswerInv, GoneEmpty
    <3>2. i \in 1..received BY <2>1, <2>2, <3>1, Places
    <3>3. current = 0 BY <2>1, <2>2 DEF DriverType, InRun
    <3>4. DOMAIN deferred = {} BY <3>1, EmptySeq
    <3>5. i # 0 BY <2>1, <3>2, Lengths
    <3> QED BY <2>2, <3>2, <3>3, <3>4, <3>5 DEF AnswerInv, Accounted, Kept
  <2> QED BY <2>2 DEF AnsweredOnce, AnswerInv, Once, Accounted
<1> QED BY <1>1, AnswerInvariance, PTL
=============================================================================
