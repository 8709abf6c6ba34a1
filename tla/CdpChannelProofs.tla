-------------------------- MODULE CdpChannelProofs --------------------------
(***************************************************************************)
(* Proofs about CdpChannel for any commands, sessions and queue: the type  *)
(* invariant, that the pending map holds nothing nobody waits for, that a  *)
(* failed call is told the truth, and that no call waits for nobody.       *)
(***************************************************************************)
EXTENDS CdpChannel, SequenceTheorems, TLAPS

(* TypeOK in three parts: the calls, the tasks and the frames.             *)
CallTypes ==
  /\ phase \in [Commands -> {"idle", "encoding", "done"} \cup Open]
  /\ result \in [Commands -> Values \cup {"none", "unsent", "timeout", "cancelled"}]
  /\ reply \in [Commands -> Values \cup {"none"}]
  /\ pending \subseteq Commands

TaskTypes ==
  /\ disconnected \in BOOLEAN /\ writer \in BOOLEAN /\ shutdown \in BOOLEAN /\ up \in BOOLEAN
  /\ ending \in [Enders -> {"idle", "flagged", "failing", "done", "closed"}]
  /\ doomed \in [Enders -> SUBSET Commands]
  /\ attached \subseteq Sessions /\ held \subseteq Commands /\ answered \subseteq Commands

QueueType == queue \in Seq(Commands) /\ Len(queue) <= QueueCap

InboundType == inbound \in Seq(Frames)

ReaderType ==
  \/ reader \in {Idle, Aborted}
  \/ \E f \in Frames : reader = Holding(f)
  \/ \E ids \in SUBSET Commands : reader = Failing(ids)

LEMMA TypeParts ==
  TypeOK <=> CallTypes /\ TaskTypes /\ QueueType /\ InboundType /\ ReaderType
  BY DEF TypeOK, CallTypes, TaskTypes, QueueType, InboundType, ReaderType

(* What the reader holds is what its state says.                           *)
LEMMA ReaderHolds ==
  ASSUME ReaderType, reader.at = "holding"
  PROVE  reader.frame \in Frames /\ reader = Holding(reader.frame)
  BY DEF ReaderType, Idle, Aborted, Holding, Failing

LEMMA ReaderFails ==
  ASSUME ReaderType, reader.at = "failing"
  PROVE  reader.ids \subseteq Commands /\ reader = Failing(reader.ids)
  BY DEF ReaderType, Idle, Aborted, Holding, Failing

LEMMA FrameParts ==
  ASSUME NEW f \in Frames
  PROVE  /\ f.kind \in {"answer", "detached"}
         /\ f.kind = "answer" => f.of \in Commands /\ f.value \in {"ok", "error", "gone"}
         /\ f.kind = "detached" => f.of \in Sessions
  BY DEF Frames

LEMMA NewFrames ==
  /\ \A c \in Commands, v \in {"ok", "error", "gone"} : Answer(c, v) \in Frames
  /\ \A s \in Sessions : Detached(s) \in Frames
  BY DEF Answer, Detached, Frames

LEMMA InitType == Init => TypeOK
<1> SUFFICES ASSUME Init PROVE TypeOK OBVIOUS
<1>1. CallTypes BY DEF Init, CallTypes, Open, Values
<1>2. TaskTypes BY DEF Init, TaskTypes, Enders
<1>3. QueueType BY ChannelAssumption DEF Init, QueueType
<1>4. InboundType BY DEF Init, InboundType
<1>5. ReaderType BY DEF Init, ReaderType
<1> QED BY <1>1, <1>2, <1>3, <1>4, <1>5, TypeParts

(* The calls.                                                              *)
LEMMA CallerTypes ==
  ASSUME TypeOK, NEW c \in Commands, Caller(c) \/ Timeout(c) \/ Cancel(c)
  PROVE  TypeOK'
<1> USE DEF Caller, Begin, Register, Recheck, Enqueue, Receive, Timeout, Cancel, GiveUp
<1>0. CallTypes /\ TaskTypes /\ QueueType /\ InboundType /\ ReaderType BY TypeParts
<1>1. CallTypes'
  BY <1>0 DEF CallTypes, Proceed, Return, Open, Values
<1>2. TaskTypes' BY <1>0 DEF TaskTypes, tasks, browser
<1>3. QueueType'
  <2>1. CASE UNCHANGED queue BY <1>0, <2>1 DEF QueueType
  <2>2. CASE Room /\ queue' = Append(queue, c)
    <3>1. queue' \in Seq(Commands) /\ Len(queue') = Len(queue) + 1 /\ Len(queue) \in Nat
      BY <1>0, <2>2, AppendProperties, LenProperties DEF QueueType
    <3> QED BY <3>1, <2>2, ChannelAssumption DEF QueueType, Room
  <2> QED BY <2>1, <2>2 DEF tasks
<1>4. InboundType' BY <1>0 DEF InboundType
<1>5. ReaderType' BY <1>0 DEF ReaderType
<1> QED BY <1>1, <1>2, <1>3, <1>4, <1>5 DEF TypeOK, CallTypes, TaskTypes, QueueType, InboundType, ReaderType

(* The tasks.                                                              *)
LEMMA TaskStepTypes ==
  ASSUME TypeOK, Write \/ WriterStops \/ AbortReader \/ CloseReturns \/ \E e \in Enders : Ender(e)
  PROVE  TypeOK'
<1> USE DEF Write, WriterStops, AbortReader, CloseReturns, Ender, FailAllBegins, FailAllCollects,
            FailAllFails, FailAllEnds, Settle
<1>0. CallTypes /\ TaskTypes /\ QueueType /\ InboundType /\ ReaderType BY TypeParts
<1>1. CallTypes'
  <2>1. ASSUME NEW e \in Enders, NEW c \in doomed[e], Settle(c, "closed"), UNCHANGED <<phase, result>>
        PROVE  CallTypes'
    <3>1. c \in Commands BY <1>0 DEF TaskTypes
    <3> QED BY <1>0, <2>1, <3>1 DEF CallTypes, Values
  <2>2. CASE UNCHANGED <<calls, pending>> BY <1>0, <2>2 DEF CallTypes, calls
  <2> QED BY <2>1, <2>2 DEF calls
<1>2. TaskTypes'
  <2>1. queue # <<>> => Head(queue) \in Commands
    BY <1>0, HeadTailProperties DEF QueueType
  <2>2. CASE Write BY <1>0, <2>1, <2>2 DEF TaskTypes
  <2>3. CASE WriterStops \/ AbortReader \/ CloseReturns
    BY <1>0, <2>3 DEF TaskTypes, tasks, browser
  <2>4. ASSUME NEW e \in Enders, Ender(e) PROVE TaskTypes'
    <3>1. CASE FailAllBegins(e) \/ FailAllEnds(e) BY <1>0, <3>1 DEF TaskTypes, tasks, browser
    <3>2. CASE FailAllCollects(e) BY <1>0, <3>2 DEF TaskTypes, CallTypes, tasks, browser
    <3>3. CASE FailAllFails(e) BY <1>0, <3>3 DEF TaskTypes, tasks, browser
    <3> QED BY <2>4, <3>1, <3>2, <3>3
  <2> QED BY <2>2, <2>3, <2>4
<1>3. QueueType'
  <2>1. CASE UNCHANGED queue BY <1>0, <2>1 DEF QueueType
  <2>2. CASE queue # <<>> /\ queue' = Tail(queue)
    BY <1>0, <2>2, HeadTailProperties, ChannelAssumption, LenProperties DEF QueueType
  <2>3. CASE queue' = <<>> BY <2>3, ChannelAssumption DEF QueueType
  <2> QED BY <2>1, <2>2, <2>3 DEF tasks
<1>4. InboundType' BY <1>0 DEF InboundType
<1>5. ReaderType' BY <1>0 DEF ReaderType
<1> QED BY <1>1, <1>2, <1>3, <1>4, <1>5 DEF TypeOK, CallTypes, TaskTypes, QueueType, InboundType, ReaderType

LEMMA ReaderTypes ==
  ASSUME TypeOK, Reader
  PROVE  TypeOK'
<1>0. CallTypes /\ TaskTypes /\ QueueType /\ InboundType /\ ReaderType BY TypeParts
<1>1. CASE TakeFrame
  <2>1. Head(inbound) \in Frames /\ Tail(inbound) \in Seq(Frames)
    BY <1>0, <1>1, HeadTailProperties DEF TakeFrame, InboundType
  <2>2. ReaderType' BY <1>1, <2>1 DEF TakeFrame, ReaderType
  <2>3. InboundType' BY <1>1, <2>1 DEF TakeFrame, InboundType
  <2>4. CallTypes' /\ TaskTypes' /\ QueueType'
    BY <1>0, <1>1 DEF TakeFrame, CallTypes, TaskTypes, QueueType, calls, tasks, browser
  <2> QED BY <2>2, <2>3, <2>4 DEF TypeOK, CallTypes, TaskTypes, QueueType, InboundType, ReaderType
<1>2. CASE DispatchAnswer
  <2>1. reader.frame.of \in Commands /\ reader.frame.value \in {"ok", "error", "gone"}
    BY <1>0, <1>2, ReaderHolds, FrameParts DEF DispatchAnswer
  <2>2. CallTypes'
    BY <1>0, <1>2, <2>1 DEF DispatchAnswer, Settle, CallTypes, Values
  <2>3. TaskTypes' /\ QueueType' /\ InboundType' /\ ReaderType'
    BY <1>0, <1>2 DEF DispatchAnswer, TaskTypes, QueueType, InboundType, ReaderType, tasks, browser
  <2> QED BY <2>2, <2>3 DEF TypeOK, CallTypes, TaskTypes, QueueType, InboundType, ReaderType
<1>3. CASE DispatchDetached
  <2>1. PendingOf(reader.frame.of) \subseteq Commands
    BY <1>0 DEF PendingOf, CallTypes
  <2>2. ReaderType' BY <1>3, <2>1 DEF DispatchDetached, ReaderType
  <2>3. CallTypes' /\ TaskTypes' /\ QueueType' /\ InboundType'
    BY <1>0, <1>3 DEF DispatchDetached, CallTypes, TaskTypes, QueueType, InboundType, calls, tasks, browser
  <2> QED BY <2>2, <2>3 DEF TypeOK, CallTypes, TaskTypes, QueueType, InboundType, ReaderType
<1>4. CASE FailSessionCommand
  <2>1. reader.ids \subseteq Commands
    BY <1>0, <1>4, ReaderFails DEF FailSessionCommand
  <2>2. ReaderType' BY <1>4, <2>1 DEF FailSessionCommand, ReaderType
  <2>3. CallTypes' BY <1>0, <1>4, <2>1 DEF FailSessionCommand, Settle, CallTypes, Values
  <2>4. TaskTypes' /\ QueueType' /\ InboundType'
    BY <1>0, <1>4 DEF FailSessionCommand, TaskTypes, QueueType, InboundType, tasks, browser
  <2> QED BY <2>2, <2>3, <2>4 DEF TypeOK, CallTypes, TaskTypes, QueueType, InboundType, ReaderType
<1> QED BY <1>1, <1>2, <1>3, <1>4 DEF Reader

LEMMA BrowserTypes ==
  ASSUME TypeOK, Browser
  PROVE  TypeOK'
<1>0. CallTypes /\ TaskTypes /\ QueueType /\ InboundType /\ ReaderType BY TypeParts
<1> USE DEF Browser, BrowserRefuses, BrowserAnswers, BrowserDetaches, BrowserExits
<1>1. CallTypes' /\ QueueType' /\ ReaderType'
  BY <1>0 DEF CallTypes, QueueType, ReaderType, calls, tasks
<1>2. TaskTypes' BY <1>0 DEF TaskTypes, tasks
<1>3. InboundType'
  <2>1. ASSUME NEW f \in Frames, inbound' = Append(inbound, f) PROVE InboundType'
    BY <1>0, <2>1, AppendProperties DEF InboundType
  <2>2. ASSUME NEW n \in 0..Len(inbound), inbound' = SubSeq(inbound, 1, n) PROVE InboundType'
    <3>1. Len(inbound) \in Nat /\ inbound \in Seq(Frames)
      BY <1>0, LenProperties DEF InboundType
    <3>2. \A i \in 1..n : inbound[i] \in Frames BY <3>1, ElementOfSeq
    <3> QED BY <2>2, <3>1, <3>2 DEF InboundType
  <2> QED BY <2>1, <2>2, NewFrames
<1> QED BY <1>1, <1>2, <1>3 DEF TypeOK, CallTypes, TaskTypes, QueueType, InboundType, ReaderType

LEMMA TypeStep == TypeOK /\ [Next]_vars => TypeOK'
<1> SUFFICES ASSUME TypeOK, [Next]_vars PROVE TypeOK' OBVIOUS
<1>1. CASE Next BY <1>1, CallerTypes, TaskStepTypes, ReaderTypes, BrowserTypes DEF Next
<1>2. CASE UNCHANGED vars BY <1>2 DEF vars, calls, tasks, browser, TypeOK
<1> QED BY <1>1, <1>2

(* An answered entry is out of the map, and its call has registered it.    *)
Replied ==
  \A c \in Commands : reply[c] # "none" => c \notin pending /\ phase[c] \notin {"idle", "encoding"}

(* A fail_all_pending raises the flag before it collects: what it has not  *)
(* collected is of calls that look at the flag after they registered.      *)
Draining ==
  \A e \in Enders :
    /\ ending[e] # "idle" => disconnected
    /\ ending[e] = "failing" => \A c \in pending : c \in doomed[e] \/ phase[c] = "registered"

Mapped == Replied /\ Draining /\ PendingIsAwaited

PendInv == TypeOK /\ Mapped

LEMMA PendInit == Init => PendInv
<1> SUFFICES ASSUME Init PROVE PendInv OBVIOUS
<1>1. TypeOK BY InitType
<1>2. Replied /\ Draining /\ PendingIsAwaited
  BY DEF Init, Replied, Draining, PendingIsAwaited, Ended
<1> QED BY <1>1, <1>2 DEF PendInv, Mapped

LEMMA PendStep == PendInv /\ [Next]_vars => PendInv'
<1> SUFFICES ASSUME PendInv, [Next]_vars PROVE PendInv' OBVIOUS
<1>0. TypeOK' BY TypeStep DEF PendInv
<1>1. CallTypes /\ TaskTypes /\ ReaderType /\ Mapped BY TypeParts DEF PendInv
<1> USE DEF Mapped, Replied, Draining, PendingIsAwaited, Ended, Open, calls, tasks, browser
<1>2. ASSUME NEW c \in Commands, Begin(c) PROVE Mapped'
  BY <1>1, <1>2 DEF Begin, CallTypes, TaskTypes, Return, Proceed
<1>3. ASSUME NEW c \in Commands, Register(c) PROVE Mapped'
  BY <1>1, <1>3 DEF Register, CallTypes, TaskTypes, Proceed
<1>4. ASSUME NEW c \in Commands, Recheck(c) PROVE Mapped'
  BY <1>1, <1>4 DEF Recheck, CallTypes, TaskTypes, Return, Proceed
<1>5. ASSUME NEW c \in Commands, Enqueue(c) PROVE Mapped'
  BY <1>1, <1>5 DEF Enqueue, CallTypes, TaskTypes, Return, Proceed
<1>6. ASSUME NEW c \in Commands, Receive(c) PROVE Mapped'
  BY <1>1, <1>6 DEF Receive, CallTypes, TaskTypes, Return
<1>7. ASSUME NEW c \in Commands, Timeout(c) \/ Cancel(c) PROVE Mapped'
  BY <1>1, <1>7 DEF Timeout, Cancel, GiveUp, CallTypes, Return
<1>8. ASSUME Write \/ WriterStops \/ TakeFrame \/ DispatchDetached \/ AbortReader PROVE Mapped'
  BY <1>1, <1>8 DEF Write, WriterStops, TakeFrame, DispatchDetached, AbortReader
<1>9. ASSUME Browser PROVE Mapped'
  BY <1>1, <1>9 DEF Browser, BrowserRefuses, BrowserAnswers, BrowserDetaches, BrowserExits
<1>10. ASSUME NEW c \in Commands, NEW v, v # "none", Settle(c, v), UNCHANGED <<phase, ending, doomed, disconnected>>
      PROVE Mapped'
  BY <1>1, <1>10 DEF Settle, CallTypes
<1>11. ASSUME DispatchAnswer PROVE Mapped'
  <2>1. reader.frame.of \in Commands /\ reader.frame.value # "none"
    BY <1>1, <1>11, ReaderHolds, FrameParts DEF DispatchAnswer
  <2> QED BY <1>11, <2>1, <1>10 DEF DispatchAnswer
<1>12. ASSUME FailSessionCommand PROVE Mapped'
  <2>1. reader.ids \subseteq Commands BY <1>1, <1>12, ReaderFails DEF FailSessionCommand
  <2>2. CASE UNCHANGED <<pending, reply>> BY <1>1, <1>12, <2>2 DEF FailSessionCommand
  <2> QED BY <1>12, <2>1, <2>2, <1>10 DEF FailSessionCommand
<1>13. ASSUME NEW e \in Enders, FailAllBegins(e) PROVE Mapped'
  BY <1>1, <1>13 DEF FailAllBegins, TaskTypes, CallTypes
<1>14. ASSUME NEW e \in Enders, FailAllCollects(e) PROVE Mapped'
  BY <1>1, <1>14 DEF FailAllCollects, TaskTypes, CallTypes
<1>15. ASSUME NEW e \in Enders, FailAllEnds(e) PROVE Mapped'
  BY <1>1, <1>15 DEF FailAllEnds, TaskTypes, CallTypes
<1>16. ASSUME NEW e \in Enders, FailAllFails(e) PROVE Mapped'
  <2>1. PICK c \in doomed[e] :
          Settle(c, "closed") /\ doomed' = [doomed EXCEPT ![e] = @ \ {c}]
    BY <1>16 DEF FailAllFails
  <2>2. c \in Commands /\ UNCHANGED <<phase, ending, disconnected>>
    BY <1>1, <1>16 DEF FailAllFails, TaskTypes
  <2>3. pending' = pending \ {c} /\ \A d \in Enders : doomed[d] \ {c} \subseteq doomed'[d]
    BY <1>1, <2>1 DEF Settle, TaskTypes
  <2>4. Replied' BY <1>1, <2>1, <2>2, <2>3 DEF Settle, CallTypes
  <2>5. Draining' /\ PendingIsAwaited' BY <1>1, <2>2, <2>3
  <2> QED BY <2>4, <2>5
<1>17. ASSUME CloseReturns PROVE Mapped'
  BY <1>1, <1>17 DEF CloseReturns, TaskTypes, Enders
<1>18. ASSUME UNCHANGED vars PROVE Mapped'
  BY <1>1, <1>18 DEF vars
<1> QED BY <1>0, <1>2, <1>3, <1>4, <1>5, <1>6, <1>7, <1>8, <1>9, <1>11, <1>12,
         <1>13, <1>14, <1>15, <1>16, <1>17, <1>18 DEF PendInv, Next, Caller,
         Reader, Ender

(* The channel's state has its type.                                       *)
THEOREM TypeCorrect == Spec => []TypeOK
<1>1. PendInv => TypeOK BY DEF PendInv
<1> QED BY <1>1, PendInit, PendStep, PTL DEF Spec

(* Every entry of the pending map belongs to a call that waits, and none   *)
(* outlives the end of the connection, for any number of commands.         *)
THEOREM Awaited == Spec => []PendingIsAwaited
<1>1. PendInv => PendingIsAwaited BY DEF PendInv, Mapped
<1> QED BY <1>1, PendInit, PendStep, PTL DEF Spec

(* A session that went does not come back, nor does a connection.          *)
Lost(s) == s \notin attached \cup {Root}

Caused(c, v) ==
  /\ v \in {"detached", "gone"} => Lost(SessionOf[c])
  /\ v = "closed" => disconnected
  /\ v \in {"ok", "error"} => c \in answered

FrameCaused(f) ==
  /\ f.kind = "answer" => Caused(f.of, f.value)
  /\ f.kind = "detached" => Lost(f.of)

(* What a call is told has its cause from the frame on: on the wire, in    *)
(* the reader's hands and in the entry's oneshot.                          *)
OnTheWire == \A i \in 1..Len(inbound) : FrameCaused(inbound[i])

InHand ==
  /\ reader.at = "holding" => FrameCaused(reader.frame)
  /\ reader.at = "failing" => \A c \in reader.ids : Lost(SessionOf[c])

Told ==
  \A c \in Commands :
    /\ Caused(c, reply[c])
    /\ Caused(c, result[c])
    /\ result[c] = "unsent" => ~up \/ disconnected

WriterEnds ==
  /\ shutdown \/ (\E e \in Enders : ending[e] # "idle") => disconnected
  /\ ~writer => ~up \/ disconnected

CauseInv == TypeOK /\ OnTheWire /\ InHand /\ Told /\ WriterEnds

LEMMA CauseInit == Init => CauseInv
<1> SUFFICES ASSUME Init PROVE CauseInv OBVIOUS
<1>1. TypeOK BY InitType
<1>2. OnTheWire /\ InHand BY DEF Init, OnTheWire, InHand, Idle
<1>3. Told /\ WriterEnds BY DEF Init, Told, Caused, WriterEnds
<1> QED BY <1>1, <1>2, <1>3 DEF CauseInv

(* Causes last: sessions are only lost, answers only given, and the flag   *)
(* only raised.                                                            *)
LEMMA CausesLast ==
  ASSUME TypeOK, [Next]_vars
  PROVE  /\ attached' \subseteq attached /\ answered \subseteq answered'
         /\ disconnected => disconnected'
         /\ ~up => ~up'
<1>1. CASE UNCHANGED vars BY <1>1 DEF vars, browser
<1>2. ASSUME NEW c \in Commands, Caller(c) \/ Timeout(c) \/ Cancel(c)
      PROVE  UNCHANGED <<browser, disconnected>>
  BY <1>2 DEF Caller, Begin, Register, Recheck, Enqueue, Receive, Timeout, Cancel, GiveUp
<1>3. ASSUME Write \/ WriterStops \/ AbortReader \/ CloseReturns \/ Reader
      PROVE  UNCHANGED <<attached, answered, disconnected, up>>
  BY <1>3 DEF Write, WriterStops, AbortReader, CloseReturns, Reader, TakeFrame, DispatchAnswer,
              DispatchDetached, FailSessionCommand, browser
<1>4. ASSUME NEW e \in Enders, Ender(e)
      PROVE  UNCHANGED browser /\ (disconnected => disconnected')
  BY <1>4 DEF Ender, FailAllBegins, FailAllCollects, FailAllFails, FailAllEnds
<1>5. ASSUME Browser
      PROVE  /\ attached' \subseteq attached /\ answered \subseteq answered'
             /\ UNCHANGED disconnected /\ (~up => ~up')
  BY <1>5 DEF Browser, BrowserRefuses, BrowserAnswers, BrowserDetaches, BrowserExits
<1> QED BY <1>1, <1>2, <1>3, <1>4, <1>5 DEF Next, browser

LEMMA CausedLasts ==
  ASSUME TypeOK, [Next]_vars
  PROVE  /\ \A c, v : Caused(c, v) => Caused(c, v)'
         /\ \A f : FrameCaused(f) => FrameCaused(f)'
         /\ \A s : Lost(s) => Lost(s)'
  BY CausesLast DEF Caused, FrameCaused, Lost

(* What the browser writes has its cause already.                          *)
LEMMA WireStep == CauseInv /\ [Next]_vars => OnTheWire'
<1> SUFFICES ASSUME CauseInv, [Next]_vars PROVE OnTheWire' OBVIOUS
<1>1. TypeOK /\ InboundType /\ OnTheWire BY TypeParts DEF CauseInv
<1>2. inbound \in Seq(Frames) /\ Len(inbound) \in Nat BY <1>1, LenProperties DEF InboundType
<1>3. CASE UNCHANGED inbound BY <1>1, <1>3, CausedLasts DEF OnTheWire
<1>4. ASSUME NEW f \in Frames, FrameCaused(f)', inbound' = Append(inbound, f) PROVE OnTheWire'
  <2>1. Len(inbound') = Len(inbound) + 1 /\ inbound'[Len(inbound) + 1] = f
        /\ \A i \in 1..Len(inbound) : inbound'[i] = inbound[i]
    BY <1>2, <1>4, AppendProperties
  <2>2. ASSUME NEW i \in 1..Len(inbound') PROVE FrameCaused(inbound[i])'
    <3>1. CASE i = Len(inbound) + 1 BY <1>4, <2>1, <3>1
    <3>2. CASE i \in 1..Len(inbound)
      <4>1. FrameCaused(inbound[i]) BY <1>1, <3>2 DEF OnTheWire
      <4> QED BY <4>1, <2>1, <3>2, <1>1, CausesLast DEF FrameCaused, Caused, Lost
    <3> QED BY <1>2, <2>1, <3>1, <3>2
  <2> QED BY <2>2 DEF OnTheWire
<1>5. CASE TakeFrame
  <2>1. Len(inbound') = Len(inbound) - 1 /\ \A i \in 1..Len(inbound') : inbound'[i] = inbound[i + 1]
    BY <1>2, <1>5, HeadTailProperties DEF TakeFrame
  <2>2. ASSUME NEW i \in 1..Len(inbound') PROVE FrameCaused(inbound[i])'
    <3>1. i + 1 \in 1..Len(inbound) BY <1>2, <2>1
    <3>2. FrameCaused(inbound[i + 1]) BY <1>1, <3>1 DEF OnTheWire
    <3> QED BY <3>2, <2>1, <1>1, CausesLast DEF FrameCaused, Caused, Lost
  <2> QED BY <2>2 DEF OnTheWire
<1>6. ASSUME NEW n \in 0..Len(inbound), inbound' = SubSeq(inbound, 1, n) PROVE OnTheWire'
  <2>1. Len(inbound') = n /\ \A i \in 1..n : inbound'[i] = inbound[i]
    BY <1>2, <1>6
  <2>2. ASSUME NEW i \in 1..Len(inbound') PROVE FrameCaused(inbound[i])'
    <3>1. i \in 1..Len(inbound) BY <1>2, <2>1
    <3>2. FrameCaused(inbound[i]) BY <1>1, <3>1 DEF OnTheWire
    <3> QED BY <3>2, <2>1, <1>1, CausesLast DEF FrameCaused, Caused, Lost
  <2> QED BY <2>2 DEF OnTheWire
<1>7. CASE Browser
  <2>1. ASSUME NEW c \in Commands, NEW v \in {"ok", "error"}, BrowserAnswers(c, v) PROVE OnTheWire'
    <3>1. FrameCaused(Answer(c, v))'
      BY <2>1 DEF BrowserAnswers, FrameCaused, Caused, Answer
    <3> QED BY <2>1, <3>1, <1>4, NewFrames DEF BrowserAnswers
  <2>2. ASSUME NEW c \in Commands, BrowserRefuses(c) PROVE OnTheWire'
    <3>1. FrameCaused(Answer(c, "gone"))'
      BY <2>2 DEF BrowserRefuses, FrameCaused, Caused, Answer, Lost
    <3> QED BY <2>2, <3>1, <1>4, NewFrames DEF BrowserRefuses
  <2>3. ASSUME NEW s \in Sessions, BrowserDetaches(s) PROVE OnTheWire'
    <3>1. FrameCaused(Detached(s))'
      BY <2>3, ChannelAssumption DEF BrowserDetaches, FrameCaused, Detached, Lost
    <3> QED BY <2>3, <3>1, <1>4, NewFrames DEF BrowserDetaches
  <2>4. CASE BrowserExits BY <2>4, <1>6 DEF BrowserExits
  <2> QED BY <1>7, <2>1, <2>2, <2>3, <2>4 DEF Browser
<1>8. ASSUME NEW c \in Commands, Caller(c) \/ Timeout(c) \/ Cancel(c) PROVE UNCHANGED inbound
  BY <1>8 DEF Caller, Begin, Register, Recheck, Enqueue, Receive, Timeout, Cancel, GiveUp
<1>9. ASSUME \/ Write \/ WriterStops \/ AbortReader \/ CloseReturns
             \/ DispatchAnswer \/ DispatchDetached \/ FailSessionCommand
             \/ \E e \in Enders : Ender(e)
      PROVE  UNCHANGED inbound
  BY <1>9 DEF Write, WriterStops, AbortReader, CloseReturns, DispatchAnswer, DispatchDetached,
              FailSessionCommand, Ender, FailAllBegins, FailAllCollects, FailAllFails, FailAllEnds
<1>10. CASE UNCHANGED vars BY <1>3, <1>10 DEF vars
<1> QED BY <1>3, <1>5, <1>7, <1>8, <1>9, <1>10 DEF Next, Reader

(* What the reader takes was on the wire, and whose ids it collects for a  *)
(* session belong to it.                                                   *)
LEMMA HandStep == CauseInv /\ [Next]_vars => InHand'
<1> SUFFICES ASSUME CauseInv, [Next]_vars PROVE InHand' OBVIOUS
<1>1. TypeOK /\ InboundType /\ ReaderType /\ OnTheWire /\ InHand BY TypeParts DEF CauseInv
<1>2. CASE UNCHANGED reader BY <1>1, <1>2, CausedLasts DEF InHand
<1>3. CASE TakeFrame
  <2>1. FrameCaused(Head(inbound))
    <3>1. Len(inbound) >= 1 /\ Head(inbound) = inbound[1] /\ Len(inbound) \in Nat
      BY <1>1, <1>3, HeadTailProperties, EmptySeq, LenProperties DEF TakeFrame, InboundType
    <3> QED BY <1>1, <3>1 DEF OnTheWire
  <2>2. UNCHANGED <<attached, answered, disconnected>> BY <1>3 DEF TakeFrame, browser
  <2> QED BY <1>3, <2>1, <2>2 DEF TakeFrame, InHand, Holding, Idle, FrameCaused, Caused, Lost
<1>4. CASE DispatchDetached
  <2>1. Lost(reader.frame.of) BY <1>1, <1>4 DEF DispatchDetached, InHand, FrameCaused
  <2>2. UNCHANGED attached BY <1>4 DEF DispatchDetached, browser
  <2> QED BY <1>4, <2>1, <2>2 DEF DispatchDetached, PendingOf, InHand, Failing, Lost
<1>5. CASE FailSessionCommand
  <2>1. UNCHANGED attached BY <1>5 DEF FailSessionCommand, browser
  <2> QED BY <1>1, <1>5, <2>1 DEF FailSessionCommand, InHand, Failing, Idle, Lost
<1>6. CASE DispatchAnswer \/ AbortReader
  BY <1>6 DEF DispatchAnswer, AbortReader, InHand, Idle, Aborted
<1>7. ASSUME NEW c \in Commands, Caller(c) \/ Timeout(c) \/ Cancel(c) PROVE UNCHANGED reader
  BY <1>7 DEF Caller, Begin, Register, Recheck, Enqueue, Receive, Timeout, Cancel, GiveUp
<1>8. ASSUME Write \/ WriterStops \/ CloseReturns \/ Browser \/ \E e \in Enders : Ender(e)
      PROVE  UNCHANGED reader
  BY <1>8 DEF Write, WriterStops, CloseReturns, Browser, BrowserRefuses, BrowserAnswers,
              BrowserDetaches, BrowserExits, Ender, FailAllBegins, FailAllCollects, FailAllFails,
              FailAllEnds
<1>9. CASE UNCHANGED vars BY <1>2, <1>9 DEF vars
<1> QED BY <1>2, <1>3, <1>4, <1>5, <1>6, <1>7, <1>8, <1>9 DEF Next, Reader

(* What is told is what the reader had in hand, or the end of the          *)
(* connection, which raises the flag first.                                *)
LEMMA ToldStep == CauseInv /\ [Next]_vars => Told'
<1> SUFFICES ASSUME CauseInv, [Next]_vars PROVE Told' OBVIOUS
<1>1. TypeOK /\ CallTypes /\ TaskTypes /\ ReaderType /\ InHand /\ Told /\ WriterEnds
  BY TypeParts DEF CauseInv
<1>2. CASE UNCHANGED <<reply, result>>
  BY <1>1, <1>2, CausedLasts, CausesLast DEF Told
<1>3. ASSUME NEW c \in Commands, NEW v, Caused(c, v)', Settle(c, v), UNCHANGED result PROVE Told'
  BY <1>1, <1>3, CausedLasts, CausesLast DEF Told, Settle, CallTypes
<1>4. ASSUME NEW c \in Commands, NEW r, Return(c, r), Caused(c, r)', UNCHANGED reply,
             r = "unsent" => ~up \/ disconnected
      PROVE  Told'
  BY <1>1, <1>4, CausedLasts, CausesLast DEF Told, Return, CallTypes
<1>5. ASSUME NEW c \in Commands, Caller(c) \/ Timeout(c) \/ Cancel(c) PROVE Told'
  <2>1. ASSUME NEW r \in {"timeout", "cancelled", "unsent"} PROVE Caused(c, r)' BY DEF Caused
  <2>2. CASE Begin(c)
    <3>1. disconnected => Caused(c, "closed")' BY <2>2 DEF Begin, Caused
    <3> QED BY <1>2, <1>4, <2>2, <3>1 DEF Begin, Proceed
  <2>3. CASE Register(c) BY <1>2, <2>3 DEF Register, Proceed
  <2>4. CASE Recheck(c)
    <3>1. disconnected => Caused(c, "closed")' BY <2>4 DEF Recheck, Caused
    <3> QED BY <1>2, <1>4, <2>4, <3>1 DEF Recheck, Proceed
  <2>5. CASE Enqueue(c)
    BY <1>1, <1>2, <1>4, <2>1, <2>5 DEF Enqueue, Proceed, WriterEnds
  <2>6. CASE Receive(c)
    <3>1. Caused(c, reply[c])' /\ reply[c] # "unsent"
      <4>1. UNCHANGED <<attached, answered, disconnected>> BY <2>6 DEF Receive, browser
      <4>2. Caused(c, reply[c]) BY <1>1 DEF Told
      <4> QED BY <1>1, <2>6, <4>1, <4>2 DEF Receive, Caused, Lost, CallTypes, Values
    <3>2. Return(c, reply[c]) /\ UNCHANGED reply BY <2>6 DEF Receive
    <3>3. UNCHANGED <<attached, answered, disconnected>> BY <2>6 DEF Receive, browser
    <3>4. Caused(c, reply[c]) BY <1>1 DEF Told
    <3> QED BY <1>1, <3>1, <3>2, <3>3, <3>4, CausesLast DEF Told, Return, CallTypes, Caused, Lost
  <2>7. CASE Timeout(c) \/ Cancel(c) BY <1>4, <2>1, <2>7 DEF Timeout, Cancel, GiveUp
  <2> QED BY <1>5, <2>2, <2>3, <2>4, <2>5, <2>6, <2>7 DEF Caller
<1>6. CASE DispatchAnswer
  <2>1. reader.frame.of \in Commands BY <1>1, <1>6, ReaderHolds, FrameParts DEF DispatchAnswer
  <2>2. Caused(reader.frame.of, reader.frame.value)
    BY <1>1, <1>6 DEF DispatchAnswer, InHand, FrameCaused
  <2>3. UNCHANGED <<attached, answered, disconnected, result>> BY <1>6 DEF DispatchAnswer, browser
  <2> QED BY <1>1, <1>6, <2>1, <2>2, <2>3, CausesLast
          DEF DispatchAnswer, Settle, Told, Caused, Lost, CallTypes
<1>7. CASE FailSessionCommand
  <2>1. CASE UNCHANGED reply BY <1>2, <1>7, <2>1 DEF FailSessionCommand
  <2>2. ASSUME NEW c \in reader.ids, Settle(c, "detached") PROVE Told'
    <3>1. c \in Commands BY <1>1, <1>7, ReaderFails DEF FailSessionCommand
    <3>2. Lost(SessionOf[c])' BY <1>1, <1>7, CausedLasts DEF FailSessionCommand, InHand
    <3>3. Caused(c, "detached")' BY <3>2 DEF Caused
    <3> QED BY <1>3, <1>7, <2>2, <3>1, <3>3 DEF FailSessionCommand
  <2> QED BY <1>7, <2>1, <2>2 DEF FailSessionCommand
<1>8. ASSUME NEW e \in Enders, Ender(e) PROVE Told'
  <2>1. CASE FailAllFails(e)
    <3>1. PICK c \in doomed[e] : Settle(c, "closed") BY <2>1 DEF FailAllFails
    <3>2. c \in Commands BY <1>1 DEF TaskTypes
    <3>3. Caused(c, "closed")' BY <1>1, <2>1 DEF FailAllFails, WriterEnds, Caused
    <3> QED BY <1>3, <2>1, <3>1, <3>2, <3>3 DEF FailAllFails
  <2> QED BY <1>2, <1>8, <2>1 DEF Ender, FailAllBegins, FailAllCollects, FailAllEnds, calls
<1>9. ASSUME \/ Write \/ WriterStops \/ AbortReader \/ CloseReturns \/ Browser
             \/ TakeFrame \/ DispatchDetached \/ UNCHANGED vars
      PROVE  UNCHANGED <<reply, result>>
  BY <1>9 DEF Write, WriterStops, AbortReader, CloseReturns, Browser, BrowserRefuses,
              BrowserAnswers, BrowserDetaches, BrowserExits, TakeFrame, DispatchDetached, vars,
              calls
<1> QED BY <1>2, <1>5, <1>6, <1>7, <1>8, <1>9 DEF Next, Reader

(* The writer ends for a shutdown, which follows the flag, or for a write  *)
(* to a browser that is gone.                                              *)
LEMMA WriterStep == CauseInv /\ [Next]_vars => WriterEnds'
<1> SUFFICES ASSUME CauseInv, [Next]_vars PROVE WriterEnds' OBVIOUS
<1>1. TypeOK /\ TaskTypes /\ WriterEnds BY TypeParts DEF CauseInv
<1>2. CASE UNCHANGED <<writer, shutdown, ending>> BY <1>1, <1>2, CausesLast DEF WriterEnds
<1>3. CASE Write \/ WriterStops BY <1>1, <1>3 DEF Write, WriterStops, WriterEnds
<1>4. ASSUME NEW e \in Enders, Ender(e) PROVE WriterEnds'
  <2>1. CASE FailAllBegins(e) BY <2>1 DEF FailAllBegins, WriterEnds
  <2>2. CASE FailAllCollects(e) \/ FailAllFails(e) \/ FailAllEnds(e)
    BY <1>1, <2>2 DEF FailAllCollects, FailAllFails, FailAllEnds, WriterEnds, tasks
  <2> QED BY <1>4, <2>1, <2>2 DEF Ender
<1>5. CASE CloseReturns BY <1>1, <1>5 DEF CloseReturns, WriterEnds, tasks, Enders
<1>6. ASSUME NEW c \in Commands, Caller(c) \/ Timeout(c) \/ Cancel(c)
      PROVE  UNCHANGED <<writer, shutdown, ending>>
  BY <1>6 DEF Caller, Begin, Register, Recheck, Enqueue, Receive, Timeout, Cancel, GiveUp, tasks
<1>7. ASSUME AbortReader \/ Reader \/ Browser \/ UNCHANGED vars
      PROVE  UNCHANGED <<writer, shutdown, ending>>
  BY <1>7 DEF AbortReader, Reader, TakeFrame, DispatchAnswer, DispatchDetached,
              FailSessionCommand, Browser, BrowserRefuses, BrowserAnswers, BrowserDetaches,
              BrowserExits, vars, tasks
<1> QED BY <1>2, <1>3, <1>4, <1>5, <1>6, <1>7 DEF Next

LEMMA CauseStep == CauseInv /\ [Next]_vars => CauseInv'
<1> SUFFICES ASSUME CauseInv, [Next]_vars PROVE CauseInv' OBVIOUS
<1>1. TypeOK' BY TypeStep DEF CauseInv
<1> QED BY <1>1, WireStep, HandStep, ToldStep, WriterStep DEF CauseInv

(* A call fails for the reason it is given, for any number of commands and *)
(* sessions, whatever the browser does.                                    *)
THEOREM Truthful == Spec => []FailuresHaveACause
<1>1. CauseInv => FailuresHaveACause
  BY DEF CauseInv, Told, Caused, Lost, FailuresHaveACause
<1> QED BY CauseInit, CauseStep, <1>1, PTL DEF Spec

-----------------------------------------------------------------------------
(* A registered call has its entry until it is answered; the flag is only  *)
(* raised by a fail_all_pending, and the reader only aborted after it; and *)
(* while the connection is good, whatever a call waits for is under way.   *)
Entries == \A c \in Commands : phase[c] \in Open /\ reply[c] = "none" => c \in pending

Raised ==
  /\ disconnected => \E e \in Enders : ending[e] # "idle"
  /\ reader = Aborted => disconnected

Expected(c) == phase[c] = "waiting" /\ reply[c] = "none" /\ up /\ ~disconnected

UnderWay == \A c \in Commands : Expected(c) => OnTheWay(c)

WaitInv == PendInv /\ CauseInv /\ Entries /\ Raised /\ UnderWay

LEMMA WaitInit == Init => Entries /\ Raised /\ UnderWay
  BY DEF Init, Entries, Raised, UnderWay, Expected, Open, Idle, Aborted

LEMMA EntriesStep == WaitInv /\ [Next]_vars => Entries'
<1> SUFFICES ASSUME WaitInv, [Next]_vars PROVE Entries' OBVIOUS
<1>1. CallTypes /\ TaskTypes /\ ReaderType /\ Entries BY TypeParts DEF WaitInv, PendInv
<1> USE DEF Entries, Open
<1>2. ASSUME NEW c \in Commands, Begin(c) \/ Register(c) PROVE Entries'
  BY <1>1, <1>2 DEF Begin, Register, Return, Proceed, CallTypes
<1>3. ASSUME NEW c \in Commands, Recheck(c) \/ Enqueue(c) PROVE Entries'
  BY <1>1, <1>3 DEF Recheck, Enqueue, Return, Proceed, CallTypes
<1>4. ASSUME NEW c \in Commands, Receive(c) \/ Timeout(c) \/ Cancel(c) PROVE Entries'
  BY <1>1, <1>4 DEF Receive, Timeout, Cancel, GiveUp, Return, CallTypes
<1>5. ASSUME NEW c \in Commands, NEW v, v # "none", Settle(c, v), UNCHANGED phase PROVE Entries'
  BY <1>1, <1>5 DEF Settle, CallTypes
<1>6. CASE UNCHANGED <<phase, reply, pending>> BY <1>1, <1>6
<1>7. CASE DispatchAnswer
  <2>1. reader.frame.of \in Commands /\ reader.frame.value # "none"
    BY <1>1, <1>7, ReaderHolds, FrameParts DEF DispatchAnswer
  <2> QED BY <1>5, <1>7, <2>1 DEF DispatchAnswer
<1>8. CASE FailSessionCommand
  <2>1. reader.ids \subseteq Commands BY <1>1, <1>8, ReaderFails DEF FailSessionCommand
  <2> QED BY <1>5, <1>6, <1>8, <2>1 DEF FailSessionCommand
<1>9. ASSUME NEW e \in Enders, Ender(e) PROVE Entries'
  <2>1. doomed[e] \subseteq Commands BY <1>1 DEF TaskTypes
  <2>2. CASE FailAllFails(e) BY <1>5, <2>1, <2>2 DEF FailAllFails
  <2>3. CASE FailAllBegins(e) \/ FailAllCollects(e) \/ FailAllEnds(e)
    BY <1>6, <2>3 DEF FailAllBegins, FailAllCollects, FailAllEnds, calls
  <2> QED BY <1>9, <2>2, <2>3 DEF Ender
<1>10. ASSUME \/ Write \/ WriterStops \/ TakeFrame \/ DispatchDetached \/ AbortReader
              \/ CloseReturns \/ Browser \/ UNCHANGED vars
       PROVE  Entries'
  <2>1. UNCHANGED <<phase, reply, pending>>
    BY <1>10 DEF Write, WriterStops, TakeFrame, DispatchDetached, AbortReader, CloseReturns,
                 Browser, BrowserRefuses, BrowserAnswers, BrowserDetaches, BrowserExits, vars, calls
  <2> QED BY <1>6, <2>1
<1> QED BY <1>2, <1>3, <1>4, <1>7, <1>8, <1>9, <1>10 DEF Next, Caller, Reader

LEMMA RaisedStep == WaitInv /\ [Next]_vars => Raised'
<1> SUFFICES ASSUME WaitInv, [Next]_vars PROVE Raised' OBVIOUS
<1>1. TaskTypes /\ Raised /\ Draining BY TypeParts DEF WaitInv, PendInv, Mapped
<1>2. CASE UNCHANGED <<disconnected, ending>> /\ (reader' = Aborted => reader = Aborted)
  BY <1>1, <1>2 DEF Raised
<1>3. ASSUME NEW e \in Enders, Ender(e) PROVE Raised'
  <2>1. UNCHANGED reader /\ ending'[e] # "idle" /\ (disconnected => disconnected')
    BY <1>1, <1>3 DEF Ender, FailAllBegins, FailAllCollects, FailAllFails, FailAllEnds, TaskTypes
  <2> QED BY <1>1, <2>1 DEF Raised
<1>4. CASE AbortReader
  <2>1. disconnected /\ UNCHANGED <<disconnected, ending>>
    BY <1>1, <1>4 DEF AbortReader, Draining, Enders
  <2> QED BY <1>1, <2>1 DEF Raised
<1>5. CASE CloseReturns
  <2>1. UNCHANGED <<disconnected, reader>> /\ ending'["closer"] = "closed"
    BY <1>1, <1>5 DEF CloseReturns, TaskTypes, Enders
  <2> QED BY <1>1, <2>1 DEF Raised, Enders
<1>6. ASSUME NEW c \in Commands, Caller(c) \/ Timeout(c) \/ Cancel(c)
      PROVE  UNCHANGED <<disconnected, ending, reader>>
  BY <1>6 DEF Caller, Begin, Register, Recheck, Enqueue, Receive, Timeout, Cancel, GiveUp
<1>7. ASSUME Write \/ WriterStops \/ Browser \/ UNCHANGED vars
      PROVE  UNCHANGED <<disconnected, ending, reader>>
  BY <1>7 DEF Write, WriterStops, Browser, BrowserRefuses, BrowserAnswers, BrowserDetaches,
              BrowserExits, vars
<1>8. ASSUME Reader PROVE UNCHANGED <<disconnected, ending>> /\ reader' # Aborted
  BY <1>8 DEF Reader, TakeFrame, DispatchAnswer, DispatchDetached, FailSessionCommand, Idle,
              Aborted, Holding, Failing
<1> QED BY <1>2, <1>3, <1>4, <1>5, <1>6, <1>7, <1>8 DEF Next

(* A frame that was coming still comes when another is sent.               *)
LEMMA StillComes ==
  ASSUME InboundType, NEW f \in Frames, inbound' = Append(inbound, f), NEW c
  PROVE  /\ Releases(f, c) => \E i \in 1..Len(inbound') : Releases(inbound'[i], c)
         /\ (\E i \in 1..Len(inbound) : Releases(inbound[i], c)) =>
              \E i \in 1..Len(inbound') : Releases(inbound'[i], c)
<1>1. /\ Len(inbound) \in Nat /\ Len(inbound') = Len(inbound) + 1
      /\ inbound'[Len(inbound) + 1] = f
      /\ \A i \in 1..Len(inbound) : inbound'[i] = inbound[i]
  BY AppendProperties, LenProperties DEF InboundType
<1> HIDE DEF Releases
<1>2. \A i \in 1..Len(inbound) : i \in 1..Len(inbound') /\ inbound'[i] = inbound[i]
  BY <1>1
<1>3. Len(inbound) + 1 \in 1..Len(inbound')
  BY <1>1
<1> QED BY <1>1, <1>2, <1>3

(* What a call waits for goes from the queue to the browser, and comes     *)
(* back as an answer or with the detachment of its session.                *)
LEMMA UnderWayStep == WaitInv /\ [Next]_vars => UnderWay'
<1> SUFFICES ASSUME WaitInv, [Next]_vars, NEW c \in Commands, Expected(c)' PROVE OnTheWay(c)'
  BY DEF UnderWay
<1>1. /\ TypeOK /\ CallTypes /\ TaskTypes /\ QueueType /\ InboundType /\ ReaderType
      /\ WriterEnds /\ Draining /\ Entries /\ UnderWay
  BY TypeParts DEF WaitInv, PendInv, CauseInv, Mapped
<1>2. up /\ ~disconnected /\ up' /\ ~disconnected'
  BY <1>1, CausesLast DEF Expected, TaskTypes
<1>3. queue \in Seq(Commands) /\ Len(queue) \in Nat
  BY <1>1, LenProperties DEF QueueType
<1>4. CASE UNCHANGED <<queue, held, inbound, reader>> /\ OnTheWay(c)
  BY <1>4 DEF OnTheWay
<1>5. ASSUME NEW d \in Commands, Enqueue(d), d = c \/ OnTheWay(c) PROVE OnTheWay(c)'
  <2>1. writer
    BY <1>1, <1>2 DEF WriterEnds
  <2>2. queue' = Append(queue, d) /\ UNCHANGED <<held, inbound, reader>>
    BY <1>5, <2>1 DEF Enqueue, browser
  <2>3. Len(queue') = Len(queue) + 1 /\ queue'[Len(queue) + 1] = d
        /\ \A i \in 1..Len(queue) : queue'[i] = queue[i]
    BY <1>3, <2>2, AppendProperties
  <2>4. \A i \in 1..Len(queue) : i \in 1..Len(queue') /\ queue'[i] = queue[i]
    BY <1>3, <2>3
  <2>5. Len(queue) + 1 \in 1..Len(queue')
    BY <1>3, <2>3
  <2> QED BY <1>5, <2>2, <2>3, <2>4, <2>5 DEF OnTheWay
<1>6. ASSUME UNCHANGED phase, reply[c] = "none" PROVE OnTheWay(c) /\ c \in pending
  BY <1>1, <1>2, <1>6 DEF Expected, Entries, UnderWay, Open
<1>7. ASSUME NEW d \in Commands, Caller(d) \/ Timeout(d) \/ Cancel(d) PROVE OnTheWay(c)'
  <2>1. CASE Enqueue(d)
    <3>1. UNCHANGED reply /\ \A x \in Commands : x # d => phase'[x] = phase[x]
      BY <1>1, <2>1 DEF Enqueue, Proceed, Return, CallTypes
    <3>2. d = c \/ OnTheWay(c)
      BY <1>1, <1>2, <3>1 DEF Expected, UnderWay
    <3> QED BY <1>5, <2>1, <3>2
  <2>2. CASE Begin(d) \/ Register(d) \/ Recheck(d) \/ Receive(d) \/ Timeout(d) \/ Cancel(d)
    <3>1. UNCHANGED <<reply, queue, held, inbound, reader>>
      BY <2>2 DEF Begin, Register, Recheck, Receive, Timeout, Cancel, GiveUp, tasks, browser
    <3>2. phase'[c] = "waiting" => phase[c] = "waiting"
      BY <1>1, <2>2 DEF Begin, Register, Recheck, Receive, Timeout, Cancel, GiveUp, Proceed, Return,
                        CallTypes
    <3>3. OnTheWay(c)
      BY <1>1, <1>2, <3>1, <3>2 DEF Expected, UnderWay
    <3> QED BY <1>4, <3>1, <3>3
  <2> QED BY <1>7, <2>1, <2>2 DEF Caller
<1>8. CASE Write
  <2>1. UNCHANGED <<phase, reply, inbound, reader>> /\ queue # <<>>
        /\ queue' = Tail(queue) /\ held' = held \cup {Head(queue)}
    BY <1>2, <1>8 DEF Write, calls
  <2>2. OnTheWay(c)
    BY <1>6, <2>1 DEF Expected
  <2>3. /\ Len(queue') = Len(queue) - 1 /\ Head(queue) = queue[1]
        /\ \A i \in 1..Len(queue') : queue'[i] = queue[i + 1]
    BY <1>3, <2>1, HeadTailProperties
  <2>4. ASSUME NEW i \in 1..Len(queue), queue[i] = c PROVE OnTheWay(c)'
    <3>1. CASE i = 1 BY <2>1, <2>3, <2>4, <3>1 DEF OnTheWay
    <3>2. CASE i # 1
      <4>1. i - 1 \in 1..Len(queue') /\ queue'[i - 1] = c
        BY <1>3, <2>3, <2>4, <3>2
      <4> QED BY <4>1 DEF OnTheWay
    <3> QED BY <3>1, <3>2
  <2> QED BY <2>1, <2>2, <2>4 DEF OnTheWay
<1>9. CASE WriterStops
  BY <1>1, <1>2, <1>9 DEF WriterStops, WriterEnds
<1>10. CASE TakeFrame
  <2>1. UNCHANGED <<phase, reply, queue, held>> /\ inbound # <<>> /\ reader = Idle
        /\ inbound' = Tail(inbound) /\ reader' = Holding(Head(inbound))
    BY <1>2, <1>10 DEF TakeFrame, calls, tasks, browser
  <2>2. OnTheWay(c)
    BY <1>6, <2>1 DEF Expected
  <2>3. /\ Len(inbound) \in Nat /\ Len(inbound') = Len(inbound) - 1 /\ Head(inbound) = inbound[1]
        /\ \A i \in 1..Len(inbound') : inbound'[i] = inbound[i + 1]
    BY <1>1, <2>1, HeadTailProperties, LenProperties DEF InboundType
  <2>4. ASSUME NEW i \in 1..Len(inbound), Releases(inbound[i], c) PROVE OnTheWay(c)'
    <3>1. CASE i = 1
      <4>1. reader'.at = "holding" /\ reader'.frame = inbound[1]
        BY <2>1, <2>3 DEF Holding
      <4> QED BY <2>4, <3>1, <4>1 DEF OnTheWay, Releases
    <3>2. CASE i # 1
      <4>1. i - 1 \in 1..Len(inbound') /\ inbound'[i - 1] = inbound[i]
        BY <2>3, <2>4, <3>2
      <4>2. \E j \in 1..Len(inbound') : Releases(inbound'[j], c)
        BY <2>4, <4>1
      <4> QED BY <4>2 DEF OnTheWay, Releases
    <3> QED BY <3>1, <3>2
  <2> QED BY <2>1, <2>2, <2>4 DEF OnTheWay, Idle
<1>11. ASSUME NEW d \in Commands, NEW v, v # "none", Settle(d, v), UNCHANGED phase
       PROVE  d # c /\ OnTheWay(c)
  <2>1. reply[c] = "none"
    BY <1>1, <1>11 DEF Settle, CallTypes, Expected
  <2>2. OnTheWay(c) /\ c \in pending
    BY <1>6, <1>11, <2>1
  <2>3. d # c
    BY <1>1, <1>11, <2>2 DEF Settle, CallTypes, Expected
  <2> QED BY <2>2, <2>3
<1>12. CASE DispatchAnswer
  <2>1. reader.frame.of \in Commands /\ reader.frame.value # "none" /\ reader.frame.kind = "answer"
    BY <1>1, <1>12, ReaderHolds, FrameParts DEF DispatchAnswer
  <2>2. reader.frame.of # c /\ OnTheWay(c)
    BY <1>11, <1>12, <2>1 DEF DispatchAnswer
  <2>3. UNCHANGED <<queue, held, inbound>> /\ reader.at = "holding"
    BY <1>12 DEF DispatchAnswer, tasks, browser
  <2> QED BY <2>1, <2>2, <2>3 DEF OnTheWay, Releases
<1>13. CASE DispatchDetached
  <2>1. UNCHANGED <<phase, reply, queue, held, inbound>> /\ reader.at = "holding"
        /\ reader.frame.kind = "detached" /\ reader' = Failing(PendingOf(reader.frame.of))
    BY <1>13 DEF DispatchDetached, calls, tasks, browser
  <2>2. OnTheWay(c) /\ c \in pending
    BY <1>6, <2>1 DEF Expected
  <2>3. Releases(reader.frame, c) => c \in PendingOf(reader.frame.of)
    BY <2>1, <2>2 DEF Releases, PendingOf
  <2>4. reader'.at = "failing" /\ reader'.ids = PendingOf(reader.frame.of)
    BY <2>1 DEF Failing
  <2> QED BY <2>1, <2>2, <2>3, <2>4 DEF OnTheWay
<1>14. CASE FailSessionCommand
  <2>1. UNCHANGED <<phase, queue, held, inbound>> /\ reader.at = "failing"
    BY <1>14 DEF FailSessionCommand, tasks, browser
  <2>2. CASE reader.ids = {} /\ UNCHANGED reply
    <3>1. OnTheWay(c)
      BY <1>6, <2>1, <2>2 DEF Expected
    <3> QED BY <2>1, <2>2, <3>1 DEF OnTheWay
  <2>3. ASSUME NEW d \in reader.ids, Settle(d, "detached"), reader' = Failing(reader.ids \ {d})
        PROVE  OnTheWay(c)'
    <3>1. d \in Commands
      BY <1>1, <2>1, ReaderFails
    <3>2. d # c /\ OnTheWay(c)
      BY <1>11, <2>1, <2>3, <3>1
    <3>3. reader'.at = "failing" /\ reader'.ids = reader.ids \ {d}
      BY <2>3 DEF Failing
    <3> QED BY <2>1, <3>2, <3>3 DEF OnTheWay
  <2> QED BY <1>14, <2>2, <2>3 DEF FailSessionCommand
<1>15. ASSUME NEW e \in Enders, Ender(e) PROVE OnTheWay(c)'
  <2>1. ending[e] = "idle"
    BY <1>1, <1>2, <1>15 DEF Draining, Ender, FailAllBegins, FailAllCollects, FailAllFails, FailAllEnds
  <2> QED BY <1>2, <1>15, <2>1 DEF Ender, FailAllBegins, FailAllCollects, FailAllFails, FailAllEnds
<1>16. CASE AbortReader \/ CloseReturns
  <2>1. ending["closer"] # "idle"
    BY <1>16 DEF AbortReader, CloseReturns
  <2> QED BY <1>1, <1>2, <2>1 DEF Draining, Enders
<1>17. CASE Browser
  <2>1. UNCHANGED <<phase, reply, queue, reader>>
    BY <1>17 DEF Browser, BrowserRefuses, BrowserAnswers, BrowserDetaches, BrowserExits, calls, tasks
  <2>2. OnTheWay(c)
    BY <1>6, <2>1 DEF Expected
  <2>3. ASSUME NEW f \in Frames, inbound' = Append(inbound, f), c \in held => c \in held' \/ Releases(f, c)
        PROVE  OnTheWay(c)'
    <3>1. /\ Releases(f, c) => \E i \in 1..Len(inbound') : Releases(inbound'[i], c)
          /\ (\E i \in 1..Len(inbound) : Releases(inbound[i], c)) =>
               \E i \in 1..Len(inbound') : Releases(inbound'[i], c)
      BY <1>1, <2>3, StillComes
    <3> QED BY <2>1, <2>2, <2>3, <3>1 DEF OnTheWay, Releases
  <2>4. ASSUME NEW d \in Commands, NEW v \in {"ok", "error"}, BrowserAnswers(d, v) PROVE OnTheWay(c)'
    <3>1. Answer(d, v) \in Frames /\ (c = d => Releases(Answer(d, v), c))
      BY NewFrames DEF Answer, Releases
    <3> QED BY <2>3, <2>4, <3>1 DEF BrowserAnswers
  <2>5. ASSUME NEW d \in Commands, BrowserRefuses(d) PROVE OnTheWay(c)'
    <3>1. Answer(d, "gone") \in Frames /\ (c = d => Releases(Answer(d, "gone"), c))
      BY NewFrames DEF Answer, Releases
    <3> QED BY <2>3, <2>5, <3>1 DEF BrowserRefuses
  <2>6. ASSUME NEW s \in Sessions, BrowserDetaches(s) PROVE OnTheWay(c)'
    <3>1. Detached(s) \in Frames /\ (SessionOf[c] = s => Releases(Detached(s), c))
      BY NewFrames DEF Detached, Releases
    <3> QED BY <2>3, <2>6, <3>1 DEF BrowserDetaches
  <2>7. ~BrowserExits
    BY <1>2 DEF BrowserExits
  <2> QED BY <1>17, <2>4, <2>5, <2>6, <2>7 DEF Browser
<1>18. CASE UNCHANGED vars
  <2>1. OnTheWay(c)
    BY <1>6, <1>18 DEF vars, Expected
  <2> QED BY <1>4, <1>18, <2>1 DEF vars
<1> QED BY <1>7, <1>8, <1>9, <1>10, <1>12, <1>13, <1>14, <1>15, <1>16, <1>17, <1>18 DEF Next, Reader

(* The entry, and who will answer it.                                      *)
LEMMA WaitMeans == WaitInv => NoCallForgotten
<1> SUFFICES ASSUME WaitInv, NEW c \in Commands, phase[c] = "waiting", reply[c] = "none"
             PROVE  /\ c \in pending
                    /\ IF disconnected THEN BeingFailed(c)
                       ELSE IF up      THEN OnTheWay(c) /\ writer
                       ELSE reader # Aborted /\ ending["reader"] = "idle"
  BY DEF NoCallForgotten
<1>1. TaskTypes /\ Draining /\ PendingIsAwaited /\ WriterEnds /\ Entries /\ Raised /\ UnderWay
  BY TypeParts DEF WaitInv, PendInv, CauseInv, Mapped
<1>2. c \in pending
  BY <1>1 DEF Entries, Open
<1>3. CASE disconnected
  <2>1. PICK e \in Enders : ending[e] # "idle"
    BY <1>1, <1>3 DEF Raised
  <2>2. ~Ended(e)
    BY <1>1, <1>2 DEF PendingIsAwaited
  <2>3. ending[e] \in {"flagged", "failing"}
    BY <1>1, <2>1, <2>2 DEF TaskTypes, Ended
  <2>4. ending[e] = "failing" => c \in doomed[e]
    BY <1>1, <1>2 DEF Draining
  <2> QED BY <1>2, <1>3, <2>3, <2>4 DEF BeingFailed
<1>4. CASE ~disconnected /\ up
  BY <1>1, <1>2, <1>4 DEF UnderWay, Expected, WriterEnds
<1>5. CASE ~disconnected /\ ~up
  BY <1>1, <1>2, <1>5 DEF Raised, Draining, Enders
<1> QED BY <1>3, <1>4, <1>5

(* "Callers must not block on responses that will never arrive"            *)
(* (transport.rs): a call that waits without a reply has its entry, and    *)
(* there is always somebody left to answer it, for any number of commands  *)
(* and sessions, whatever order closes, detachments and exits come in.     *)
THEOREM Remembered == Spec => []NoCallForgotten
<1>1. Init => WaitInv
  BY PendInit, CauseInit, WaitInit DEF WaitInv
<1>2. WaitInv /\ [Next]_vars => WaitInv'
  BY PendStep, CauseStep, EntriesStep, RaisedStep, UnderWayStep DEF WaitInv
<1> QED BY <1>1, <1>2, WaitMeans, PTL DEF Spec
=============================================================================
