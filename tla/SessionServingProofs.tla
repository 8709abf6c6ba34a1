------------------------ MODULE SessionServingProofs ------------------------
(***************************************************************************)
(* Proofs about SessionServing for any clients and any commands: the type  *)
(* invariant, that a close that releases the browser runs alone, and that  *)
(* what a connection has begun is answered.                                *)
(***************************************************************************)
EXTENDS SessionServing, SequenceTheorems, TLAPS

(* One close at a time holds the cleanup mutex, and while it holds the     *)
(* exclusive half of the lock no command is dispatched.                    *)
CleansAlone ==
  \A c, d \in Clients :
    /\ at[c] \in Cleaning /\ at[d] \in Cleaning => c = d
    /\ at[c] = "releasing" => at[d] # "dispatching"

IInv == TypeOK /\ CleansAlone

(* What TypeOK says of the connections, of the places they are at and of   *)
(* the rest.                                                               *)
Counted ==
  /\ kinds \in [Clients -> Seq(Kinds)]
  /\ taken \in [Clients -> Nat] /\ cmd \in [Clients -> Nat] /\ replied \in [Clients -> Nat]
  /\ \A c \in Clients :
       /\ Len(kinds[c]) \in 0..MaxSent[c]
       /\ cmd[c] \in 0..Len(kinds[c])
       /\ taken[c] \in cmd[c]..Len(kinds[c])
       /\ replied[c] \in 0..cmd[c]

Placed == at \in [Clients -> Steps]

Flagged ==
  /\ gone \subseteq Clients /\ deaf \subseteq Clients /\ hungUp \subseteq gone
  /\ closing \in BOOLEAN /\ draining \in BOOLEAN /\ stopped \in BOOLEAN /\ cleaned \in BOOLEAN
  /\ published \in BOOLEAN /\ aborted \in BOOLEAN
  /\ serving \in {"accepting", "waiting", "done"}
  /\ began \subseteq Clients

LEMMA TypeParts == TypeOK <=> Counted /\ Placed /\ Flagged
  BY DEF TypeOK, Counted, Placed, Flagged

(* The inductive invariant holds of a server that was just bound.          *)
LEMMA InitInv == Init => IInv
<1> SUFFICES ASSUME Init PROVE IInv OBVIOUS
<1>1. Counted
  BY ServingAssumption DEF Init, Counted
<1>2. Placed /\ Flagged
  BY DEF Init, Placed, Flagged, Steps
<1>3. CleansAlone BY DEF Init, CleansAlone, Cleaning
<1> QED BY <1>1, <1>2, <1>3, TypeParts DEF IInv

(* A connection that goes anywhere but into the cleanup or the dispatcher  *)
(* disturbs nobody.                                                        *)
LEMMA GoElsewhere ==
  ASSUME Placed, CleansAlone, NEW c \in Clients, NEW from, NEW to \in Steps,
         Go(c, from, to), to \notin Cleaning \cup {"dispatching"}
  PROVE  Placed' /\ CleansAlone'
  BY DEF Placed, CleansAlone, Go, Cleaning

LEMMA Standing ==
  ASSUME CleansAlone, Placed, UNCHANGED at
  PROVE  CleansAlone' /\ Placed'
  BY DEF CleansAlone, Placed

(* Nothing is read, begun or answered.                                     *)
LEMMA SameCounts ==
  ASSUME Counted, UNCHANGED <<kinds, taken, cmd, replied>>
  PROVE  Counted'
  BY DEF Counted

(* A command that a client sends is counted on its wire.                   *)
LEMMA SendInv ==
  ASSUME IInv, NEW c \in Clients, NEW k \in Kinds, Send(c, k)
  PROVE  IInv'
<1>1. Counted /\ Placed /\ Flagged /\ CleansAlone BY TypeParts DEF IInv
<1>2. Counted'
  <2>1. kinds[c] \in Seq(Kinds) /\ Len(kinds[c]) < MaxSent[c] /\ MaxSent[c] \in Nat
    BY <1>1, ServingAssumption DEF Counted, Send
  <2>2. /\ Append(kinds[c], k) \in Seq(Kinds)
        /\ Len(Append(kinds[c], k)) = Len(kinds[c]) + 1
        /\ Len(kinds[c]) \in Nat
    BY <2>1, AppendProperties, LenProperties
  <2>3. kinds' = [kinds EXCEPT ![c] = Append(kinds[c], k)] /\ UNCHANGED <<taken, cmd, replied>>
    BY DEF Send, connection
  <2>4. kinds' \in [Clients -> Seq(Kinds)]
    BY <1>1, <2>2, <2>3 DEF Counted
  <2>5. ASSUME NEW d \in Clients
        PROVE  /\ Len(kinds'[d]) \in 0..MaxSent[d]
               /\ cmd[d] \in 0..Len(kinds'[d])
               /\ taken[d] \in cmd[d]..Len(kinds'[d])
               /\ replied[d] \in 0..cmd[d]
    <3>1. CASE d = c
      <4>1. Len(kinds'[d]) = Len(kinds[c]) + 1 BY <2>2, <2>3, <3>1, <1>1 DEF Counted
      <4> QED BY <4>1, <2>1, <2>2, <3>1, <1>1 DEF Counted
    <3>2. CASE d # c
      BY <3>2, <2>3, <1>1 DEF Counted
    <3> QED BY <3>1, <3>2
  <2> QED BY <2>3, <2>4, <2>5, <1>1 DEF Counted
<1>3. Placed' /\ CleansAlone' BY <1>1, Standing DEF Send
<1>4. Flagged' BY <1>1 DEF Flagged, Send, connection, flags, owner
<1> QED BY <1>2, <1>3, <1>4, TypeParts DEF IInv, TypeOK, Counted, Placed, Flagged
(* One connection moves its counters, within what it has been sent.        *)
LEMMA MovesCounts ==
  ASSUME Counted, UNCHANGED kinds, NEW c \in Clients,
         NEW m \in 0..Len(kinds[c]), NEW t \in m..Len(kinds[c]), NEW r \in 0..m,
         cmd' = [cmd EXCEPT ![c] = m], taken' = [taken EXCEPT ![c] = t],
         replied' = [replied EXCEPT ![c] = r]
  PROVE  Counted'
<1>1. Len(kinds[c]) \in Nat BY DEF Counted
<1>2. m \in Nat /\ t \in Nat /\ r \in Nat BY <1>1
<1>3. /\ taken' \in [Clients -> Nat] /\ cmd' \in [Clients -> Nat]
      /\ replied' \in [Clients -> Nat]
  BY <1>2 DEF Counted
<1>4. ASSUME NEW d \in Clients
      PROVE  /\ cmd'[d] \in 0..Len(kinds[d])
             /\ taken'[d] \in cmd'[d]..Len(kinds[d])
             /\ replied'[d] \in 0..cmd'[d]
  <2>1. CASE d = c
    <3>1. cmd'[d] = m /\ taken'[d] = t /\ replied'[d] = r BY <2>1 DEF Counted
    <3> QED BY <2>1, <3>1
  <2>2. CASE d # c
    <3>1. cmd'[d] = cmd[d] /\ taken'[d] = taken[d] /\ replied'[d] = replied[d]
      BY <2>2 DEF Counted
    <3> QED BY <3>1 DEF Counted
  <2> QED BY <2>1, <2>2
<1> QED BY <1>3, <1>4 DEF Counted

(* What a connection's counters are, in the words of the arithmetic.       *)
LEMMA CountsOf ==
  ASSUME Counted, NEW c \in Clients
  PROVE  /\ Len(kinds[c]) \in Nat /\ cmd[c] \in Nat /\ taken[c] \in Nat /\ replied[c] \in Nat
         /\ replied[c] <= cmd[c] /\ cmd[c] <= taken[c] /\ taken[c] <= Len(kinds[c])
         /\ taken = [taken EXCEPT ![c] = taken[c]]
         /\ cmd = [cmd EXCEPT ![c] = cmd[c]]
         /\ replied = [replied EXCEPT ![c] = replied[c]]
  BY DEF Counted

(* A connection that takes its next command has one to take; the command   *)
(* is the one it is at, and the last it may have answered.                 *)
LEMMA TakeNextCounts ==
  ASSUME Counted, NEW c \in Clients, TakeNext(c), UNCHANGED kinds,
         replied' \in {replied, [replied EXCEPT ![c] = cmd[c] + 1]}
  PROVE  Counted'
<1> DEFINE m == cmd[c] + 1
           t == IF cmd[c] < taken[c] THEN taken[c] ELSE taken[c] + 1
           r == replied'[c]
<1>1. /\ Len(kinds[c]) \in Nat /\ cmd[c] \in Nat /\ taken[c] \in Nat /\ replied[c] \in Nat
      /\ replied[c] <= cmd[c] /\ cmd[c] <= taken[c] /\ taken[c] <= Len(kinds[c])
  BY CountsOf
<1>2. cmd[c] < taken[c] \/ taken[c] < Len(kinds[c])
  BY DEF TakeNext, HasNext
<1>3. m \in 0..Len(kinds[c]) /\ t \in m..Len(kinds[c])
  BY <1>1, <1>2
<1>4. cmd' = [cmd EXCEPT ![c] = m] /\ taken' = [taken EXCEPT ![c] = t]
  BY DEF TakeNext
<1>5. r \in 0..m /\ replied' = [replied EXCEPT ![c] = r]
  <2>1. CASE replied' = replied BY <2>1, <1>1, CountsOf
  <2>2. CASE replied' = [replied EXCEPT ![c] = m] BY <2>2, <1>1 DEF Counted
  <2> QED BY <2>1, <2>2
<1> HIDE DEF m, t, r
<1> QED BY <1>3, <1>4, <1>5, MovesCounts

LEMMA TakeNextInv ==
  ASSUME IInv, NEW c \in Clients, StartClose(c) \/ StartRun(c) \/ RefuseRun(c)
  PROVE  IInv'
<1>1. Counted /\ Placed /\ Flagged /\ CleansAlone BY TypeParts DEF IInv
<1>2. TakeNext(c) BY DEF StartClose, StartRun, RefuseRun
<1>3. UNCHANGED kinds /\ replied' \in {replied, [replied EXCEPT ![c] = cmd[c] + 1]}
  BY DEF StartClose, StartRun, RefuseRun, clients
<1>4. Counted' BY <1>1, <1>2, <1>3, TakeNextCounts
<1>5. Placed' /\ CleansAlone'
  <2>1. CASE StartClose(c)
    BY <1>1, <2>1, GoElsewhere DEF StartClose, Steps, CloseSteps, Cleaning
  <2>2. CASE StartRun(c)
    BY <1>1, <2>2, GoElsewhere DEF StartRun, Steps, Running, Cleaning
  <2>3. CASE RefuseRun(c) BY <1>1, <2>3, Standing DEF RefuseRun
  <2> QED BY <2>1, <2>2, <2>3
<1>6. Flagged'
  BY <1>1 DEF Flagged, StartClose, StartRun, RefuseRun, clients, flags, owner
<1> QED BY <1>4, <1>5, <1>6 DEF IInv, TypeOK, Counted, Placed, Flagged

(* Reading ahead fills the queue, or empties it once the client is gone.   *)
LEMMA ReadAheadInv ==
  ASSUME IInv, NEW c \in Clients, ReadAhead(c)
  PROVE  IInv'
<1>1. Counted /\ Placed /\ Flagged /\ CleansAlone BY TypeParts DEF IInv
<1>2. Counted'
  <2>1. /\ Len(kinds[c]) \in Nat /\ cmd[c] \in Nat /\ taken[c] \in Nat /\ replied[c] \in Nat
        /\ replied[c] <= cmd[c] /\ cmd[c] <= taken[c] /\ taken[c] <= Len(kinds[c])
        /\ cmd = [cmd EXCEPT ![c] = cmd[c]] /\ replied = [replied EXCEPT ![c] = replied[c]]
    BY <1>1, CountsOf
  <2>2. UNCHANGED <<kinds, cmd, replied>> BY DEF ReadAhead, clients
  <2>3. PICK t \in {taken[c] + 1, cmd[c]} :
          /\ taken' = [taken EXCEPT ![c] = t]
          /\ t = taken[c] + 1 => t <= Len(kinds[c]) \/ t = cmd[c]
    BY <2>1 DEF ReadAhead
  <2>4. cmd[c] \in 0..Len(kinds[c]) /\ t \in cmd[c]..Len(kinds[c]) /\ replied[c] \in 0..cmd[c]
    BY <2>1, <2>3
  <2> QED BY <1>1, <2>1, <2>2, <2>3, <2>4, MovesCounts
<1>3. Placed' /\ CleansAlone' BY <1>1, Standing DEF ReadAhead
<1>4. Flagged' BY <1>1 DEF Flagged, ReadAhead, clients, flags, owner
<1> QED BY <1>2, <1>3, <1>4 DEF IInv, TypeOK, Counted, Placed, Flagged

(* What is answered is the command the connection is at.                   *)
LEMMA AnswerInv ==
  ASSUME IInv, NEW c \in Clients, Answer(c) \/ ReplyToClose(c)
  PROVE  IInv'
<1>1. Counted /\ Placed /\ Flagged /\ CleansAlone BY TypeParts DEF IInv
<1>2. /\ UNCHANGED <<kinds, taken, cmd>>
      /\ replied' \in {replied, [replied EXCEPT ![c] = cmd[c]]}
  BY DEF Answer, ReplyToClose, clients
<1>3. Counted'
  <2>1. /\ Len(kinds[c]) \in Nat /\ cmd[c] \in Nat /\ taken[c] \in Nat /\ replied[c] \in Nat
        /\ replied[c] <= cmd[c] /\ cmd[c] <= taken[c] /\ taken[c] <= Len(kinds[c])
        /\ cmd = [cmd EXCEPT ![c] = cmd[c]] /\ taken = [taken EXCEPT ![c] = taken[c]]
    BY <1>1, CountsOf
  <2>2. cmd[c] \in 0..Len(kinds[c]) /\ taken[c] \in cmd[c]..Len(kinds[c]) /\ cmd[c] \in 0..cmd[c]
    BY <2>1
  <2>3. CASE replied' = [replied EXCEPT ![c] = cmd[c]]
    BY <1>1, <1>2, <2>1, <2>2, <2>3, MovesCounts
  <2>4. CASE replied' = replied BY <1>1, <1>2, <2>4, SameCounts
  <2> QED BY <1>2, <2>3, <2>4
<1>4. Placed' /\ CleansAlone'
  <2>1. CASE Answer(c) BY <1>1, <2>1, GoElsewhere DEF Answer, Steps, Cleaning
  <2>2. CASE ReplyToClose(c)
    BY <1>1, <2>2, GoElsewhere DEF ReplyToClose, Steps, CloseSteps, Cleaning
  <2> QED BY <2>1, <2>2
<1>5. Flagged' BY <1>1 DEF Flagged, Answer, ReplyToClose, clients, flags, owner
<1> QED BY <1>3, <1>4, <1>5 DEF IInv, TypeOK, Counted, Placed, Flagged

(* The steps that count nothing and take a connection elsewhere.           *)
LEMMA ConnectionInv ==
  ASSUME IInv, NEW c \in Clients,
         \/ Accept(c) \/ ConnectionAborted(c) \/ EndConnection(c) \/ WireFails(c)
         \/ BadFrame(c) \/ LookAtClosing(c) \/ Complete(c) \/ CutOff(c) \/ RunRefused(c)
  PROVE  IInv'
<1>1. Counted /\ Placed /\ Flagged /\ CleansAlone BY TypeParts DEF IInv
<1> USE DEF Accept, ConnectionAborted, EndConnection, WireFails, BadFrame, LookAtClosing, Complete,
            CutOff, RunRefused
<1>2. UNCHANGED <<kinds, taken, cmd, replied>> BY DEF clients, connection
<1>3. Counted' BY <1>1, <1>2, SameCounts
<1>4. \E from, to :
        Go(c, from, to) /\ to \in Steps /\ to \notin Cleaning \cup {"dispatching"}
  BY DEF Steps, Running, Cleaning
<1>5. Placed' /\ CleansAlone' BY <1>1, <1>4, GoElsewhere
<1>6. Flagged' BY <1>1 DEF Flagged, clients, connection, flags, owner
<1> QED BY <1>3, <1>5, <1>6 DEF IInv, TypeOK, Counted, Placed, Flagged

(* A close leaves the cleanup, and its request is dropped.                 *)
LEMMA CloseEndsInv ==
  ASSUME IInv, NEW c \in Clients,
         Cleaned(c) \/ CleanupFails(c) \/ DropRequest(c) \/ SendStop(c)
  PROVE  IInv'
<1>1. Counted /\ Placed /\ Flagged /\ CleansAlone BY TypeParts DEF IInv
<1> USE DEF Cleaned, CleanupFails, DropRequest, SendStop
<1>2. UNCHANGED <<kinds, taken, cmd, replied>> BY DEF clients, connection
<1>3. Counted' BY <1>1, <1>2, SameCounts
<1>4. \E from, to :
        Go(c, from, to) /\ to \in Steps /\ to \notin Cleaning \cup {"dispatching"}
  <2>1. AfterClose(c) \in {"idle", "ended"} BY DEF AfterClose
  <2> QED BY <2>1 DEF Steps, CloseSteps, Cleaning
<1>5. Placed' /\ CleansAlone' BY <1>1, <1>4, GoElsewhere
<1>6. Flagged' BY <1>1 DEF Flagged, clients, connection, flags, owner
<1> QED BY <1>3, <1>5, <1>6 DEF IInv, TypeOK, Counted, Placed, Flagged

(* The shared half of the lock is free of closes, the mutex of other       *)
(* closes and the exclusive half of commands.                              *)
LEMMA LockInv ==
  ASSUME IInv, NEW c \in Clients, LockRuns(c) \/ LockCleanup(c) \/ LockAlone(c)
  PROVE  IInv'
<1>1. Counted /\ Placed /\ Flagged /\ CleansAlone BY TypeParts DEF IInv
<1>2. UNCHANGED <<kinds, taken, cmd, replied>>
  BY DEF LockRuns, LockCleanup, LockAlone, clients, connection
<1>3. Counted' BY <1>1, <1>2, SameCounts
<1>4. Placed'
  BY <1>1 DEF Placed, LockRuns, LockCleanup, LockAlone, Go, Steps, Running, CloseSteps
<1>5. CleansAlone'
  <2>1. CASE LockRuns(c)
    BY <1>1, <2>1 DEF LockRuns, NoWriter, Go, CleansAlone, Placed, Cleaning
  <2>2. CASE LockCleanup(c)
    BY <1>1, <2>2 DEF LockCleanup, Go, CleansAlone, Placed, Cleaning
  <2>3. CASE LockAlone(c)
    BY <1>1, <2>3 DEF LockAlone, NoReader, Go, CleansAlone, Placed, Cleaning
  <2> QED BY <2>1, <2>2, <2>3
<1>6. Flagged'
  BY <1>1 DEF Flagged, LockRuns, LockCleanup, LockAlone, clients, connection, flags, owner
<1> QED BY <1>3, <1>4, <1>5, <1>6 DEF IInv, TypeOK, Counted, Placed, Flagged

(* Clients that leave or stop reading, the serve task and the owner move   *)
(* no connection.                                                          *)
LEMMA OthersInv ==
  ASSUME IInv,
         \/ \E c \in Clients : HangUp(c) \/ StopReading(c)
         \/ Serve \/ AcceptFails \/ Drain \/ Abort
  PROVE  IInv'
<1>1. Counted /\ Placed /\ Flagged /\ CleansAlone BY TypeParts DEF IInv
<1> USE DEF HangUp, StopReading, Serve, ServeStops, ServeDrains, ServeDrained, Served,
           AcceptFails, Drain, Abort
<1>2. UNCHANGED <<kinds, taken, cmd, replied, at>> BY DEF clients, connection
<1>3. Counted' BY <1>1, <1>2, SameCounts
<1>4. Placed' /\ CleansAlone' BY <1>1, <1>2, Standing
<1>5. Flagged'
  <2>1. CASE \E c \in Clients : HangUp(c) \/ StopReading(c)
    BY <1>1, <2>1 DEF Flagged, connection, flags, owner
  <2>2. CASE Serve \/ AcceptFails \/ Drain \/ Abort
    BY <1>1, <2>2 DEF Flagged, clients, connection, flags, owner
  <2> QED BY <2>1, <2>2
<1> QED BY <1>3, <1>4, <1>5 DEF IInv, TypeOK, Counted, Placed, Flagged

LEMMA StepInv == IInv /\ [Next]_vars => IInv'
<1> SUFFICES ASSUME IInv, [Next]_vars PROVE IInv' OBVIOUS
<1>1. ASSUME NEW c \in Clients, Connection(c) PROVE IInv'
  BY <1>1, TakeNextInv, ReadAheadInv, AnswerInv, ConnectionInv, CloseEndsInv, LockInv
     DEF Connection, Run, Close
<1>2. ASSUME NEW c \in Clients, Accept(c) PROVE IInv' BY <1>2, ConnectionInv
<1>3. ASSUME NEW c \in Clients, NEW k \in Kinds, Send(c, k) PROVE IInv' BY <1>3, SendInv
<1>4. ASSUME \/ \E c \in Clients : HangUp(c) \/ StopReading(c)
             \/ Serve \/ AcceptFails \/ Drain \/ Abort
      PROVE  IInv'
  BY <1>4, OthersInv
<1>5. CASE UNCHANGED vars
  <2>1. UNCHANGED <<kinds, taken, cmd, replied, at>> BY <1>5 DEF vars, clients, connection
  <2>2. Flagged' BY <1>5, TypeParts DEF IInv, Flagged, vars, clients, connection, flags, owner
  <2> QED BY <2>1, <2>2, SameCounts, Standing, TypeParts
          DEF IInv, TypeOK, Counted, Placed, Flagged
<1> QED BY <1>1, <1>2, <1>3, <1>4, <1>5 DEF Next

(* The server's state has its type, whatever clients do.                   *)
THEOREM TypeCorrect == Spec => []TypeOK
<1>1. IInv => TypeOK BY DEF IInv
<1> QED BY <1>1, InitInv, StepInv, PTL DEF Spec

(* While a close releases the browser no command is dispatched to it and   *)
(* no other close releases it, for any number of clients.                  *)
THEOREM Alone == Spec => []CloseRunsAlone
<1>1. IInv => CloseRunsAlone BY DEF IInv, CleansAlone, CloseRunsAlone, Cleaning
<1> QED BY <1>1, InitInv, StepInv, PTL DEF Spec

(* A connection that waits for a command has answered the last one, unless *)
(* its client is gone; one in a close was asked for a close.               *)
Asking ==
  \A c \in Clients :
    /\ at[c] = "new" => cmd[c] = 0
    /\ at[c] \in {"idle", "dropping", "failed", "stopping"} /\ c \notin gone
         => replied[c] = cmd[c]
    /\ at[c] \in CloseSteps \cup {"stopping"} => cmd[c] > 0 /\ kinds[c][cmd[c]] = "close"
    /\ at[c] \in Running => cmd[c] > 0 /\ kinds[c][cmd[c]] # "close"

LEMMA AskingStep == IInv /\ IInv' /\ Asking /\ [Next]_vars => Asking'
<1> SUFFICES ASSUME IInv, IInv', Asking, [Next]_vars PROVE Asking' OBVIOUS
<1>0. Counted /\ Placed /\ Flagged /\ Counted' BY TypeParts DEF IInv, TypeOK, Counted, Placed, Flagged
<1> USE DEF Asking, Placed, Flagged, Counted, Go, CloseSteps, Running,
            Cleaning, clients, connection, flags, owner
<1>1. ASSUME NEW c \in Clients, StartClose(c) PROVE Asking'
  BY <1>0, <1>1 DEF StartClose, TakeNext, HasNext, Following
<1>2. ASSUME NEW c \in Clients, StartRun(c) PROVE Asking'
  BY <1>0, <1>2 DEF StartRun, TakeNext, HasNext, Following
<1>3. ASSUME NEW c \in Clients, RefuseRun(c) PROVE Asking'
  BY <1>0, <1>3 DEF RefuseRun, TakeNext, HasNext, Following
<1>4. ASSUME NEW c \in Clients, EndConnection(c) PROVE Asking'
  BY <1>0, <1>4 DEF EndConnection
<1>5. ASSUME NEW c \in Clients, WireFails(c) PROVE Asking'
  BY <1>0, <1>5 DEF WireFails
<1>6. ASSUME NEW c \in Clients, ReadAhead(c) PROVE Asking'
  BY <1>0, <1>6 DEF ReadAhead
<1>7. ASSUME NEW c \in Clients, LookAtClosing(c) PROVE Asking'
  BY <1>0, <1>7 DEF LookAtClosing
<1>8. ASSUME NEW c \in Clients, LockRuns(c) PROVE Asking'
  BY <1>0, <1>8 DEF LockRuns, NoWriter
<1>9. ASSUME NEW c \in Clients, Complete(c) PROVE Asking'
  BY <1>0, <1>9 DEF Complete
<1>10. ASSUME NEW c \in Clients, Answer(c) PROVE Asking'
  BY <1>0, <1>10 DEF Answer
<1>11. ASSUME NEW c \in Clients, CutOff(c) PROVE Asking'
  BY <1>0, <1>11 DEF CutOff
<1>12. ASSUME NEW c \in Clients, RunRefused(c) PROVE Asking'
  BY <1>0, <1>12 DEF RunRefused
<1>13. ASSUME NEW c \in Clients, LockCleanup(c) PROVE Asking'
  BY <1>0, <1>13 DEF LockCleanup
<1>14. ASSUME NEW c \in Clients, LockAlone(c) PROVE Asking'
  BY <1>0, <1>14 DEF LockAlone, NoReader
<1>15. ASSUME NEW c \in Clients, Cleaned(c) PROVE Asking'
  BY <1>0, <1>15 DEF Cleaned
<1>16. ASSUME NEW c \in Clients, CleanupFails(c) PROVE Asking'
  BY <1>0, <1>16 DEF CleanupFails
<1>17. ASSUME NEW c \in Clients, ReplyToClose(c) PROVE Asking'
  BY <1>0, <1>17 DEF ReplyToClose
<1>18. ASSUME NEW c \in Clients, DropRequest(c) PROVE Asking'
  BY <1>0, <1>18 DEF DropRequest, LastToEnd, AfterClose
<1>19. ASSUME NEW c \in Clients, SendStop(c) PROVE Asking'
  BY <1>0, <1>19 DEF SendStop
<1>20. ASSUME NEW c \in Clients, ConnectionAborted(c) PROVE Asking'
  BY <1>0, <1>20 DEF ConnectionAborted
<1>21. ASSUME NEW c \in Clients, Accept(c) PROVE Asking'
  BY <1>0, <1>21 DEF Accept
<1>22. ASSUME NEW c \in Clients, HangUp(c) PROVE Asking'
  BY <1>0, <1>22 DEF HangUp, Connected
<1>23. ASSUME NEW c \in Clients, StopReading(c) PROVE Asking'
  BY <1>0, <1>23 DEF StopReading, Connected
<1>24. ASSUME NEW c \in Clients, NEW k \in Kinds, Send(c, k) PROVE Asking'
  BY <1>0, <1>24 DEF Send, Connected
<1>25. ASSUME NEW c \in Clients, BadFrame(c) PROVE Asking'
  BY <1>0, <1>25 DEF BadFrame
<1>26. ASSUME Serve \/ AcceptFails \/ Drain \/ Abort \/ UNCHANGED vars PROVE Asking'
  BY <1>0, <1>26 DEF Serve, ServeStops, ServeDrains, ServeDrained, Served, AcceptFails, Drain, Abort, vars
<1> QED BY <1>1, <1>2, <1>3, <1>4, <1>5, <1>6, <1>7, <1>8, <1>9, <1>10, <1>11,
         <1>12, <1>13, <1>14, <1>15, <1>16, <1>17, <1>18, <1>19, <1>20, <1>21,
         <1>22, <1>23, <1>24, <1>25, <1>26 DEF Next, Connection, Run, Close

(* A close past the mutex, and a cleanup, imply that the lifecycle closes; *)
(* a serve task that is done has stopped; a server that stops by itself    *)
(* does so for a close or with no connection left.                         *)
Decided ==
  /\ cleaned => closing
  /\ \A c \in Clients : at[c] \in (CloseSteps \ {"mutex"}) \cup {"stopping"} => closing
  /\ serving = "done" => stopped
  /\ stopped /\ ~aborted =>
       closing \/ (serving = "done" /\ \A c \in Clients : at[c] \in {"new", "ended"})

LEMMA DecidedStep == IInv /\ Decided /\ [Next]_vars => Decided'
<1> SUFFICES ASSUME IInv, Decided, [Next]_vars PROVE Decided' OBVIOUS
<1>0. Placed /\ Flagged BY TypeParts DEF IInv
<1> USE DEF Decided, Placed, Flagged, Go, CloseSteps, Running, Cleaning,
            clients, connection, flags, owner
<1>1. ASSUME NEW c \in Clients, StartClose(c) PROVE Decided'
  BY <1>0, <1>1 DEF StartClose, TakeNext, HasNext, Following
<1>2. ASSUME NEW c \in Clients, StartRun(c) PROVE Decided'
  BY <1>0, <1>2 DEF StartRun, TakeNext, HasNext, Following
<1>3. ASSUME NEW c \in Clients, RefuseRun(c) PROVE Decided'
  BY <1>0, <1>3 DEF RefuseRun, TakeNext, HasNext, Following
<1>4. ASSUME NEW c \in Clients, EndConnection(c) PROVE Decided'
  BY <1>0, <1>4 DEF EndConnection
<1>5. ASSUME NEW c \in Clients, WireFails(c) PROVE Decided'
  BY <1>0, <1>5 DEF WireFails
<1>6. ASSUME NEW c \in Clients, ReadAhead(c) PROVE Decided'
  BY <1>0, <1>6 DEF ReadAhead
<1>7. ASSUME NEW c \in Clients, LookAtClosing(c) PROVE Decided'
  BY <1>0, <1>7 DEF LookAtClosing
<1>8. ASSUME NEW c \in Clients, LockRuns(c) PROVE Decided'
  BY <1>0, <1>8 DEF LockRuns, NoWriter
<1>9. ASSUME NEW c \in Clients, Complete(c) PROVE Decided'
  BY <1>0, <1>9 DEF Complete
<1>10. ASSUME NEW c \in Clients, Answer(c) PROVE Decided'
  BY <1>0, <1>10 DEF Answer
<1>11. ASSUME NEW c \in Clients, CutOff(c) PROVE Decided'
  BY <1>0, <1>11 DEF CutOff
<1>12. ASSUME NEW c \in Clients, RunRefused(c) PROVE Decided'
  BY <1>0, <1>12 DEF RunRefused
<1>13. ASSUME NEW c \in Clients, LockCleanup(c) PROVE Decided'
  BY <1>0, <1>13 DEF LockCleanup
<1>14. ASSUME NEW c \in Clients, LockAlone(c) PROVE Decided'
  BY <1>0, <1>14 DEF LockAlone, NoReader
<1>15. ASSUME NEW c \in Clients, Cleaned(c) PROVE Decided'
  BY <1>0, <1>15 DEF Cleaned
<1>16. ASSUME NEW c \in Clients, CleanupFails(c) PROVE Decided'
  BY <1>0, <1>16 DEF CleanupFails
<1>17. ASSUME NEW c \in Clients, ReplyToClose(c) PROVE Decided'
  BY <1>0, <1>17 DEF ReplyToClose
<1>18. ASSUME NEW c \in Clients, DropRequest(c) PROVE Decided'
  BY <1>0, <1>18 DEF DropRequest, LastToEnd, AfterClose
<1>19. ASSUME NEW c \in Clients, SendStop(c) PROVE Decided'
  BY <1>0, <1>19 DEF SendStop
<1>20. ASSUME NEW c \in Clients, ConnectionAborted(c) PROVE Decided'
  BY <1>0, <1>20 DEF ConnectionAborted
<1>21. ASSUME NEW c \in Clients, Accept(c) PROVE Decided'
  BY <1>0, <1>21 DEF Accept
<1>22. ASSUME NEW c \in Clients, HangUp(c) PROVE Decided'
  BY <1>0, <1>22 DEF HangUp, Connected
<1>23. ASSUME NEW c \in Clients, StopReading(c) PROVE Decided'
  BY <1>0, <1>23 DEF StopReading, Connected
<1>24. ASSUME NEW c \in Clients, NEW k \in Kinds, Send(c, k) PROVE Decided'
  BY <1>0, <1>24 DEF Send, Connected
<1>25. ASSUME NEW c \in Clients, BadFrame(c) PROVE Decided'
  BY <1>0, <1>25 DEF BadFrame
<1>26. ASSUME Serve \/ AcceptFails \/ Drain \/ Abort \/ UNCHANGED vars PROVE Decided'
  BY <1>0, <1>26 DEF Serve, ServeStops, ServeDrains, ServeDrained, Served, AcceptFails, Drain, Abort, vars
<1> QED BY <1>1, <1>2, <1>3, <1>4, <1>5, <1>6, <1>7, <1>8, <1>9, <1>10, <1>11,
         <1>12, <1>13, <1>14, <1>15, <1>16, <1>17, <1>18, <1>19, <1>20, <1>21,
         <1>22, <1>23, <1>24, <1>25, <1>26 DEF Next, Connection, Run, Close

(* Once the stop is decided no close that began before is on its way.      *)
NoneOnItsWay ==
  ~aborted /\ (stopped \/ \E d \in Clients : at[d] = "stopping") =>
    \A c \in began : at[c] \notin CloseSteps

LEMMA NoneOnItsWayStep == IInv /\ Decided /\ NoneOnItsWay /\ [Next]_vars => NoneOnItsWay'
<1> SUFFICES ASSUME IInv, Decided, NoneOnItsWay, [Next]_vars PROVE NoneOnItsWay' OBVIOUS
<1>0. Placed /\ Flagged /\ Decided BY TypeParts DEF IInv
<1> USE DEF NoneOnItsWay, Placed, Flagged, Go, CloseSteps, Running, Cleaning,
            clients, connection, flags, owner
<1>1. ASSUME NEW c \in Clients, StartClose(c) PROVE NoneOnItsWay'
  BY <1>0, <1>1 DEF StartClose, TakeNext, HasNext, Following
<1>2. ASSUME NEW c \in Clients, StartRun(c) PROVE NoneOnItsWay'
  BY <1>0, <1>2 DEF StartRun, TakeNext, HasNext, Following
<1>3. ASSUME NEW c \in Clients, RefuseRun(c) PROVE NoneOnItsWay'
  BY <1>0, <1>3 DEF RefuseRun, TakeNext, HasNext, Following
<1>4. ASSUME NEW c \in Clients, EndConnection(c) PROVE NoneOnItsWay'
  BY <1>0, <1>4 DEF EndConnection
<1>5. ASSUME NEW c \in Clients, WireFails(c) PROVE NoneOnItsWay'
  BY <1>0, <1>5 DEF WireFails
<1>6. ASSUME NEW c \in Clients, ReadAhead(c) PROVE NoneOnItsWay'
  BY <1>0, <1>6 DEF ReadAhead
<1>7. ASSUME NEW c \in Clients, LookAtClosing(c) PROVE NoneOnItsWay'
  BY <1>0, <1>7 DEF LookAtClosing
<1>8. ASSUME NEW c \in Clients, LockRuns(c) PROVE NoneOnItsWay'
  BY <1>0, <1>8 DEF LockRuns, NoWriter
<1>9. ASSUME NEW c \in Clients, Complete(c) PROVE NoneOnItsWay'
  BY <1>0, <1>9 DEF Complete
<1>10. ASSUME NEW c \in Clients, Answer(c) PROVE NoneOnItsWay'
  BY <1>0, <1>10 DEF Answer
<1>11. ASSUME NEW c \in Clients, CutOff(c) PROVE NoneOnItsWay'
  BY <1>0, <1>11 DEF CutOff
<1>12. ASSUME NEW c \in Clients, RunRefused(c) PROVE NoneOnItsWay'
  BY <1>0, <1>12 DEF RunRefused
<1>13. ASSUME NEW c \in Clients, LockCleanup(c) PROVE NoneOnItsWay'
  BY <1>0, <1>13 DEF LockCleanup
<1>14. ASSUME NEW c \in Clients, LockAlone(c) PROVE NoneOnItsWay'
  BY <1>0, <1>14 DEF LockAlone, NoReader
<1>15. ASSUME NEW c \in Clients, Cleaned(c) PROVE NoneOnItsWay'
  BY <1>0, <1>15 DEF Cleaned
<1>16. ASSUME NEW c \in Clients, CleanupFails(c) PROVE NoneOnItsWay'
  BY <1>0, <1>16 DEF CleanupFails
<1>17. ASSUME NEW c \in Clients, ReplyToClose(c) PROVE NoneOnItsWay'
  BY <1>0, <1>17 DEF ReplyToClose
<1>18. ASSUME NEW c \in Clients, DropRequest(c) PROVE NoneOnItsWay'
  BY <1>0, <1>18 DEF DropRequest, LastToEnd, AfterClose
<1>19. ASSUME NEW c \in Clients, SendStop(c) PROVE NoneOnItsWay'
  BY <1>0, <1>19 DEF SendStop
<1>20. ASSUME NEW c \in Clients, ConnectionAborted(c) PROVE NoneOnItsWay'
  BY <1>0, <1>20 DEF ConnectionAborted
<1>21. ASSUME NEW c \in Clients, Accept(c) PROVE NoneOnItsWay'
  BY <1>0, <1>21 DEF Accept
<1>22. ASSUME NEW c \in Clients, HangUp(c) PROVE NoneOnItsWay'
  BY <1>0, <1>22 DEF HangUp, Connected
<1>23. ASSUME NEW c \in Clients, StopReading(c) PROVE NoneOnItsWay'
  BY <1>0, <1>23 DEF StopReading, Connected
<1>24. ASSUME NEW c \in Clients, NEW k \in Kinds, Send(c, k) PROVE NoneOnItsWay'
  BY <1>0, <1>24 DEF Send, Connected
<1>25. ASSUME NEW c \in Clients, BadFrame(c) PROVE NoneOnItsWay'
  BY <1>0, <1>25 DEF BadFrame
<1>26. ASSUME Serve \/ AcceptFails \/ Drain \/ Abort \/ UNCHANGED vars PROVE NoneOnItsWay'
  BY <1>0, <1>26 DEF Serve, ServeStops, ServeDrains, ServeDrained, Served, AcceptFails, Drain, Abort, vars
<1> QED BY <1>1, <1>2, <1>3, <1>4, <1>5, <1>6, <1>7, <1>8, <1>9, <1>10, <1>11,
         <1>12, <1>13, <1>14, <1>15, <1>16, <1>17, <1>18, <1>19, <1>20, <1>21,
         <1>22, <1>23, <1>24, <1>25, <1>26 DEF Next, Connection, Run, Close

(* What is begun is answered: a connection ends between two commands, at   *)
(* the end of a close, cut off by one, or because all of them end.         *)
LEMMA BegunStep ==
  IInv /\ IInv' /\ Asking /\ Decided /\ NoneOnItsWay /\ BegunIsAnswered /\ [Next]_vars
    => BegunIsAnswered'
<1> SUFFICES ASSUME IInv, IInv', Asking, Decided, NoneOnItsWay, BegunIsAnswered, [Next]_vars
             PROVE  BegunIsAnswered'
  OBVIOUS
<1>0. Counted /\ Placed /\ Flagged /\ Counted' /\ Asking /\ Decided /\ NoneOnItsWay
  BY TypeParts DEF IInv, TypeOK, Counted, Placed, Flagged
<1> USE DEF BegunIsAnswered, Placed, Flagged, Counted, Asking, Decided,
            NoneOnItsWay, AfterClose, Steps, Go, CloseSteps, Running,
            Cleaning, Garbled, clients, connection, flags, owner
<1>1. ASSUME NEW c \in Clients, StartClose(c) PROVE BegunIsAnswered'
  BY <1>0, <1>1 DEF StartClose, TakeNext, HasNext, Following
<1>2. ASSUME NEW c \in Clients, StartRun(c) PROVE BegunIsAnswered'
  BY <1>0, <1>2 DEF StartRun, TakeNext, HasNext, Following
<1>3. ASSUME NEW c \in Clients, RefuseRun(c) PROVE BegunIsAnswered'
  BY <1>0, <1>3 DEF RefuseRun, TakeNext, HasNext, Following
<1>4. ASSUME NEW c \in Clients, EndConnection(c) PROVE BegunIsAnswered'
  BY <1>0, <1>4 DEF EndConnection
<1>5. ASSUME NEW c \in Clients, WireFails(c) PROVE BegunIsAnswered'
  BY <1>0, <1>5 DEF WireFails
<1>6. ASSUME NEW c \in Clients, ReadAhead(c) PROVE BegunIsAnswered'
  <2>1. at[c] # "ended" /\ UNCHANGED <<kinds, gone, at, cmd, replied, closing, aborted, began>>
    BY <1>6 DEF ReadAhead
  <2>2. \A d \in Clients \ {c} : taken'[d] = taken[d]
    BY <1>0, <1>6 DEF ReadAhead
  <2> QED BY <2>1, <2>2
<1>7. ASSUME NEW c \in Clients, LookAtClosing(c) PROVE BegunIsAnswered'
  BY <1>0, <1>7 DEF LookAtClosing
<1>8. ASSUME NEW c \in Clients, LockRuns(c) PROVE BegunIsAnswered'
  BY <1>0, <1>8 DEF LockRuns, NoWriter
<1>9. ASSUME NEW c \in Clients, Complete(c) PROVE BegunIsAnswered'
  BY <1>0, <1>9 DEF Complete
<1>10. ASSUME NEW c \in Clients, Answer(c) PROVE BegunIsAnswered'
  BY <1>0, <1>10 DEF Answer
<1>11. ASSUME NEW c \in Clients, CutOff(c) PROVE BegunIsAnswered'
  BY <1>0, <1>11 DEF CutOff
<1>12. ASSUME NEW c \in Clients, RunRefused(c) PROVE BegunIsAnswered'
  BY <1>0, <1>12 DEF RunRefused
<1>13. ASSUME NEW c \in Clients, LockCleanup(c) PROVE BegunIsAnswered'
  BY <1>0, <1>13 DEF LockCleanup
<1>14. ASSUME NEW c \in Clients, LockAlone(c) PROVE BegunIsAnswered'
  BY <1>0, <1>14 DEF LockAlone, NoReader
<1>15. ASSUME NEW c \in Clients, Cleaned(c) PROVE BegunIsAnswered'
  BY <1>0, <1>15 DEF Cleaned
<1>16. ASSUME NEW c \in Clients, CleanupFails(c) PROVE BegunIsAnswered'
  BY <1>0, <1>16 DEF CleanupFails
<1>17. ASSUME NEW c \in Clients, ReplyToClose(c) PROVE BegunIsAnswered'
  BY <1>0, <1>17 DEF ReplyToClose
<1>18. ASSUME NEW c \in Clients, DropRequest(c) PROVE BegunIsAnswered'
  BY <1>0, <1>18 DEF DropRequest, LastToEnd, AfterClose
<1>19. ASSUME NEW c \in Clients, SendStop(c) PROVE BegunIsAnswered'
  BY <1>0, <1>19 DEF SendStop
<1>20. ASSUME NEW c \in Clients, ConnectionAborted(c) PROVE BegunIsAnswered'
  BY <1>0, <1>20 DEF ConnectionAborted
<1>21. ASSUME NEW c \in Clients, Accept(c) PROVE BegunIsAnswered'
  BY <1>0, <1>21 DEF Accept
<1>22. ASSUME NEW c \in Clients, HangUp(c) PROVE BegunIsAnswered'
  BY <1>0, <1>22 DEF HangUp, Connected
<1>23. ASSUME NEW c \in Clients, StopReading(c) PROVE BegunIsAnswered'
  BY <1>0, <1>23 DEF StopReading, Connected
<1>24. ASSUME NEW c \in Clients, NEW k \in Kinds, Send(c, k) PROVE BegunIsAnswered'
  BY <1>0, <1>24 DEF Send, Connected
<1>25. ASSUME NEW c \in Clients, BadFrame(c) PROVE BegunIsAnswered'
  BY <1>0, <1>25 DEF BadFrame
<1>26. ASSUME Serve \/ AcceptFails \/ Drain \/ Abort \/ UNCHANGED vars PROVE BegunIsAnswered'
  BY <1>0, <1>26 DEF Serve, ServeStops, ServeDrains, ServeDrained, Served, AcceptFails, Drain, Abort, vars
<1> QED BY <1>1, <1>2, <1>3, <1>4, <1>5, <1>6, <1>7, <1>8, <1>9, <1>10, <1>11,
         <1>12, <1>13, <1>14, <1>15, <1>16, <1>17, <1>18, <1>19, <1>20, <1>21,
         <1>22, <1>23, <1>24, <1>25, <1>26 DEF Next, Connection, Run, Close

(* A command that was begun is answered unless its client leaves or sends  *)
(* what cannot be decoded, the binding is dropped or accepting fails, or a *)
(* close, whoever asked for it, cuts it off; a close that began before the *)
(* stop was decided is answered unless its client leaves, the binding is   *)
(* dropped or accepting fails.  For any number of clients and closes.      *)
THEOREM Answered == Spec => []BegunIsAnswered
<1> DEFINE JInv == IInv /\ Asking /\ Decided /\ NoneOnItsWay /\ BegunIsAnswered
<1>1. Init => JInv
  <2> SUFFICES ASSUME Init PROVE JInv OBVIOUS
  <2>1. IInv BY InitInv
  <2>2. Asking BY DEF Init, Asking, CloseSteps, Running
  <2>3. Decided BY DEF Init, Decided, CloseSteps
  <2>4. NoneOnItsWay BY DEF Init, NoneOnItsWay
  <2>5. BegunIsAnswered BY DEF Init, BegunIsAnswered
  <2> QED BY <2>1, <2>2, <2>3, <2>4, <2>5
<1>2. JInv /\ [Next]_vars => JInv'
  <2> SUFFICES ASSUME JInv, [Next]_vars PROVE JInv' OBVIOUS
  <2>1. IInv' BY StepInv
  <2>2. Asking' BY <2>1, AskingStep
  <2>3. Decided' BY DecidedStep
  <2>4. NoneOnItsWay' BY NoneOnItsWayStep
  <2>5. BegunIsAnswered' BY <2>1, BegunStep
  <2> QED BY <2>1, <2>2, <2>3, <2>4, <2>5
<1>3. JInv => BegunIsAnswered OBVIOUS
<1> QED BY <1>1, <1>2, <1>3, PTL DEF Spec
=============================================================================
