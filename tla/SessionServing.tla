--------------------------- MODULE SessionServing ---------------------------
(***************************************************************************)
(* One session server from its start to its stop: the serve loop and the   *)
(* connections (crates/ferridriver-session/src/server.rs), the lifecycle   *)
(* they share (lifecycle.rs) and the owner who drains or drops the binding *)
(* (bind.rs).  Who may bind which id is SessionRegistry.                   *)
(*                                                                         *)
(* The commands of a connection are numbered in the order they are sent.   *)
(* A "run" ends by itself, a "stream" runs until its client goes away, a   *)
(* "close" names this server; "garbage" is a frame that is no command, or  *)
(* longer than a frame may be.  A dispatcher that panics is left out.      *)
(***************************************************************************)
EXTENDS Naturals, Sequences

CONSTANTS
  Clients,
  MaxSent,   \* bound: MaxSent[c] is the number of commands c sends at most
  MaySend    \* MaySend[c]: the kinds of commands it sends

Kinds == {"run", "stream", "close", "garbage"}

ASSUME ServingAssumption ==
  MaxSent \in [Clients -> Nat] /\ MaySend \in [Clients -> SUBSET Kinds]

VARIABLES
  kinds,     \* kinds[c]: the frames c has sent
  gone,      \* the clients that hung up
  deaf,      \* the clients that no longer read what they are sent
  at,        \* at[c]: where the task of c's connection is
  taken,     \* taken[c]: how many commands the connection has read
  cmd,       \* cmd[c]: the command it is at, or the last it was at
  replied,   \* replied[c]: the last command it answered
  hungUp,    \* Connection::hung_up
  closing,   \* Lifecycle: closing, draining, stopped, cleaned
  draining,
  stopped,
  cleaned,
  published, \* whether the lifecycle has its claim
  serving,   \* the serve task: "accepting", "waiting" for connections, "done"
  aborted,   \* whether the owner dropped the binding or accepting failed
  began      \* the connections whose close began before a stop was decided

clients == <<kinds, gone, deaf>>
connection == <<taken, cmd, replied, hungUp>>
flags == <<closing, draining, stopped, cleaned, published>>
owner == <<serving, aborted>>
vars == <<clients, at, connection, flags, owner, began>>

Running == {"want", "locking", "dispatching", "answering"}
CloseSteps == {"mutex", "writing", "releasing", "refusing", "accepting", "dropping", "failed"}
Cleaning == {"writing", "releasing"}
Steps == {"new", "idle", "stopping", "ended"} \cup Running \cup CloseSteps

Init ==
  /\ kinds = [c \in Clients |-> <<>>]
  /\ gone = {} /\ deaf = {}
  /\ at = [c \in Clients |-> "new"]
  /\ taken = [c \in Clients |-> 0]
  /\ cmd = [c \in Clients |-> 0]
  /\ replied = [c \in Clients |-> 0]
  /\ hungUp = {}
  /\ closing = FALSE /\ draining = FALSE /\ stopped = FALSE /\ cleaned = FALSE
  /\ published = TRUE /\ serving = "accepting" /\ aborted = FALSE
  /\ began = {}

Go(c, from, to) ==
  /\ at[c] \in from
  /\ at' = [at EXCEPT ![c] = to]

-----------------------------------------------------------------------------
(* Clients, while they are connected; reading matters only while a command is run. *)
Connected(c) == c \notin gone /\ at[c] \notin {"new", "ended"} /\ serving # "done"

Send(c, k) ==
  /\ Connected(c) /\ k \in MaySend[c] /\ Len(kinds[c]) < MaxSent[c]
  /\ kinds' = [kinds EXCEPT ![c] = Append(@, k)]
  /\ UNCHANGED <<gone, deaf, at, connection, flags, owner, began>>

HangUp(c) ==
  /\ Connected(c)
  /\ gone' = gone \cup {c}
  /\ UNCHANGED <<kinds, deaf, at, connection, flags, owner, began>>

StopReading(c) ==
  /\ Connected(c) /\ c \notin deaf /\ at[c] \in Running
  /\ deaf' = deaf \cup {c}
  /\ UNCHANGED <<kinds, gone, at, connection, flags, owner, began>>

-----------------------------------------------------------------------------
(* SessionServer::serve *)
Accept(c) ==
  /\ serving = "accepting" /\ ~stopped /\ ~draining
  /\ Go(c, {"new"}, "idle")
  /\ UNCHANGED <<clients, connection, flags, owner, began>>

(* The end of serve drops Serving. *)
Served ==
  /\ serving' = "done" /\ stopped' = TRUE /\ published' = FALSE
  /\ UNCHANGED <<clients, at, connection, closing, draining, cleaned, aborted, began>>

ServeStops == serving # "done" /\ stopped /\ Served

ServeDrains ==
  /\ serving = "accepting" /\ draining /\ ~stopped
  /\ serving' = "waiting"
  /\ UNCHANGED <<clients, at, connection, flags, aborted, began>>

ServeDrained ==
  /\ serving = "waiting"
  /\ \A c \in Clients : at[c] \in {"new", "ended"}
  /\ Served

(* An error of accept() is serve's own.  What follows is what follows an abort. *)
AcceptFails ==
  /\ serving = "accepting" /\ ~stopped /\ ~draining
  /\ aborted' = TRUE /\ serving' = "done" /\ stopped' = TRUE /\ published' = FALSE
  /\ UNCHANGED <<clients, at, connection, closing, draining, cleaned, began>>

(* The set of connections goes with the serve task: each is aborted at an await. *)
ConnectionAborted(c) ==
  /\ serving = "done"
  /\ Go(c, Steps \ {"new", "locking", "stopping", "ended"}, "ended")
  /\ UNCHANGED <<clients, connection, flags, owner, began>>

(* BoundSession: finish() drains, dropping it or unbind() aborts the serve task. *)
Drain ==
  /\ ~draining /\ serving # "done"
  /\ draining' = TRUE /\ published' = FALSE
  /\ UNCHANGED <<clients, at, connection, closing, stopped, cleaned, owner, began>>

Abort ==
  /\ serving # "done"
  /\ aborted' = TRUE /\ serving' = "done" /\ stopped' = TRUE /\ published' = FALSE
  /\ UNCHANGED <<clients, at, connection, closing, draining, cleaned, began>>

-----------------------------------------------------------------------------
(* serve_connection: the queue first, then the wire; nothing more once it drains. *)
HasNext(c) == cmd[c] < taken[c] \/ (c \notin hungUp /\ taken[c] < Len(kinds[c]))
Following(c) == kinds[c][cmd[c] + 1]

(* The frame that is next on the wire cannot be decoded. *)
Garbled(c) == taken[c] < Len(kinds[c]) /\ kinds[c][taken[c] + 1] = "garbage"

TakeNext(c) ==
  /\ ~draining /\ HasNext(c)
  /\ cmd' = [cmd EXCEPT ![c] = @ + 1]
  /\ taken' = [taken EXCEPT ![c] = IF cmd[c] < @ THEN @ ELSE @ + 1]

StartClose(c) ==
  /\ TakeNext(c) /\ Following(c) = "close"
  /\ Go(c, {"idle"}, "mutex")
  /\ began' = IF stopped \/ \E d \in Clients : at[d] = "stopping" THEN began \ {c}
              ELSE began \cup {c}
  /\ UNCHANGED <<clients, replied, hungUp, flags, owner>>

StartRun(c) ==
  /\ TakeNext(c) /\ Following(c) \in {"run", "stream"} /\ ~closing
  /\ Go(c, {"idle"}, "want")
  /\ UNCHANGED <<clients, replied, hungUp, flags, owner, began>>

RefuseRun(c) ==
  /\ TakeNext(c) /\ Following(c) \in {"run", "stream"} /\ closing
  /\ at[c] = "idle"
  /\ replied' = [replied EXCEPT ![c] = cmd[c] + 1]
  /\ UNCHANGED <<clients, at, hungUp, flags, owner, began>>

EndConnection(c) ==
  /\ draining \/ (c \in gone /\ ~HasNext(c))
  /\ Go(c, {"idle"}, "ended")
  /\ UNCHANGED <<clients, connection, flags, owner, began>>

(* A write to a client that is gone, or a read from it, may fail and end it too. *)
WireFails(c) ==
  /\ c \in gone \ hungUp
  /\ Go(c, {"idle", "want", "dispatching", "answering"}, "ended")
  /\ UNCHANGED <<clients, connection, flags, owner, began>>

(* run_command goes on reading while the command runs. *)
ReadsNothing(c) == FALSE /\ UNCHANGED vars  \* mutant: the connection is not read during a run

ReadAhead(c) ==
  /\ at[c] \in Running \ {"locking"} /\ c \notin hungUp
  /\ \/ /\ taken[c] < Len(kinds[c]) /\ ~Garbled(c)
        /\ taken' = [taken EXCEPT ![c] = @ + 1]
        /\ UNCHANGED hungUp
     \/ /\ taken[c] = Len(kinds[c]) /\ c \in gone
        /\ hungUp' = hungUp \cup {c}
        /\ taken' = [taken EXCEPT ![c] = cmd[c]]
  /\ UNCHANGED <<clients, at, cmd, replied, flags, owner, began>>

(* A frame that cannot be decoded ends the connection: between two commands          *)
(* (server.rs:382), or with the one that runs, which is dropped unanswered (469).     *)
BadFrame(c) ==
  /\ Garbled(c) /\ c \notin hungUp
  /\ \/ Go(c, Running \ {"locking"}, "ended")
     \/ cmd[c] = taken[c] /\ ~draining /\ Go(c, {"idle"}, "ended")
  /\ UNCHANGED <<clients, connection, flags, owner, began>>

(* Lifecycle::run: a look at closing, then the shared half of the lock. *)
LookAtClosing(c) ==
  /\ ~closing
  /\ Go(c, {"want"}, "locking")
  /\ UNCHANGED <<clients, connection, flags, owner, began>>

NoWriter == \A d \in Clients : at[d] \notin Cleaning

AnyReader == TRUE           \* mutant: commands and close do not exclude each other

NoReader == \A d \in Clients : at[d] # "dispatching"

LockRuns(c) ==
  /\ Go(c, {"locking"}, IF NoWriter THEN "dispatching" ELSE "want")
  /\ UNCHANGED <<clients, connection, flags, owner, began>>

Complete(c) ==
  /\ Go(c, {"dispatching"}, "answering")
  /\ kinds[c][cmd[c]] = "run" \/ c \in hungUp
  /\ UNCHANGED <<clients, connection, flags, owner, began>>

Answer(c) ==
  /\ c \in hungUp \/ c \notin deaf
  /\ Go(c, {"answering"}, "idle")
  /\ replied' = IF c \in hungUp THEN replied ELSE [replied EXCEPT ![c] = cmd[c]]
  /\ UNCHANGED <<clients, taken, cmd, hungUp, flags, owner, began>>

(* Closing cuts a command off wherever it is; the connection ends without an answer, *)
(* or, when the inner select is the first to see it, with an error.                   *)
CutUnlessWriting(c) ==      \* mutant: a write to a client that does not read is not cut off
  /\ closing /\ c \notin deaf
  /\ Go(c, Running \ {"locking"}, "ended")
  /\ UNCHANGED <<clients, connection, flags, owner, began>>

CutOff(c) ==
  /\ closing
  /\ Go(c, Running \ {"locking"}, "ended")
  /\ UNCHANGED <<clients, connection, flags, owner, began>>

RunRefused(c) ==
  /\ closing
  /\ Go(c, {"want", "dispatching"}, "answering")
  /\ UNCHANGED <<clients, connection, flags, owner, began>>

-----------------------------------------------------------------------------
(* close: the cleanup mutex, the flag, the exclusive half of the lock. *)
LockCleanup(c) ==
  /\ \A d \in Clients : at[d] \notin Cleaning
  /\ Go(c, {"mutex"}, "writing")
  /\ closing' = TRUE
  /\ UNCHANGED <<clients, connection, draining, stopped, cleaned, published, owner, began>>

LockAlone(c) ==
  /\ NoReader
  /\ Go(c, {"writing"}, "releasing")
  /\ UNCHANGED <<clients, connection, flags, owner, began>>

(* Dispatcher::close and unpublish, both of which may fail. *)
Cleaned(c) ==
  /\ Go(c, {"releasing"}, "accepting")
  /\ published' = FALSE /\ cleaned' = TRUE
  /\ UNCHANGED <<clients, connection, closing, draining, stopped, owner, began>>

CleanupFails(c) ==
  /\ Go(c, {"releasing"}, "refusing")
  /\ UNCHANGED <<clients, connection, flags, owner, began>>

(* The answer is written before the CloseRequest is dropped; a client that asked for *)
(* a close is taken to read it, or to be gone.                                        *)
ReplyToClose(c) ==
  /\ Go(c, {"accepting", "refusing"}, IF at[c] = "accepting" THEN "dropping" ELSE "failed")
  /\ replied' = IF c \in gone THEN replied ELSE [replied EXCEPT ![c] = cmd[c]]
  /\ UNCHANGED <<clients, taken, cmd, hungUp, flags, owner, began>>

AfterClose(c) == IF at[c] = "failed" /\ c \notin gone THEN "idle" ELSE "ended"

(* CloseRequest::drop: the count and the flag are read, then the stop is sent. *)
FirstToEnd(c) == at[c] = "dropping" \* mutant: the first acknowledged close stops the server

OwnSuccess(c) ==            \* mutant: the last close stops the server only if it did the cleanup
  /\ at[c] = "dropping"
  /\ \A d \in Clients \ {c} : at[d] \notin CloseSteps

LastToEnd(c) == cleaned /\ \A d \in Clients \ {c} : at[d] \notin CloseSteps

DropRequest(c) ==
  /\ Go(c, {"dropping", "failed"}, IF LastToEnd(c) THEN "stopping" ELSE AfterClose(c))
  /\ UNCHANGED <<clients, connection, flags, owner, began>>

SendStop(c) ==
  /\ Go(c, {"stopping"}, "ended")
  /\ stopped' = TRUE
  /\ UNCHANGED <<clients, connection, closing, draining, cleaned, published, owner, began>>

-----------------------------------------------------------------------------
Close(c) ==
  \/ LockCleanup(c) \/ LockAlone(c) \/ Cleaned(c) \/ CleanupFails(c) \/ ReplyToClose(c)
  \/ DropRequest(c) \/ SendStop(c)
Run(c) ==
  \/ LookAtClosing(c) \/ LockRuns(c) \/ Complete(c) \/ Answer(c)
Connection(c) ==
  \/ StartClose(c) \/ StartRun(c) \/ RefuseRun(c) \/ EndConnection(c) \/ WireFails(c) \/ ReadAhead(c)
  \/ BadFrame(c) \/ Run(c) \/ CutOff(c) \/ RunRefused(c) \/ Close(c) \/ ConnectionAborted(c)
Serve == ServeStops \/ ServeDrains \/ ServeDrained

Next ==
  \/ \E c \in Clients : Connection(c) \/ Accept(c) \/ HangUp(c) \/ StopReading(c)
  \/ \E c \in Clients, k \in Kinds : Send(c, k)
  \/ Serve \/ AcceptFails \/ Drain \/ Abort

Spec == Init /\ [][Next]_vars

(* Tasks are polled; a task whose write nobody reads stays in it, until the client is *)
(* gone.  Clients are free, a command that streams ends only when its client is gone, *)
(* and the owner has to do nothing.                                                   *)
Unblocked(c) == c \notin deaf \/ c \in gone
Polled(c) == Unblocked(c) /\ (ReadAhead(c) \/ BadFrame(c) \/ Run(c) \/ RunRefused(c))
Task(c) ==
  \/ StartClose(c) \/ StartRun(c) \/ RefuseRun(c) \/ EndConnection(c)
  \/ Polled(c) \/ LockRuns(c) \/ CutOff(c) \/ Close(c) \/ ConnectionAborted(c)

Fairness == WF_vars(Serve) /\ \A c \in Clients : WF_vars(Task(c))

FairSpec == Spec /\ Fairness

-----------------------------------------------------------------------------
TypeOK ==
  /\ kinds \in [Clients -> Seq(Kinds)]
  /\ gone \subseteq Clients /\ deaf \subseteq Clients /\ hungUp \subseteq gone
  /\ at \in [Clients -> Steps]
  /\ taken \in [Clients -> Nat] /\ cmd \in [Clients -> Nat] /\ replied \in [Clients -> Nat]
  /\ \A c \in Clients :
       /\ Len(kinds[c]) \in 0..MaxSent[c]
       /\ cmd[c] \in 0..Len(kinds[c])
       /\ taken[c] \in cmd[c]..Len(kinds[c])
       /\ replied[c] \in 0..cmd[c]
  /\ closing \in BOOLEAN /\ draining \in BOOLEAN /\ stopped \in BOOLEAN /\ cleaned \in BOOLEAN
  /\ published \in BOOLEAN /\ aborted \in BOOLEAN
  /\ serving \in {"accepting", "waiting", "done"}
  /\ began \subseteq Clients

(* While a close releases the browser, no command is dispatched to it and no other *)
(* close releases it (lifecycle.rs:107-121).                                        *)
CloseRunsAlone ==
  \A c \in Clients : at[c] = "releasing" =>
    \A d \in Clients \ {c} : at[d] \notin {"dispatching", "releasing"}

(* A command that was begun is answered unless its client leaves, the binding is     *)
(* dropped or accepting a connection fails (server.rs:272), which abort every        *)
(* connection.  A close begun before the stop was decided is told its outcome        *)
(* although the stop ends every connection                                           *)
(* (shutdown_waits_for_every_started_close_acknowledgement, lifecycle.rs:142).  Any  *)
(* other command is left unanswered only by a close, whichever client asked for it,  *)
(* or by a frame of its own client that cannot be decoded (server.rs:469); a drain   *)
(* lets it finish (server.rs:288, bind.rs:165-179).                                  *)
BegunIsAnswered ==
  \A c \in Clients :
    at[c] = "ended" /\ replied[c] < cmd[c] /\ c \notin gone /\ ~aborted =>
      IF kinds[c][cmd[c]] = "close" THEN c \notin began ELSE closing \/ Garbled(c)

(* Once a cleanup succeeded the server stops, whichever close is the last to end and *)
(* whatever its own outcome.                                                          *)
CleanedStops == cleaned ~> stopped

(* A close is not held up by commands that never end or clients that do not read *)
(* (non_reading_streaming_client_cannot_block_cleanup, server.rs).                *)
CloseIsNotBlocked ==
  \A c \in Clients : at[c] \in CloseSteps ~> at[c] \notin CloseSteps

(* A client that hung up is noticed, the stream it left included. *)
HangUpEnds == \A c \in Clients : c \in gone /\ at[c] # "new" ~> at[c] = "ended"
=============================================================================
