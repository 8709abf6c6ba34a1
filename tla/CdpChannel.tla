----------------------------- MODULE CdpChannel -----------------------------
(***************************************************************************)
(* Commands over one browser connection: the half of CdpDispatcher that    *)
(* correlates responses (crates/ferridriver/src/backend/cdp/transport.rs), *)
(* the two transports that embed it (cdp/ws.rs, cdp/pipe.rs), their tasks  *)
(* (backend/transport_tasks.rs) and the budget of a call                   *)
(* (operation_budget.rs).                                                  *)
(*                                                                         *)
(* A command is its own id: next_id never repeats.  Frames are records,    *)
(* the encodings are left out.  The browser is the environment: it may     *)
(* answer or hold a command for as long as it likes, detach a session and  *)
(* exit, but it refuses a command for a session it no longer has.          *)
(***************************************************************************)
EXTENDS Naturals, Sequences, FiniteSets

CONSTANTS
  Commands,
  Sessions,
  Root,        \* a command without a sessionId
  SessionOf,   \* SessionOf[c] \in Sessions \cup {Root}
  Limited,     \* the commands whose OperationBudget has a deadline
  QueueCap     \* capacity of the writer's queue (64 in the code)

ASSUME ChannelAssumption ==
  /\ Root \notin Sessions
  /\ SessionOf \in [Commands -> Sessions \cup {Root}]
  /\ Limited \subseteq Commands
  /\ QueueCap \in Nat \ {0}

Enders == {"reader", "closer"}

VARIABLES
  phase,        \* phase[c]: where send_command stands
  result,       \* result[c]: what it returned
  reply,        \* reply[c]: what the oneshot of its entry carries
  pending,      \* CdpDispatcher::pending
  disconnected, \* CdpDispatcher::disconnected
  queue,        \* the writer's mpsc channel
  writer,       \* whether the writer task runs
  shutdown,     \* the watch channel of TransportTasks
  reader,       \* what the reader task is dispatching
  ending,       \* ending[e]: how far e is in fail_all_pending
  doomed,       \* doomed[e]: the ids e collected and has not failed yet
  up,           \* the browser runs
  attached,     \* the sessions it has
  held,         \* the commands it has received and not answered
  answered,     \* the commands it has answered
  inbound       \* the frames it sent that the reader has not taken

calls == <<phase, result, reply>>
tasks == <<queue, writer, shutdown>>
browser == <<up, attached, held, answered>>
vars == <<phase, result, reply, pending, disconnected, queue, writer, shutdown, reader,
          ending, doomed, up, attached, held, answered, inbound>>

Answer(c, v) == [kind |-> "answer", of |-> c, value |-> v]
Detached(s) == [kind |-> "detached", of |-> s, value |-> "none"]
Frames == [kind : {"answer"}, of : Commands, value : {"ok", "error", "gone"}]
            \cup [kind : {"detached"}, of : Sessions, value : {"none"}]

(* The reader between two frames, holding one, or failing a session's commands. *)
Idle == [at |-> "idle"]
Holding(f) == [at |-> "holding", frame |-> f]
Failing(ids) == [at |-> "failing", ids |-> ids]
Aborted == [at |-> "aborted"]

Init ==
  /\ phase = [c \in Commands |-> "idle"]
  /\ result = [c \in Commands |-> "none"]
  /\ reply = [c \in Commands |-> "none"]
  /\ pending = {} /\ disconnected = FALSE
  /\ queue = <<>> /\ writer = TRUE /\ shutdown = FALSE
  /\ reader = Idle
  /\ ending = [e \in Enders |-> "idle"]
  /\ doomed = [e \in Enders |-> {}]
  /\ up = TRUE /\ attached = Sessions /\ held = {} /\ answered = {} /\ inbound = <<>>

-----------------------------------------------------------------------------
(* send_command *)
Return(c, r) ==
  /\ phase' = [phase EXCEPT ![c] = "done"]
  /\ result' = [result EXCEPT ![c] = r]

Proceed(c, from, to) ==
  /\ phase[c] = from
  /\ phase' = [phase EXCEPT ![c] = to]
  /\ UNCHANGED result

(* build_command: the first look at the flag. *)
Begin(c) ==
  /\ \/ disconnected /\ phase[c] = "idle" /\ Return(c, "closed")
     \/ ~disconnected /\ Proceed(c, "idle", "encoding")
  /\ UNCHANGED <<reply, pending, disconnected, tasks, reader, ending, doomed, browser, inbound>>

(* register_command: the entry goes in, then the flag is read again. *)
Register(c) ==
  /\ Proceed(c, "encoding", "registered")
  /\ pending' = pending \cup {c}
  /\ UNCHANGED <<reply, disconnected, tasks, reader, ending, doomed, browser, inbound>>

UncheckedRegister(c) ==     \* mutant: the flag is not read again
  /\ Proceed(c, "registered", "queueing")
  /\ UNCHANGED <<reply, pending, disconnected, tasks, reader, ending, doomed, browser, inbound>>

Recheck(c) ==
  /\ \/ /\ disconnected /\ phase[c] = "registered"
        /\ Return(c, "closed")
        /\ pending' = pending \ {c}
     \/ /\ ~disconnected
        /\ Proceed(c, "registered", "queueing")
        /\ UNCHANGED pending
  /\ UNCHANGED <<reply, disconnected, tasks, reader, ending, doomed, browser, inbound>>

Room == Len(queue) < QueueCap

(* OperationBudget::send: into the bounded queue, or refused by a writer that ended. *)
Enqueue(c) ==
  /\ phase[c] = "queueing"
  /\ \/ /\ writer
        /\ Room
        /\ queue' = Append(queue, c)
        /\ Proceed(c, "queueing", "waiting")
        /\ UNCHANGED pending
     \/ /\ ~writer
        /\ Return(c, "unsent")
        /\ pending' = pending \ {c}
        /\ UNCHANGED queue
  /\ UNCHANGED <<reply, disconnected, writer, shutdown, reader, ending, doomed, browser, inbound>>

Receive(c) ==
  /\ phase[c] = "waiting"
  /\ reply[c] # "none"
  /\ Return(c, reply[c])
  /\ UNCHANGED <<reply, pending, disconnected, tasks, reader, ending, doomed, browser, inbound>>

GiveUp(c, r) ==
  /\ phase[c] \in {"queueing", "waiting"}
  /\ Return(c, r)
  /\ pending' = pending \ {c}
  /\ UNCHANGED <<reply, disconnected, tasks, reader, ending, doomed, browser, inbound>>

Timeout(c) == c \in Limited /\ GiveUp(c, "timeout")
Cancel(c) == GiveUp(c, "cancelled")

-----------------------------------------------------------------------------
(* The writer task: writes what is queued until it is told to stop or a write *)
(* fails; the receiving half of the queue goes with it.  A write fails only   *)
(* once the browser is gone.                                                  *)
Write ==
  /\ writer /\ queue # <<>>
  /\ \/ /\ queue' = Tail(queue)
        /\ held' = IF up THEN held \cup {Head(queue)} ELSE held
        /\ UNCHANGED writer
     \/ /\ ~up
        /\ writer' = FALSE /\ queue' = <<>>
        /\ UNCHANGED held
  /\ UNCHANGED <<calls, pending, disconnected, shutdown, reader, ending, doomed, up, attached,
                 answered, inbound>>

WriterStops ==
  /\ writer /\ shutdown
  /\ writer' = FALSE /\ queue' = <<>>
  /\ UNCHANGED <<calls, pending, disconnected, shutdown, reader, ending, doomed, browser, inbound>>

-----------------------------------------------------------------------------
(* The reader task: a frame is taken after a look at the flag, dispatched after. *)
TakeFrame ==
  /\ reader = Idle /\ inbound # <<>>
  /\ inbound' = Tail(inbound)
  /\ reader' = IF disconnected THEN Idle ELSE Holding(Head(inbound))
  /\ UNCHANGED <<calls, pending, disconnected, tasks, ending, doomed, browser>>

(* An entry is removed and its oneshot answered. *)
Settle(c, v) ==
  /\ pending' = pending \ {c}
  /\ reply' = IF c \in pending THEN [reply EXCEPT ![c] = v] ELSE reply

DispatchAnswer ==
  /\ reader.at = "holding" /\ reader.frame.kind = "answer"
  /\ Settle(reader.frame.of, reader.frame.value)
  /\ reader' = Idle
  /\ UNCHANGED <<phase, result, disconnected, tasks, ending, doomed, browser, inbound>>

(* fail_session_pending collects the ids of the session, then fails each. *)
EveryCommandOf(s) == pending      \* mutant: the session is not looked at

NoCommandOf(s) == {}              \* mutant: a detachment is only an event

PendingOf(s) == {c \in pending : SessionOf[c] = s}

DispatchDetached ==
  /\ reader.at = "holding" /\ reader.frame.kind = "detached"
  /\ reader' = Failing(PendingOf(reader.frame.of))
  /\ UNCHANGED <<calls, pending, disconnected, tasks, ending, doomed, browser, inbound>>

FailSessionCommand ==
  /\ reader.at = "failing"
  /\ \/ \E c \in reader.ids :
          /\ Settle(c, "detached")
          /\ reader' = Failing(reader.ids \ {c})
     \/ /\ reader.ids = {}
        /\ reader' = Idle
        /\ UNCHANGED <<pending, reply>>
  /\ UNCHANGED <<phase, result, disconnected, tasks, ending, doomed, browser, inbound>>

-----------------------------------------------------------------------------
(* fail_all_pending, run by the reader at the end of the stream or by close(). *)
MayEnd(e) ==
  CASE e = "reader" -> ~up /\ inbound = <<>> /\ reader = Idle
    [] e = "closer" -> TRUE

FailAllBegins(e) ==
  /\ ending[e] = "idle" /\ MayEnd(e)
  /\ disconnected' = TRUE
  /\ ending' = [ending EXCEPT ![e] = "flagged"]
  /\ UNCHANGED <<calls, pending, tasks, reader, doomed, browser, inbound>>

FailAllCollects(e) ==
  /\ ending[e] = "flagged"
  /\ doomed' = [doomed EXCEPT ![e] = pending]
  /\ ending' = [ending EXCEPT ![e] = "failing"]
  /\ UNCHANGED <<calls, pending, disconnected, tasks, reader, browser, inbound>>

FailAllFails(e) ==
  /\ ending[e] = "failing"
  /\ \E c \in doomed[e] :
       /\ Settle(c, "closed")
       /\ doomed' = [doomed EXCEPT ![e] = @ \ {c}]
  /\ UNCHANGED <<phase, result, disconnected, tasks, reader, ending, browser, inbound>>

(* The reader ends the watch channel, close() starts with it. *)
FailAllEnds(e) ==
  /\ ending[e] = "failing" /\ doomed[e] = {}
  /\ ending' = [ending EXCEPT ![e] = "done"]
  /\ shutdown' = TRUE
  /\ UNCHANGED <<calls, pending, disconnected, queue, writer, reader, doomed, browser, inbound>>

(* TransportTasks::close joins both tasks; after five seconds it aborts them, which *)
(* takes effect at their awaits.                                                    *)
JoinsForEver ==             \* mutant: no grace period, no abort
  /\ ending["closer"] = "closed"
  /\ UNCHANGED vars

AbortReader ==
  /\ ending["closer"] = "done" /\ ending["reader"] = "idle" /\ reader = Idle
  /\ reader' = Aborted
  /\ UNCHANGED <<calls, pending, disconnected, tasks, ending, doomed, browser, inbound>>

CloseReturns ==
  /\ ending["closer"] = "done" /\ ~writer
  /\ reader = Aborted \/ ending["reader"] = "done"
  /\ ending' = [ending EXCEPT !["closer"] = "closed"]
  /\ UNCHANGED <<calls, pending, disconnected, tasks, reader, doomed, browser, inbound>>

-----------------------------------------------------------------------------
(* The browser. *)
BrowserAnswers(c, v) ==
  /\ up /\ c \in held /\ SessionOf[c] \in attached \cup {Root}
  /\ held' = held \ {c}
  /\ answered' = answered \cup {c}
  /\ inbound' = Append(inbound, Answer(c, v))
  /\ UNCHANGED <<calls, pending, disconnected, tasks, reader, ending, doomed, up, attached>>

BrowserRefuses(c) ==
  /\ up /\ c \in held /\ SessionOf[c] \notin attached \cup {Root}
  /\ held' = held \ {c}
  /\ inbound' = Append(inbound, Answer(c, "gone"))
  /\ UNCHANGED <<calls, pending, disconnected, tasks, reader, ending, doomed, up, attached, answered>>

(* The commands of the session it holds are never answered. *)
BrowserDetaches(s) ==
  /\ up /\ s \in attached
  /\ attached' = attached \ {s}
  /\ held' = {c \in held : SessionOf[c] # s}
  /\ inbound' = Append(inbound, Detached(s))
  /\ UNCHANGED <<calls, pending, disconnected, tasks, reader, ending, doomed, up, answered>>

(* A tail of what it wrote may be lost. *)
BrowserExits ==
  /\ up
  /\ up' = FALSE /\ held' = {}
  /\ \E n \in 0..Len(inbound) : inbound' = SubSeq(inbound, 1, n)
  /\ UNCHANGED <<calls, pending, disconnected, tasks, reader, ending, doomed, attached, answered>>

-----------------------------------------------------------------------------
Caller(c) == Begin(c) \/ Register(c) \/ Recheck(c) \/ Enqueue(c) \/ Receive(c)
Reader == TakeFrame \/ DispatchAnswer \/ DispatchDetached \/ FailSessionCommand
Ender(e) == FailAllBegins(e) \/ FailAllCollects(e) \/ FailAllFails(e) \/ FailAllEnds(e)
Browser ==
  \/ \E c \in Commands : BrowserRefuses(c) \/ \E v \in {"ok", "error"} : BrowserAnswers(c, v)
  \/ \E s \in Sessions : BrowserDetaches(s)
  \/ BrowserExits

Next ==
  \/ \E c \in Commands : Caller(c) \/ Timeout(c) \/ Cancel(c)
  \/ Write \/ WriterStops
  \/ Reader
  \/ \E e \in Enders : Ender(e)
  \/ AbortReader \/ CloseReturns
  \/ Browser

Spec == Init /\ [][Next]_vars

(* Tasks are polled and the browser refuses what it cannot deliver.  Nobody has *)
(* to start a call or a close, and no deadline has to fire.                     *)
Underway(c) == phase[c] # "idle" /\ Caller(c)
Closing(e) == (e = "closer" => ending[e] # "idle") /\ Ender(e)

Fairness ==
  /\ \A c \in Commands : WF_vars(Underway(c)) /\ WF_vars(BrowserRefuses(c))
  /\ WF_vars(Write) /\ WF_vars(WriterStops) /\ WF_vars(Reader)
  /\ \A e \in Enders : WF_vars(Closing(e))
  /\ WF_vars(AbortReader) /\ WF_vars(CloseReturns)

FairSpec == Spec /\ Fairness

-----------------------------------------------------------------------------
Open == {"registered", "queueing", "waiting"}
Values == {"ok", "error", "gone", "detached", "closed"}

TypeOK ==
  /\ phase \in [Commands -> {"idle", "encoding", "done"} \cup Open]
  /\ result \in [Commands -> Values \cup {"none", "unsent", "timeout", "cancelled"}]
  /\ reply \in [Commands -> Values \cup {"none"}]
  /\ pending \subseteq Commands
  /\ disconnected \in BOOLEAN /\ writer \in BOOLEAN /\ shutdown \in BOOLEAN /\ up \in BOOLEAN
  /\ queue \in Seq(Commands) /\ Len(queue) <= QueueCap
  /\ \/ reader \in {Idle, Aborted}
     \/ \E f \in Frames : reader = Holding(f)
     \/ \E ids \in SUBSET Commands : reader = Failing(ids)
  /\ ending \in [Enders -> {"idle", "flagged", "failing", "done", "closed"}]
  /\ doomed \in [Enders -> SUBSET Commands]
  /\ attached \subseteq Sessions /\ held \subseteq Commands /\ answered \subseteq Commands
  /\ inbound \in Seq(Frames)

Ended(e) == ending[e] \in {"done", "closed"}

(* An entry of the pending map belongs to a call that is still waiting: a timeout, a *)
(* cancelled future and a refused send take their entry with them, whatever races    *)
(* them (transport.rs:816), and once a fail_all_pending has run to its end the only  *)
(* entries are of calls about to read the flag again and withdraw: no registration   *)
(* slips past the drain (transport.rs:887-911 against 777-802).                      *)
PendingIsAwaited ==
  \A c \in pending :
    /\ phase[c] \in Open
    /\ (\E e \in Enders : Ended(e)) => phase[c] = "registered"

(* A call fails for the reason it is given: detached or gone only when its own *)
(* session is, closed only when the connection is, and a value only when the    *)
(* browser gave one for this id.                                                *)
FailuresHaveACause ==
  \A c \in Commands :
    /\ result[c] \in {"detached", "gone"} => SessionOf[c] \notin attached \cup {Root}
    /\ result[c] = "closed" => disconnected
    /\ result[c] = "unsent" => ~up \/ disconnected
    /\ result[c] \in {"ok", "error"} => c \in answered

(* A frame that releases c: its answer, or its session's detachment.       *)
Releases(f, c) == f.of = IF f.kind = "answer" THEN c ELSE SessionOf[c]

(* The command is on its way to the browser, with it, or what releases the *)
(* call on its way back.                                                   *)
OnTheWay(c) ==
  \/ \E i \in 1..Len(queue) : queue[i] = c
  \/ c \in held
  \/ \E i \in 1..Len(inbound) : Releases(inbound[i], c)
  \/ reader.at = "holding" /\ Releases(reader.frame, c)
  \/ reader.at = "failing" /\ c \in reader.ids

BeingFailed(c) ==
  \E e \in Enders : ending[e] = "flagged" \/ (ending[e] = "failing" /\ c \in doomed[e])

(* A call that waits without a reply has its entry, and there is somebody  *)
(* who will answer it: once the flag is up a fail_all_pending that has not *)
(* got to it yet, with the browser gone the reader, who will come to the   *)
(* end of the stream, and else its command or what releases it under way.  *)
NoCallForgotten ==
  \A c \in Commands : phase[c] = "waiting" /\ reply[c] = "none" =>
    /\ c \in pending
    /\ IF disconnected THEN BeingFailed(c)
       ELSE IF up      THEN OnTheWay(c) /\ writer
       ELSE reader # Aborted /\ ending["reader"] = "idle"

(* When the connection or its session ends every call in flight returns, without      *)
(* waiting for its budget, whether the browser drops, refuses or never sees the command *)
(* (transport.rs:766: callers must not block on responses that will never arrive).     *)
CallsAreReleased ==
  \A c \in Commands :
    phase[c] # "idle" /\ (~up \/ disconnected \/ SessionOf[c] \notin attached \cup {Root})
      ~> phase[c] = "done"

(* close() returns although the browser neither reads, writes nor goes away, and *)
(* it leaves no call behind (transport_tasks.rs:34-69).                           *)
CloseEnds == ending["closer"] # "idle" ~> ending["closer"] = "closed"
=============================================================================
